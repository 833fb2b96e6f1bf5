-------------------------- MODULE BoundedQueueProof --------------------------
EXTENDS BoundedQueue, FiniteSetTheorems, TLAPS

-----------------------------------------------------------------------------
(* The inductive invariant.                                                *)

\* The slot i places after the oldest element.
SlotAt(i) == (NextRead + i) % QueueSize

\* A caller of enqueue has its element in hand until it has signalled it, a
\* caller of dequeue has none before it has read one.
ItemsInHand == \A t \in Threads :
  IF pc[t] \in {"waitSpace", "lockWrite", "store", "advanceWrite", "signalItem"}
    THEN item[t] \in Values
    ELSE pc[t] \in {"idle", "waitItem", "lockRead", "load"} => item[t] = Null

\* Filled slots hold elements.  Between its two statements in the critical
\* section a thread has written the slot it is about to hand out, or read
\* the slot it is about to give up.
SlotsHold ==
  /\ \A i \in 0..(Filled - 1) : Buffer[SlotAt(i)] \in Values
  /\ \A t \in Threads :
       /\ pc[t] = "advanceWrite" => Buffer[NextWrite] = item[t]
       /\ pc[t] = "advanceRead" => Buffer[NextRead] = item[t]

IInv == TypeOK /\ SlotsAccounted /\ Exclusion /\ ItemsInHand /\ SlotsHold

-----------------------------------------------------------------------------
(* Going round the ring.                                                   *)

\* At most once round the ring from pos.
LEMMA Around ==
  ASSUME NEW pos \in Offsets, NEW i \in 0..QueueSize
  PROVE  (pos + i) % QueueSize = IF pos + i < QueueSize THEN pos + i ELSE pos + i - QueueSize
BY QueueSizeAssumption DEF Offsets

\* The sum of slots from the next position on.
LEMMA OneOn ==
  ASSUME NEW pos \in Offsets, NEW i \in 0..(QueueSize - 1)
  PROVE  /\ After(pos) \in Offsets
         /\ (After(pos) + i) % QueueSize = (pos + (i + 1)) % QueueSize
<1>1. After(pos) \in Offsets
  BY QueueSizeAssumption DEF After, Offsets
<1>2. i \in 0..QueueSize /\ i + 1 \in 0..QueueSize
  BY QueueSizeAssumption
<1>3. (pos + (i + 1)) % QueueSize =
        IF pos + (i + 1) < QueueSize THEN pos + (i + 1) ELSE pos + (i + 1) - QueueSize
  BY <1>2, Around
<1>4. (After(pos) + i) % QueueSize =
        IF After(pos) + i < QueueSize THEN After(pos) + i ELSE After(pos) + i - QueueSize
  BY <1>1, <1>2, Around
<1>5. QED
  BY <1>1, <1>3, <1>4, QueueSizeAssumption DEF After, Offsets

-----------------------------------------------------------------------------
(* Counting threads.                                                       *)

\* The threads at some labels are counted by a natural number.
LEMMA CountType ==
  ASSUME NEW labels
  PROVE  IsFiniteSet(At(labels)) /\ Cardinality(At(labels)) \in Nat
<1>1. At(labels) \in SUBSET Threads
  BY DEF At
<1>2. QED
  BY <1>1, ThreadsAssumption, FS_Subset, FS_CardinalityType

\* A thread at one of the labels is counted.
LEMMA CountPositive ==
  ASSUME NEW labels, NEW t \in Threads, pc[t] \in labels
  PROVE  Cardinality(At(labels)) > 0
<1>1. At(labels) # {}
  BY DEF At
<1>2. QED
  BY <1>1, CountType, FS_EmptySet

\* What a thread that moves from one label to another does to a count.
LEMMA CountStep ==
  ASSUME TypeOK, NEW t \in Threads, NEW from, NEW to, Goto(t, from, to), NEW labels
  PROVE  Cardinality(At(labels)') =
           Cardinality(At(labels)) + (IF to \in labels THEN 1 ELSE 0)
                                   - (IF from \in labels THEN 1 ELSE 0)
<1>1. /\ pc'[t] = to /\ pc[t] = from
      /\ \A u \in Threads \ {t} : pc'[u] = pc[u]
  BY DEF Goto, TypeOK
<1>2. IsFiniteSet(At(labels)) /\ Cardinality(At(labels)) \in Nat
  BY CountType
<1>3. CASE to \in labels /\ from \notin labels
  <2>1. At(labels)' = At(labels) \cup {t} /\ t \notin At(labels)
    BY <1>1, <1>3 DEF At
  <2>2. QED
    BY <2>1, <1>2, <1>3, FS_AddElement
<1>4. CASE to \notin labels /\ from \in labels
  <2>1. At(labels)' = At(labels) \ {t} /\ t \in At(labels)
    BY <1>1, <1>4 DEF At
  <2>2. Cardinality(At(labels) \ {t}) = Cardinality(At(labels)) - 1
    BY <2>1, <1>2, FS_RemoveElement
  <2>3. QED
    BY <2>1, <2>2, <1>2, <1>4
<1>5. CASE (to \in labels) <=> (from \in labels)
  <2>1. At(labels)' = At(labels)
    BY <1>1, <1>5 DEF At
  <2>2. QED
    BY <2>1, <1>2, <1>5
<1>6. QED
  BY <1>3, <1>4, <1>5

\* The four counts of the law of the semaphores.
Writing == Cardinality(At({"lockWrite", "store", "advanceWrite"}))
Written == Cardinality(At({"signalItem"}))
Reading == Cardinality(At({"lockRead", "load", "advanceRead"}))
Emptied == Cardinality(At({"signalSpace"}))

\* One more of those at labels, or one less.
Enters(to, labels) == IF to \in labels THEN 1 ELSE 0

\* The four counts of threads are numbers.
LEMMA CountsType == Writing \in Nat /\ Written \in Nat /\ Reading \in Nat /\ Emptied \in Nat
BY CountType DEF Writing, Written, Reading, Emptied

\* A thread that goes from one label to another moves from count to count.
LEMMA CountsStep ==
  ASSUME TypeOK, NEW t \in Threads, NEW from, NEW to, Goto(t, from, to)
  PROVE  /\ Writing' = Writing + Enters(to, {"lockWrite", "store", "advanceWrite"})
                               - Enters(from, {"lockWrite", "store", "advanceWrite"})
         /\ Written' = Written + Enters(to, {"signalItem"}) - Enters(from, {"signalItem"})
         /\ Reading' = Reading + Enters(to, {"lockRead", "load", "advanceRead"})
                               - Enters(from, {"lockRead", "load", "advanceRead"})
         /\ Emptied' = Emptied + Enters(to, {"signalSpace"}) - Enters(from, {"signalSpace"})
<1>1. Writing' = Writing + Enters(to, {"lockWrite", "store", "advanceWrite"})
                         - Enters(from, {"lockWrite", "store", "advanceWrite"})
  BY CountStep DEF Writing, Enters
<1>2. Written' = Written + Enters(to, {"signalItem"}) - Enters(from, {"signalItem"})
  BY CountStep DEF Written, Enters
<1>3. Reading' = Reading + Enters(to, {"lockRead", "load", "advanceRead"})
                         - Enters(from, {"lockRead", "load", "advanceRead"})
  BY CountStep DEF Reading, Enters
<1>4. Emptied' = Emptied + Enters(to, {"signalSpace"}) - Enters(from, {"signalSpace"})
  BY CountStep DEF Emptied, Enters
<1>5. QED
  BY <1>1, <1>2, <1>3, <1>4

\* The law, in these terms.
LEMMA LawIs ==
  /\ Filled = SemItems + Written + Reading
  /\ SlotsAccounted <=> /\ SemSpaces + Writing + Filled + Emptied = QueueSize
                        /\ SlotAt(Filled) = NextWrite
BY DEF SlotsAccounted, Filled, Writing, Written, Reading, Emptied, SlotAt

\* What follows at once: no count and no semaphore is beyond the size of the
\* ring, and while a thread writes there is a slot that is not filled.
LEMMA LawBounds ==
  ASSUME TypeOK, SlotsAccounted
  PROVE  /\ Filled \in 0..QueueSize
         /\ SemItems + Written <= QueueSize /\ SemSpaces + Emptied <= QueueSize
         /\ \A t \in Threads :
              /\ pc[t] \in {"store", "advanceWrite"} => Filled < QueueSize
              /\ pc[t] = "signalItem" => SemItems < QueueSize
              /\ pc[t] \in {"load", "advanceRead"} => Filled > 0
              /\ pc[t] = "signalSpace" => SemSpaces < QueueSize
<1>1. /\ SemSpaces + Writing + Filled + Emptied = QueueSize
      /\ Filled = SemItems + Written + Reading
      /\ SemItems \in Nat /\ SemSpaces \in Nat
      /\ QueueSize \in Nat
  BY LawIs, QueueSizeAssumption DEF TypeOK
<1>2. \A t \in Threads :
        /\ pc[t] \in {"store", "advanceWrite"} => Writing > 0
        /\ pc[t] = "signalItem" => Written > 0
        /\ pc[t] \in {"load", "advanceRead"} => Reading > 0
        /\ pc[t] = "signalSpace" => Emptied > 0
  BY CountPositive DEF Writing, Written, Reading, Emptied
<1>3. QED
  BY <1>1, <1>2, CountsType

-----------------------------------------------------------------------------
(* The steps.                                                              *)

\* Types: the semaphores stay between 0 and QueueSize.
LEMMA TypeStep ==
  ASSUME TypeOK, SlotsAccounted, NEW t \in Threads, Call(t) \/ Internal(t)
  PROVE  TypeOK'
<1> USE LawBounds, QueueSizeAssumption, NullAssumption DEF TypeOK, Goto, PCs, ring
<1>1. CASE CallEnqueue(t)
  BY <1>1 DEF CallEnqueue
<1>2. CASE EnqueueWait(t)
  BY <1>2 DEF EnqueueWait, WaitSpace
<1>3. CASE EnqueueLock(t)
  BY <1>3 DEF EnqueueLock, Lock
<1>4. CASE Store(t)
  BY <1>4 DEF Store
<1>5. CASE AdvanceWrite(t)
  BY <1>5, OneOn DEF AdvanceWrite, Unlock
<1>6. CASE EnqueueSignal(t)
  BY <1>6 DEF EnqueueSignal, SignalItem
<1>7. CASE CallDequeue(t)
  BY <1>7 DEF CallDequeue
<1>8. CASE DequeueWait(t)
  BY <1>8 DEF DequeueWait, WaitItem
<1>9. CASE DequeueLock(t)
  BY <1>9 DEF DequeueLock, Lock
<1>10. CASE Load(t)
  BY <1>10 DEF Load
<1>11. CASE AdvanceRead(t)
  BY <1>11, OneOn DEF AdvanceRead, Unlock
<1>12. CASE DequeueSignal(t)
  BY <1>12 DEF DequeueSignal, SignalSpace
<1>13. QED
  BY <1>1, <1>2, <1>3, <1>4, <1>5, <1>6, <1>7, <1>8, <1>9, <1>10, <1>11, <1>12
  DEF Call, Internal

\* Only the statement that moves a position changes the number of filled
\* slots; the semaphores and the labels change together, so that the sum of
\* the law stays.
LEMMA LawStep ==
  ASSUME TypeOK, SlotsAccounted, NEW t \in Threads, Call(t) \/ Internal(t)
  PROVE  /\ Filled' = IF AdvanceWrite(t) THEN Filled + 1
                      ELSE IF AdvanceRead(t) THEN Filled - 1 ELSE Filled
         /\ (SemSpaces + Writing + Filled + Emptied)' = QueueSize
<1> DEFINE Law == /\ Filled' = IF pc[t] = "advanceWrite" THEN Filled + 1
                               ELSE IF pc[t] = "advanceRead" THEN Filled - 1 ELSE Filled
                  /\ (SemSpaces + Writing + Filled + Emptied)' = QueueSize
<1>0. /\ SemSpaces + Writing + Filled + Emptied = QueueSize
      /\ Filled = SemItems + Written + Reading
      /\ Filled' = SemItems' + Written' + Reading'
      /\ SemItems \in Nat /\ SemSpaces \in Nat /\ QueueSize \in Nat
      /\ Writing \in Nat /\ Written \in Nat /\ Reading \in Nat /\ Emptied \in Nat
  <2>1. Filled' = SemItems' + Written' + Reading'
    BY DEF Filled, Written, Reading
  <2>2. QED
    BY <2>1, LawIs, CountsType, QueueSizeAssumption DEF TypeOK
<1>a. (AdvanceWrite(t) <=> pc[t] = "advanceWrite") /\ (AdvanceRead(t) <=> pc[t] = "advanceRead")
  BY DEF Call, Internal, Goto, CallEnqueue, EnqueueWait, EnqueueLock, Store, AdvanceWrite,
         EnqueueSignal, CallDequeue, DequeueWait, DequeueLock, Load, AdvanceRead, DequeueSignal
<1> SUFFICES Law
  BY <1>a
<1>1. CASE CallEnqueue(t)
  <2>1. Goto(t, "idle", "waitSpace")
    BY <1>1 DEF CallEnqueue
  <2>2. /\ SemItems' = SemItems
        /\ SemSpaces' = SemSpaces
    BY <1>1 DEF CallEnqueue
  <2>3. /\ Writing' = Writing /\ Written' = Written
        /\ Reading' = Reading /\ Emptied' = Emptied
    BY <2>1, CountsStep, CountsType DEF Enters
  <2>4. pc[t] = "idle"
    BY <2>1 DEF Goto
  <2>5. QED
    BY <2>2, <2>3, <2>4, <1>0
<1>2. CASE EnqueueWait(t)
  <2>1. Goto(t, "waitSpace", "lockWrite")
    BY <1>2 DEF EnqueueWait
  <2>2. /\ SemItems' = SemItems
        /\ SemSpaces' = SemSpaces - 1
    BY <1>2 DEF EnqueueWait, WaitSpace
  <2>3. /\ Writing' = Writing + 1 /\ Written' = Written
        /\ Reading' = Reading /\ Emptied' = Emptied
    BY <2>1, CountsStep, CountsType DEF Enters
  <2>4. pc[t] = "waitSpace"
    BY <2>1 DEF Goto
  <2>5. QED
    BY <2>2, <2>3, <2>4, <1>0
<1>3. CASE EnqueueLock(t)
  <2>1. Goto(t, "lockWrite", "store")
    BY <1>3 DEF EnqueueLock
  <2>2. /\ SemItems' = SemItems
        /\ SemSpaces' = SemSpaces
    BY <1>3 DEF EnqueueLock
  <2>3. /\ Writing' = Writing /\ Written' = Written
        /\ Reading' = Reading /\ Emptied' = Emptied
    BY <2>1, CountsStep, CountsType DEF Enters
  <2>4. pc[t] = "lockWrite"
    BY <2>1 DEF Goto
  <2>5. QED
    BY <2>2, <2>3, <2>4, <1>0
<1>4. CASE Store(t)
  <2>1. Goto(t, "store", "advanceWrite")
    BY <1>4 DEF Store
  <2>2. /\ SemItems' = SemItems
        /\ SemSpaces' = SemSpaces
    BY <1>4 DEF Store
  <2>3. /\ Writing' = Writing /\ Written' = Written
        /\ Reading' = Reading /\ Emptied' = Emptied
    BY <2>1, CountsStep, CountsType DEF Enters
  <2>4. pc[t] = "store"
    BY <2>1 DEF Goto
  <2>5. QED
    BY <2>2, <2>3, <2>4, <1>0
<1>5. CASE AdvanceWrite(t)
  <2>1. Goto(t, "advanceWrite", "signalItem")
    BY <1>5 DEF AdvanceWrite
  <2>2. /\ SemItems' = SemItems
        /\ SemSpaces' = SemSpaces
    BY <1>5 DEF AdvanceWrite
  <2>3. /\ Writing' = Writing - 1 /\ Written' = Written + 1
        /\ Reading' = Reading /\ Emptied' = Emptied
    BY <2>1, CountsStep, CountsType DEF Enters
  <2>4. pc[t] = "advanceWrite"
    BY <2>1 DEF Goto
  <2>5. QED
    BY <2>2, <2>3, <2>4, <1>0
<1>6. CASE EnqueueSignal(t)
  <2>1. Goto(t, "signalItem", "idle")
    BY <1>6 DEF EnqueueSignal
  <2>2. /\ SemItems' = SemItems + 1
        /\ SemSpaces' = SemSpaces
    BY <1>6 DEF EnqueueSignal, SignalItem
  <2>3. /\ Writing' = Writing /\ Written' = Written - 1
        /\ Reading' = Reading /\ Emptied' = Emptied
    BY <2>1, CountsStep, CountsType DEF Enters
  <2>4. pc[t] = "signalItem"
    BY <2>1 DEF Goto
  <2>5. QED
    BY <2>2, <2>3, <2>4, <1>0
<1>7. CASE CallDequeue(t)
  <2>1. Goto(t, "idle", "waitItem")
    BY <1>7 DEF CallDequeue
  <2>2. /\ SemItems' = SemItems
        /\ SemSpaces' = SemSpaces
    BY <1>7 DEF CallDequeue
  <2>3. /\ Writing' = Writing /\ Written' = Written
        /\ Reading' = Reading /\ Emptied' = Emptied
    BY <2>1, CountsStep, CountsType DEF Enters
  <2>4. pc[t] = "idle"
    BY <2>1 DEF Goto
  <2>5. QED
    BY <2>2, <2>3, <2>4, <1>0
<1>8. CASE DequeueWait(t)
  <2>1. Goto(t, "waitItem", "lockRead")
    BY <1>8 DEF DequeueWait
  <2>2. /\ SemItems' = SemItems - 1
        /\ SemSpaces' = SemSpaces
    BY <1>8 DEF DequeueWait, WaitItem
  <2>3. /\ Writing' = Writing /\ Written' = Written
        /\ Reading' = Reading + 1 /\ Emptied' = Emptied
    BY <2>1, CountsStep, CountsType DEF Enters
  <2>4. pc[t] = "waitItem"
    BY <2>1 DEF Goto
  <2>5. QED
    BY <2>2, <2>3, <2>4, <1>0
<1>9. CASE DequeueLock(t)
  <2>1. Goto(t, "lockRead", "load")
    BY <1>9 DEF DequeueLock
  <2>2. /\ SemItems' = SemItems
        /\ SemSpaces' = SemSpaces
    BY <1>9 DEF DequeueLock
  <2>3. /\ Writing' = Writing /\ Written' = Written
        /\ Reading' = Reading /\ Emptied' = Emptied
    BY <2>1, CountsStep, CountsType DEF Enters
  <2>4. pc[t] = "lockRead"
    BY <2>1 DEF Goto
  <2>5. QED
    BY <2>2, <2>3, <2>4, <1>0
<1>10. CASE Load(t)
  <2>1. Goto(t, "load", "advanceRead")
    BY <1>10 DEF Load
  <2>2. /\ SemItems' = SemItems
        /\ SemSpaces' = SemSpaces
    BY <1>10 DEF Load
  <2>3. /\ Writing' = Writing /\ Written' = Written
        /\ Reading' = Reading /\ Emptied' = Emptied
    BY <2>1, CountsStep, CountsType DEF Enters
  <2>4. pc[t] = "load"
    BY <2>1 DEF Goto
  <2>5. QED
    BY <2>2, <2>3, <2>4, <1>0
<1>11. CASE AdvanceRead(t)
  <2>1. Goto(t, "advanceRead", "signalSpace")
    BY <1>11 DEF AdvanceRead
  <2>2. /\ SemItems' = SemItems
        /\ SemSpaces' = SemSpaces
    BY <1>11 DEF AdvanceRead
  <2>3. /\ Writing' = Writing /\ Written' = Written
        /\ Reading' = Reading - 1 /\ Emptied' = Emptied + 1
    BY <2>1, CountsStep, CountsType DEF Enters
  <2>4. pc[t] = "advanceRead"
    BY <2>1 DEF Goto
  <2>5. QED
    BY <2>2, <2>3, <2>4, <1>0
<1>12. CASE DequeueSignal(t)
  <2>1. Goto(t, "signalSpace", "idle")
    BY <1>12 DEF DequeueSignal
  <2>2. /\ SemItems' = SemItems
        /\ SemSpaces' = SemSpaces + 1
    BY <1>12 DEF DequeueSignal, SignalSpace
  <2>3. /\ Writing' = Writing /\ Written' = Written
        /\ Reading' = Reading /\ Emptied' = Emptied - 1
    BY <2>1, CountsStep, CountsType DEF Enters
  <2>4. pc[t] = "signalSpace"
    BY <2>1 DEF Goto
  <2>5. QED
    BY <2>2, <2>3, <2>4, <1>0
<1>13. QED
  BY <1>1, <1>2, <1>3, <1>4, <1>5, <1>6, <1>7, <1>8, <1>9, <1>10, <1>11, <1>12
  DEF Call, Internal

\* The slots from NextRead to NextWrite are the filled ones.
LEMMA PlaceStep ==
  ASSUME TypeOK, SlotsAccounted, NEW t \in Threads, Call(t) \/ Internal(t)
  PROVE  SlotAt(Filled)' = NextWrite'
<1>1. SlotAt(Filled) = NextWrite /\ Filled \in 0..QueueSize
  BY LawIs, LawBounds
<1>2. CASE AdvanceWrite(t)
  <2>1. Filled' = Filled + 1 /\ Filled < QueueSize
    BY <1>2, LawStep, LawBounds DEF AdvanceWrite, Goto
  <2>2. NextRead' = NextRead /\ NextWrite' = After(NextWrite)
    BY <1>2 DEF AdvanceWrite
  <2>3. NextRead \in Offsets /\ Filled + 1 \in 0..QueueSize
    BY <2>1, <1>1, QueueSizeAssumption DEF TypeOK
  <2>4. NextWrite = IF NextRead + Filled < QueueSize THEN NextRead + Filled
                    ELSE NextRead + Filled - QueueSize
    BY <1>1, <2>3, Around DEF SlotAt
  <2>5. (NextRead + (Filled + 1)) % QueueSize =
          IF NextRead + (Filled + 1) < QueueSize THEN NextRead + (Filled + 1)
          ELSE NextRead + (Filled + 1) - QueueSize
    BY <2>3, Around
  <2>6. (NextRead + (Filled + 1)) % QueueSize = After(NextWrite)
    BY <2>1, <2>3, <2>4, <2>5, <1>1, QueueSizeAssumption DEF After, Offsets
  <2>7. QED
    BY <2>1, <2>2, <2>6 DEF SlotAt
<1>3. CASE AdvanceRead(t)
  <2>1. Filled' = Filled - 1 /\ Filled > 0
    BY <1>3, LawStep, LawBounds DEF AdvanceWrite, AdvanceRead, Goto
  <2>2. NextWrite' = NextWrite /\ NextRead' = After(NextRead)
    BY <1>3 DEF AdvanceRead
  <2>3. NextRead \in Offsets /\ Filled - 1 \in 0..(QueueSize - 1) /\ (Filled - 1) + 1 = Filled
    BY <2>1, <1>1, QueueSizeAssumption DEF TypeOK
  <2>4. (After(NextRead) + (Filled - 1)) % QueueSize = (NextRead + ((Filled - 1) + 1)) % QueueSize
    BY <2>3, OneOn
  <2>5. QED
    BY <2>1, <2>2, <2>3, <2>4, <1>1 DEF SlotAt
<1>4. CASE ~AdvanceWrite(t) /\ ~AdvanceRead(t)
  <2>1. Filled' = Filled
    BY <1>4, LawStep
  <2>2. NextWrite' = NextWrite /\ NextRead' = NextRead
    BY <1>4 DEF Call, Internal, ring, CallEnqueue, EnqueueWait, EnqueueLock, Store,
                EnqueueSignal, CallDequeue, DequeueWait, DequeueLock, Load, DequeueSignal
  <2>3. QED
    BY <2>1, <2>2, <1>1 DEF SlotAt
<1>5. QED
  BY <1>2, <1>3, <1>4

\* So the law of the semaphores holds after the step.
LEMMA AccountStep ==
  ASSUME TypeOK, SlotsAccounted, NEW t \in Threads, Call(t) \/ Internal(t)
  PROVE  SlotsAccounted'
<1>1. (SemSpaces + Writing + Filled + Emptied)' = QueueSize
  BY LawStep
<1>2. SlotAt(Filled)' = NextWrite'
  BY PlaceStep
<1>3. QED
  BY <1>1, <1>2 DEF SlotsAccounted, Filled, Writing, Written, Reading, Emptied, SlotAt

\* A thread enters a critical section with the lock and leaves it without.
LEMMA ExclusionStep ==
  ASSUME TypeOK, Exclusion, NEW t \in Threads, Call(t) \/ Internal(t)
  PROVE  Exclusion'
<1> DEFINE Inside == {"store", "advanceWrite", "load", "advanceRead"}
<1>1. /\ \A u \in Threads \ {t} : pc'[u] = pc[u]
      /\ pc[t] \notin Inside /\ pc'[t] \notin Inside => Buffer_l' = Buffer_l
      /\ pc[t] \notin Inside /\ pc'[t] \in Inside => Buffer_l = Null /\ Buffer_l' = t
      /\ pc[t] \in Inside /\ pc'[t] \in Inside => Buffer_l' = Buffer_l
      /\ pc[t] \in Inside /\ pc'[t] \notin Inside => Buffer_l' = Null
  BY DEF TypeOK, Call, Internal, Goto, Lock, Unlock, CallEnqueue, EnqueueWait, EnqueueLock,
         Store, AdvanceWrite, EnqueueSignal, CallDequeue, DequeueWait, DequeueLock, Load,
         AdvanceRead, DequeueSignal
<1>2. \A u \in Threads : Buffer_l = u <=> pc[u] \in Inside
  BY DEF Exclusion
<1> HIDE DEF Inside
<1>3. \A u \in Threads : Buffer_l' = u <=> pc'[u] \in Inside
  BY <1>1, <1>2, NullAssumption
<1>4. QED
  BY <1>3 DEF Exclusion, Inside

\* A caller's element comes with the call, or from a filled slot.
LEMMA HandsStep ==
  ASSUME IInv, NEW t \in Threads, Call(t) \/ Internal(t)
  PROVE  ItemsInHand'
<1> USE DEF TypeOK, Goto
<1>0. TypeOK /\ ItemsInHand
  BY DEF IInv
<1>1. \A u \in Threads \ {t} : pc'[u] = pc[u] /\ item'[u] = item[u]
  BY <1>0 DEF Call, Internal, ring, CallEnqueue, EnqueueWait, EnqueueLock, Store,
              AdvanceWrite, EnqueueSignal, CallDequeue, DequeueWait, DequeueLock, Load,
              AdvanceRead, DequeueSignal
<1>2. IF pc'[t] \in {"waitSpace", "lockWrite", "store", "advanceWrite", "signalItem"}
        THEN item'[t] \in Values
        ELSE pc'[t] \in {"idle", "waitItem", "lockRead", "load"} => item'[t] = Null
  BY <1>0 DEF ItemsInHand, Call, Internal, ring, CallEnqueue, EnqueueWait, EnqueueLock, Store,
              AdvanceWrite, EnqueueSignal, CallDequeue, DequeueWait, DequeueLock, Load,
              AdvanceRead, DequeueSignal
<1>3. QED
  BY <1>0, <1>1, <1>2 DEF ItemsInHand

-----------------------------------------------------------------------------
(* What the slots hold.                                                    *)

\* The two ends of the filled slots, seen from the oldest one: the slot to be
\* written is none of them, unless the ring is full.
LEMMA SlotsDiffer ==
  ASSUME TypeOK, SlotsAccounted, NEW i \in 0..(Filled - 1)
  PROVE  /\ SlotAt(i) \in Offsets
         /\ Filled < QueueSize => SlotAt(i) # NextWrite
         /\ SlotAt(0) = NextRead
<1>1. SlotAt(Filled) = NextWrite /\ Filled \in 0..QueueSize /\ NextRead \in Offsets
  BY LawIs, LawBounds DEF TypeOK
<1>2. i \in 0..QueueSize /\ 0 \in 0..QueueSize
  BY <1>1, QueueSizeAssumption
<1>3. /\ SlotAt(i) = IF NextRead + i < QueueSize THEN NextRead + i ELSE NextRead + i - QueueSize
      /\ SlotAt(0) = IF NextRead + 0 < QueueSize THEN NextRead + 0 ELSE NextRead + 0 - QueueSize
      /\ SlotAt(Filled) = IF NextRead + Filled < QueueSize THEN NextRead + Filled
                          ELSE NextRead + Filled - QueueSize
  BY <1>1, <1>2, Around DEF SlotAt
<1>4. QED
  BY <1>1, <1>2, <1>3, QueueSizeAssumption DEF Offsets

\* At most one thread is in a critical section.
LEMMA Alone ==
  ASSUME Exclusion, NEW t \in Threads, NEW u \in Threads,
         pc[t] \in {"store", "advanceWrite", "load", "advanceRead"},
         pc[u] \in {"store", "advanceWrite", "load", "advanceRead"}
  PROVE  t = u
<1>1. Buffer_l = t
  BY DEF Exclusion
<1>2. Buffer_l = u
  BY DEF Exclusion
<1>3. QED
  BY <1>1, <1>2

\* A write goes to a slot that is not filled, so filled slots keep their
\* elements until they are read.
LEMMA SlotsStep ==
  ASSUME IInv, NEW t \in Threads, Call(t) \/ Internal(t)
  PROVE  SlotsHold'
<1>0. TypeOK /\ SlotsAccounted /\ Exclusion /\ ItemsInHand /\ SlotsHold
  BY DEF IInv
<1>1. Filled' = IF AdvanceWrite(t) THEN Filled + 1
                ELSE IF AdvanceRead(t) THEN Filled - 1 ELSE Filled
  BY <1>0, LawStep
<1>2. Filled \in 0..QueueSize /\ SlotAt(Filled) = NextWrite /\ NextWrite \in Offsets
  BY <1>0, LawBounds, LawIs DEF TypeOK
<1> SUFFICES /\ \A i \in 0..(Filled' - 1) : Buffer'[SlotAt(i)'] \in Values
             /\ \A u \in Threads :
                  /\ pc'[u] = "advanceWrite" => Buffer'[NextWrite'] = item'[u]
                  /\ pc'[u] = "advanceRead" => Buffer'[NextRead'] = item'[u]
  BY DEF SlotsHold
<1>3. CASE Store(t)
  <2>1. /\ Buffer' = [Buffer EXCEPT ![NextWrite] = item[t]]
        /\ NextWrite' = NextWrite /\ NextRead' = NextRead /\ item' = item
        /\ pc[t] = "store" /\ pc'[t] = "advanceWrite"
        /\ \A u \in Threads \ {t} : pc'[u] = pc[u]
    BY <1>0, <1>3 DEF Store, Goto, TypeOK
  <2>2. Filled' = Filled /\ Filled < QueueSize
    BY <1>0, <1>1, <2>1, LawBounds DEF AdvanceWrite, AdvanceRead, Goto
  <2>3. ASSUME NEW i \in 0..(Filled' - 1) PROVE Buffer'[SlotAt(i)'] \in Values
    <3>1. SlotAt(i)' = SlotAt(i) /\ SlotAt(i) # NextWrite /\ SlotAt(i) \in Offsets
      BY <2>1, <2>2, <1>0, SlotsDiffer DEF SlotAt
    <3>2. QED
      BY <3>1, <2>1, <2>2, <1>0 DEF SlotsHold, TypeOK
  <2>4. ASSUME NEW u \in Threads
        PROVE  /\ pc'[u] = "advanceWrite" => Buffer'[NextWrite'] = item'[u]
               /\ pc'[u] = "advanceRead" => Buffer'[NextRead'] = item'[u]
    <3>1. CASE u = t
      BY <3>1, <2>1, <1>0, <1>2 DEF TypeOK
    <3>2. CASE u # t
      BY <3>2, <2>1, <1>0, Alone
    <3>3. QED
      BY <3>1, <3>2
  <2>5. QED
    BY <2>3, <2>4
<1>4. CASE AdvanceWrite(t)
  <2>1. /\ Buffer' = Buffer /\ NextRead' = NextRead /\ item' = item
        /\ pc[t] = "advanceWrite" /\ pc'[t] = "signalItem"
        /\ \A u \in Threads \ {t} : pc'[u] = pc[u]
    BY <1>0, <1>4 DEF AdvanceWrite, Goto, TypeOK
  <2>2. \A i \in 0..Filled : Buffer[SlotAt(i)] \in Values
    <3>1. Buffer[SlotAt(Filled)] \in Values
      BY <1>0, <1>2, <2>1 DEF SlotsHold, ItemsInHand
    <3>2. QED
      BY <3>1, <1>0, <1>2 DEF SlotsHold
  <2>3. ASSUME NEW i \in 0..(Filled' - 1) PROVE Buffer'[SlotAt(i)'] \in Values
    BY <2>1, <2>2, <1>1, <1>4, <1>2 DEF SlotAt
  <2>4. \A u \in Threads : pc'[u] \notin {"advanceWrite", "advanceRead"}
    BY <2>1, <1>0, Alone
  <2>5. QED
    BY <2>3, <2>4
<1>5. CASE AdvanceRead(t)
  <2>1. /\ Buffer' = Buffer /\ NextRead' = After(NextRead) /\ item' = item
        /\ pc[t] = "advanceRead" /\ pc'[t] = "signalSpace"
        /\ \A u \in Threads \ {t} : pc'[u] = pc[u]
    BY <1>0, <1>5 DEF AdvanceRead, Goto, TypeOK
  <2>2. Filled' = Filled - 1
    BY <1>1, <1>5, <2>1 DEF AdvanceWrite, Goto
  <2>3. ASSUME NEW i \in 0..(Filled' - 1) PROVE Buffer'[SlotAt(i)'] \in Values
    <3>1. i \in 0..(QueueSize - 1) /\ i + 1 \in 0..(Filled - 1) /\ NextRead \in Offsets
      <4>1. NextRead \in Offsets
        BY <1>0 DEF TypeOK
      <4>2. QED
        BY <4>1, <2>2, <1>2, QueueSizeAssumption
    <3>2. SlotAt(i)' = SlotAt(i + 1)
      BY <3>1, <2>1, OneOn DEF SlotAt
    <3>3. QED
      BY <3>1, <3>2, <2>1, <1>0 DEF SlotsHold
  <2>4. \A u \in Threads : pc'[u] \notin {"advanceWrite", "advanceRead"}
    BY <2>1, <1>0, Alone
  <2>5. QED
    BY <2>3, <2>4
<1>6. CASE Load(t)
  <2>1. /\ Buffer' = Buffer /\ NextRead' = NextRead /\ NextWrite' = NextWrite
        /\ item'[t] = Buffer[NextRead]
        /\ pc[t] = "load" /\ pc'[t] = "advanceRead"
        /\ \A u \in Threads \ {t} : pc'[u] = pc[u]
    BY <1>0, <1>6 DEF Load, Goto, TypeOK, ring
  <2>2. Filled' = Filled
    BY <1>1, <2>1 DEF AdvanceWrite, AdvanceRead, Goto
  <2>3. \A u \in Threads \ {t} : pc'[u] \notin {"advanceWrite", "advanceRead"}
    BY <2>1, <1>0, Alone
  <2>4. QED
    BY <2>1, <2>2, <2>3, <1>0 DEF SlotsHold, SlotAt
<1>7. CASE ~(Store(t) \/ AdvanceWrite(t) \/ AdvanceRead(t) \/ Load(t))
  <2>1. /\ Buffer' = Buffer /\ NextRead' = NextRead /\ NextWrite' = NextWrite
        /\ pc'[t] \notin {"advanceWrite", "advanceRead"}
        /\ \A u \in Threads \ {t} : pc'[u] = pc[u] /\ item'[u] = item[u]
    BY <1>0, <1>7 DEF Call, Internal, Goto, TypeOK, ring, CallEnqueue, EnqueueWait, EnqueueLock,
         EnqueueSignal, CallDequeue, DequeueWait, DequeueLock, DequeueSignal
  <2>2. Filled' = Filled
    BY <1>1, <1>7
  <2>3. QED
    BY <2>1, <2>2, <1>0 DEF SlotsHold, SlotAt
<1>8. QED
  BY <1>3, <1>4, <1>5, <1>6, <1>7

-----------------------------------------------------------------------------
(* The invariant.                                                          *)

\* At first every slot is free.
LEMMA InitInv == Init => IInv
<1> SUFFICES ASSUME Init PROVE IInv
  OBVIOUS
<1>1. TypeOK
  BY QueueSizeAssumption DEF Init, TypeOK, Offsets, PCs
<1>2. \A labels : "idle" \notin labels => Cardinality(At(labels)) = 0
  <2>1. ASSUME NEW labels, "idle" \notin labels PROVE At(labels) = {}
    BY <2>1 DEF Init, At
  <2>2. QED
    BY <2>1, FS_EmptySet
<1>3. Writing = 0 /\ Written = 0 /\ Reading = 0 /\ Emptied = 0
  BY <1>2 DEF Writing, Written, Reading, Emptied
<1>4. Filled = 0
  BY <1>3, LawIs DEF Init
<1>5. SlotsAccounted
  <2>1. SlotAt(0) = 0
    BY QueueSizeAssumption DEF Init, SlotAt
  <2>2. QED
    BY <2>1, <1>3, <1>4, LawIs, QueueSizeAssumption DEF Init
<1>6. Exclusion /\ ItemsInHand
  BY NullAssumption DEF Init, Exclusion, ItemsInHand
<1>7. SlotsHold
  BY <1>4 DEF Init, SlotsHold
<1>8. QED
  BY <1>1, <1>5, <1>6, <1>7 DEF IInv

\* Every step keeps the invariant.
LEMMA NextInv == IInv /\ [Next]_vars => IInv'
<1> SUFFICES ASSUME IInv, [Next]_vars PROVE IInv'
  OBVIOUS
<1>1. ASSUME NEW t \in Threads, Call(t) \/ Internal(t) PROVE IInv'
  BY <1>1, TypeStep, AccountStep, ExclusionStep, HandsStep, SlotsStep DEF IInv
<1>2. CASE UNCHANGED vars
  BY <1>2 DEF vars, ring, IInv, TypeOK, SlotsAccounted, Exclusion, ItemsInHand, SlotsHold,
              Filled, At, SlotAt
<1>3. QED
  BY <1>1, <1>2 DEF Next, AllWait

\* The inductive invariant holds of every behaviour.
THEOREM RingInvariance == Spec => []IInv
<1>1. QED
  BY InitInv, NextInv, PTL DEF Spec

\* The semaphores stay between 0 and QueueSize, whatever threads call.
THEOREM RingTypes == Spec => []TypeOK
<1>1. IInv => TypeOK
  BY DEF IInv
<1>2. QED
  BY <1>1, RingInvariance, PTL

\* However many threads call, in whatever order they pass the semaphores and
\* the lock: every slot is free, reserved, filled or just emptied, and those
\* from NextRead to NextWrite are the filled ones.
THEOREM RingAccounted == Spec => []SlotsAccounted
<1>1. IInv => SlotsAccounted
  BY DEF IInv
<1>2. QED
  BY <1>1, RingInvariance, PTL

\* The critical sections of enqueue and dequeue exclude each other.
THEOREM RingExclusive == Spec => []Exclusion
<1>1. IInv => Exclusion
  BY DEF IInv
<1>2. QED
  BY <1>1, RingInvariance, PTL

-----------------------------------------------------------------------------
(* The queue is first-in first-out.                                        *)

\* The elements of the abstract queue, the oldest first.
Elements ==
  /\ Filled \in 0..QueueSize
  /\ Contents \in Seq(Values) /\ Len(Contents) = Filled
  /\ \A i \in 1..Filled : Contents[i] = Buffer[SlotAt(i - 1)]

\* They are the filled slots, in order.
LEMMA ContentsIs == IInv => Elements
<1> SUFFICES ASSUME IInv PROVE Elements
  OBVIOUS
<1>1. TypeOK /\ SlotsAccounted /\ SlotsHold
  BY DEF IInv
<1>2. Filled \in 0..QueueSize /\ NextRead \in Nat
  BY <1>1, LawBounds DEF TypeOK, Offsets
<1>3. ASSUME NEW i \in 1..Filled
      PROVE  Buffer[(NextRead + i - 1) % QueueSize] = Buffer[SlotAt(i - 1)]
             /\ Buffer[SlotAt(i - 1)] \in Values
  <2>1. i - 1 \in 0..(Filled - 1) /\ NextRead + i - 1 = NextRead + (i - 1)
    BY <1>2
  <2>2. QED
    BY <2>1, <1>1 DEF SlotAt, SlotsHold
<1>4. Contents \in [1..Filled -> Values]
  BY <1>3 DEF Contents
<1>5. Contents \in Seq(Values) /\ Len(Contents) = Filled
  <2> HIDE DEF Contents
  <2>1. QED
    BY <1>2, <1>4
<1>6. QED
  BY <1>2, <1>3, <1>5 DEF Contents, Elements

\* The same of the next state.
LEMMA ContentsNext == IInv' => Elements'
BY ContentsIs, PTL

\* What a thread does and holds, where the step leaves it.
LEMMA DoingStep ==
  ASSUME TypeOK, NEW t \in Threads, \A u \in Threads \ {t} : pc'[u] = pc[u] /\ item'[u] = item[u]
  PROVE  /\ Doing' = [Doing EXCEPT ![t] = Doing'[t]]
         /\ Val' = [Val EXCEPT ![t] = Val'[t]]
         /\ Doing'[t] = Doing[t] => Doing' = Doing
         /\ Val'[t] = Val[t] => Val' = Val
<1> DEFINE Does(label) ==
  CASE label = "idle" -> "idle"
    [] label \in {"waitSpace", "lockWrite", "store", "advanceWrite"} -> "put"
    [] label \in {"waitItem", "lockRead", "load", "advanceRead"} -> "take"
    [] label \in {"signalItem", "signalSpace"} -> "done"
<1>1. Doing = [u \in Threads |-> Does(pc[u])] /\ Doing' = [u \in Threads |-> Does(pc'[u])]
  BY DEF Doing
<1> HIDE DEF Does
<1>2. \A u \in Threads \ {t} : Doing'[u] = Doing[u] /\ Val'[u] = Val[u]
  BY <1>1 DEF Val
<1>3. Doing = [u \in Threads |-> Doing[u]] /\ Doing' = [u \in Threads |-> Doing'[u]]
  BY <1>1
<1>4. Val = [u \in Threads |-> Val[u]] /\ Val' = [u \in Threads |-> Val'[u]]
  BY DEF Val
<1>5. QED
  BY <1>2, <1>3, <1>4

\* A step of a thread is a step of the abstract queue, or changes nothing of it.
LEMMA FifoStep ==
  ASSUME IInv, NEW t \in Threads, Call(t) \/ Internal(t)
  PROVE  Abstract!Step(t) \/ UNCHANGED <<Contents, Doing, Val>>
<1>0. TypeOK /\ SlotsAccounted /\ Exclusion /\ ItemsInHand /\ SlotsHold
  BY DEF IInv
<1>1. IInv'
  BY TypeStep, AccountStep, ExclusionStep, HandsStep, SlotsStep DEF IInv
<1>2. Filled' = IF AdvanceWrite(t) THEN Filled + 1
                ELSE IF AdvanceRead(t) THEN Filled - 1 ELSE Filled
  BY <1>0, LawStep
<1>3. /\ Filled \in 0..QueueSize /\ SlotAt(Filled) = NextWrite /\ NextWrite \in Offsets
      /\ QueueSize \in Nat
  BY <1>0, LawBounds, LawIs, QueueSizeAssumption DEF TypeOK
<1>4. /\ Doing' = [Doing EXCEPT ![t] = Doing'[t]]
      /\ Val' = [Val EXCEPT ![t] = Val'[t]]
      /\ Doing'[t] = Doing[t] => Doing' = Doing
      /\ Val'[t] = Val[t] => Val' = Val
  <2>1. \A u \in Threads \ {t} : pc'[u] = pc[u] /\ item'[u] = item[u]
    BY <1>0 DEF TypeOK, Goto, Call, Internal, ring, CallEnqueue, EnqueueWait, EnqueueLock, Store,
              AdvanceWrite, EnqueueSignal, CallDequeue, DequeueWait, DequeueLock, Load,
              AdvanceRead, DequeueSignal
  <2>2. QED
    BY <2>1, <1>0, DoingStep
<1>5. /\ Contents \in Seq(Values) /\ Len(Contents) = Filled
      /\ \A i \in 1..Filled : Contents[i] = Buffer[SlotAt(i - 1)]
  BY ContentsIs DEF Elements
<1>6. /\ Contents' \in Seq(Values) /\ Len(Contents') = Filled'
      /\ \A i \in 1..Filled' : Contents'[i] = Buffer'[SlotAt(i - 1)']
  BY <1>1, ContentsNext DEF Elements
<1>7. ASSUME UNCHANGED ring, Filled' = Filled PROVE Contents' = Contents
  <2>1. \A i \in 1..Filled : SlotAt(i - 1)' = SlotAt(i - 1)
    BY <1>7 DEF SlotAt, ring
  <2>2. QED
    BY <2>1, <1>7, <1>5, <1>6 DEF ring
<1>8. CASE Call(t)
  <2>1. Contents' = Contents
    BY <1>8, <1>7, <1>2 DEF Call, CallEnqueue, CallDequeue, AdvanceWrite, AdvanceRead, Goto
  <2>2. CASE CallEnqueue(t)
    <3>1. /\ pc[t] = "idle" /\ pc'[t] = "waitSpace"
          /\ \E v \in Values : item'[t] = v
      BY <2>2, <1>0 DEF CallEnqueue, Goto, TypeOK
    <3>2. PICK v \in Values : item'[t] = v
      BY <3>1
    <3>3. Doing[t] = "idle" /\ Doing'[t] = "put" /\ Val'[t] = v
      BY <3>1, <3>2 DEF Doing, Val
    <3>4. QED
      BY <2>1, <3>3, <1>4 DEF Abstract!Step, Abstract!CallPut
  <2>3. CASE CallDequeue(t)
    <3>1. pc[t] = "idle" /\ pc'[t] = "waitItem" /\ item' = item
      BY <2>3, <1>0 DEF CallDequeue, Goto, TypeOK
    <3>2. Doing[t] = "idle" /\ Doing'[t] = "take" /\ Val'[t] = Val[t]
      BY <3>1 DEF Doing, Val
    <3>3. Val' = Val
      BY <3>2, <1>4
    <3>4. QED
      BY <2>1, <3>2, <3>3, <1>4 DEF Abstract!Step, Abstract!CallTake
  <2>4. QED
    BY <1>8, <2>2, <2>3 DEF Call
<1>9. CASE AdvanceWrite(t)
  <2>1. /\ pc[t] = "advanceWrite" /\ pc'[t] = "signalItem"
        /\ item' = item /\ Buffer' = Buffer /\ NextRead' = NextRead
    BY <1>9, <1>0 DEF AdvanceWrite, Goto, TypeOK
  <2>2. Filled < QueueSize /\ Filled' = Filled + 1
    BY <2>1, <1>0, <1>2, <1>9, LawBounds
  <2>3. Doing[t] = "put" /\ Doing'[t] = "done" /\ Val'[t] = Val[t] /\ Val[t] = item[t]
    BY <2>1 DEF Doing, Val
  <2>4. Val' = Val
    BY <2>3, <1>4
  <2>5. item[t] = Buffer[SlotAt(Filled)] /\ item[t] \in Values
    BY <2>1, <1>0, <1>3 DEF SlotsHold, ItemsInHand
  <2>6. \A i \in 1..(Filled + 1) : Contents'[i] = Append(Contents, item[t])[i]
    <3>1. \A i \in 1..(Filled + 1) : SlotAt(i - 1)' = SlotAt(i - 1)
      BY <2>1 DEF SlotAt
    <3>2. \A i \in 1..(Filled + 1) : Contents'[i] = Buffer[SlotAt(i - 1)]
      BY <3>1, <2>1, <2>2, <1>6
    <3>3. \A i \in 1..(Filled + 1) :
            Append(Contents, item[t])[i] = IF i = Filled + 1 THEN item[t] ELSE Contents[i]
      BY <1>5, <1>3, <2>5
    <3>4. QED
      BY <3>2, <3>3, <1>5, <1>3, <2>5
  <2>7. Contents' = Append(Contents, Val[t])
    BY <2>6, <2>2, <2>3, <2>5, <1>5, <1>6
  <2>8. QED
    BY <2>2, <2>3, <2>4, <2>7, <1>4, <1>5 DEF Abstract!Step, Abstract!Put
<1>10. CASE AdvanceRead(t)
  <2>1. /\ pc[t] = "advanceRead" /\ pc'[t] = "signalSpace"
        /\ item' = item /\ Buffer' = Buffer /\ NextRead' = After(NextRead)
    BY <1>10, <1>0 DEF AdvanceRead, Goto, TypeOK
  <2>2. Filled > 0 /\ Filled' = Filled - 1
    BY <2>1, <1>0, <1>2, <1>10, LawBounds DEF AdvanceWrite, Goto
  <2>3. Doing[t] = "take" /\ Doing'[t] = "done" /\ Val'[t] = item[t]
    BY <2>1 DEF Doing, Val
  <2>4. item[t] = Contents[1]
    <3>1. SlotAt(0) = NextRead
      BY <1>0, <1>3, <2>2, SlotsDiffer
    <3>2. Contents[1] = Buffer[SlotAt(1 - 1)]
      BY <1>5, <1>3, <2>2
    <3>3. QED
      BY <3>1, <3>2, <2>1, <1>0 DEF SlotsHold
  <2>5. \A i \in 1..(Filled - 1) : Contents'[i] = Contents[i + 1]
    <3>1. ASSUME NEW i \in 1..(Filled - 1) PROVE SlotAt(i - 1)' = SlotAt(i)
      <4>1. /\ i - 1 \in 0..(QueueSize - 1) /\ (i - 1) + 1 = i
        BY <1>3
      <4>2. NextRead \in Offsets
        BY <1>0 DEF TypeOK
      <4>3. QED
        BY <4>1, <4>2, <2>1, OneOn DEF SlotAt
    <3>2. \A i \in 1..(Filled - 1) : Contents'[i] = Buffer[SlotAt(i)]
      BY <3>1, <2>1, <2>2, <1>6
    <3>3. \A i \in 1..(Filled - 1) : i + 1 \in 1..Filled /\ (i + 1) - 1 = i
      BY <1>3
    <3>4. QED
      BY <3>2, <3>3, <1>5
  <2>6. Contents' = Tail(Contents) /\ Contents # <<>>
    BY <2>5, <2>2, <1>3, <1>5, <1>6
  <2>7. QED
    BY <2>3, <2>4, <2>6, <1>4 DEF Abstract!Step, Abstract!Take
<1>11. CASE EnqueueSignal(t) \/ DequeueSignal(t)
  <2>1. Contents' = Contents
    BY <1>11, <1>7, <1>2 DEF EnqueueSignal, DequeueSignal, AdvanceWrite, AdvanceRead, Goto
  <2>2. pc[t] \in {"signalItem", "signalSpace"} /\ pc'[t] = "idle" /\ item'[t] = Null
    BY <1>11, <1>0 DEF EnqueueSignal, DequeueSignal, Goto, TypeOK
  <2>3. Doing[t] = "done" /\ Doing'[t] = "idle" /\ Val'[t] = Null
    BY <2>2 DEF Doing, Val
  <2>4. QED
    BY <2>1, <2>3, <1>4 DEF Abstract!Step, Abstract!Return
<1>12. CASE Store(t)
  <2>1. /\ Buffer' = [Buffer EXCEPT ![NextWrite] = item[t]]
        /\ NextRead' = NextRead /\ item' = item
        /\ pc[t] = "store" /\ pc'[t] = "advanceWrite"
    BY <1>0, <1>12 DEF Store, Goto, TypeOK
  <2>2. Filled' = Filled /\ Filled < QueueSize
    BY <1>0, <1>2, <2>1, LawBounds DEF AdvanceWrite, AdvanceRead, Goto
  <2>3. ASSUME NEW i \in 1..Filled PROVE Contents'[i] = Contents[i]
    <3>1. i - 1 \in 0..(Filled - 1)
      BY <1>3
    <3>2. SlotAt(i - 1)' = SlotAt(i - 1) /\ SlotAt(i - 1) # NextWrite /\ SlotAt(i - 1) \in Offsets
      BY <3>1, <2>1, <2>2, <1>0, SlotsDiffer DEF SlotAt
    <3>3. Buffer'[SlotAt(i - 1)] = Buffer[SlotAt(i - 1)]
      BY <3>2, <2>1, <1>0 DEF TypeOK
    <3>4. QED
      BY <3>2, <3>3, <2>2, <1>5, <1>6
  <2>4. Contents' = Contents
    BY <2>2, <2>3, <1>5, <1>6
  <2>5. Doing'[t] = Doing[t] /\ Val'[t] = Val[t]
    BY <2>1 DEF Doing, Val
  <2>6. QED
    BY <2>4, <2>5, <1>4
<1>13. CASE Load(t)
  <2>1. Contents' = Contents
    BY <1>13, <1>7, <1>2 DEF Load, AdvanceWrite, AdvanceRead, Goto
  <2>2. pc[t] = "load" /\ pc'[t] = "advanceRead" /\ item[t] = Null
    BY <1>0, <1>13 DEF Load, Goto, TypeOK, ItemsInHand
  <2>3. Doing'[t] = Doing[t] /\ Val'[t] = Val[t]
    BY <2>2 DEF Doing, Val
  <2>4. QED
    BY <2>1, <2>3, <1>4
<1>14. CASE EnqueueWait(t) \/ EnqueueLock(t) \/ DequeueWait(t) \/ DequeueLock(t)
  <2>1. Contents' = Contents
    BY <1>14, <1>7, <1>2
    DEF EnqueueWait, EnqueueLock, DequeueWait, DequeueLock, AdvanceWrite, AdvanceRead, Goto
  <2>2. /\ item' = item
        /\ \/ pc[t] \in {"waitSpace", "lockWrite"} /\ pc'[t] \in {"lockWrite", "store"}
           \/ pc[t] \in {"waitItem", "lockRead"} /\ pc'[t] \in {"lockRead", "load"}
    BY <1>0, <1>14 DEF EnqueueWait, EnqueueLock, DequeueWait, DequeueLock, Goto, TypeOK
  <2>3. Doing'[t] = Doing[t] /\ Val'[t] = Val[t]
    BY <2>2 DEF Doing, Val
  <2>4. QED
    BY <2>1, <2>3, <1>4
<1>15. QED
  BY <1>8, <1>9, <1>10, <1>11, <1>12, <1>13, <1>14 DEF Internal

\* The bounded queue implements the abstract queue: whatever the number of
\* threads, slots and elements, it is first-in first-out, holds at most
\* QueueSize elements and loses and repeats none.
THEOREM RingIsFifo == Spec => ImplementsFifo
<1>1. Init => Abstract!Init
  <2> SUFFICES ASSUME Init PROVE Abstract!Init
    OBVIOUS
  <2>1. IInv
    BY InitInv
  <2>2. \A labels : "idle" \notin labels => At(labels) = {}
    BY DEF Init, At
  <2>3. Written = 0 /\ Reading = 0
    BY <2>2, FS_EmptySet DEF Written, Reading
  <2>4. Filled = 0
    BY <2>3, LawIs DEF Init
  <2>5. Contents = <<>>
    BY <2>1, <2>4, ContentsIs DEF Elements
  <2>6. /\ Doing = [t \in Threads |-> "idle"]
        /\ Val = [t \in Threads |-> Null]
    BY DEF Init, Doing, Val
  <2>7. QED
    BY <2>5, <2>6 DEF Abstract!Init
<1>2. IInv /\ [Next]_vars => [\E t \in Threads : Abstract!Step(t)]_(Abstract!vars)
  <2> SUFFICES ASSUME IInv, [Next]_vars
               PROVE  [\E t \in Threads : Abstract!Step(t)]_(Abstract!vars)
    OBVIOUS
  <2>1. ASSUME NEW t \in Threads, Call(t) \/ Internal(t)
        PROVE  [\E u \in Threads : Abstract!Step(u)]_(Abstract!vars)
    BY <2>1, FifoStep DEF Abstract!vars
  <2>2. CASE UNCHANGED vars
    BY <2>2 DEF vars, ring, Abstract!vars, Contents, Doing, Val, Filled, At
  <2>3. QED
    BY <2>1, <2>2 DEF Next, AllWait
<1>3. QED
  BY <1>1, <1>2, RingInvariance, PTL DEF Spec, ImplementsFifo, Abstract!BlockingSpec
=============================================================================
