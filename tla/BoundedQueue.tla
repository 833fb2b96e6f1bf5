---------------------------- MODULE BoundedQueue ----------------------------
(* BoundedQueue of datastructmt.h: a ring under a lock, with one semaphore *)
(* that counts its elements and one that counts its free slots.  The step  *)
(* of a thread is one call of a semaphore or of the lock, or one statement *)
(* of the critical section.                                                *)
EXTENDS Integers, FiniteSets, Sequences

CONSTANTS Threads, Values, Null, QueueSize

ASSUME NullAssumption == Null \notin Threads \cup Values
ASSUME QueueSizeAssumption == QueueSize \in Nat \ {0}
\* A process has finitely many threads: those at a label can be counted.
ASSUME ThreadsAssumption == IsFiniteSet(Threads)

VARIABLES
  Buffer, NextWrite, NextRead,   \* the ring
  SemItems, SemSpaces,           \* values of the semaphores
  Buffer_l,                      \* the thread that has the lock, or Null
  pc,
  item                           \* enqueue's item, dequeue's retval

ring == <<Buffer, NextWrite, NextRead>>
vars == <<ring, SemItems, SemSpaces, Buffer_l, pc, item>>

Offsets == 0..(QueueSize - 1)

PCs == {"idle", "waitSpace", "lockWrite", "store", "advanceWrite", "signalItem",
        "waitItem", "lockRead", "load", "advanceRead", "signalSpace"}

Init ==
  /\ Buffer = [i \in Offsets |-> Null]
  /\ NextWrite = 0 /\ NextRead = 0
  /\ SemItems = 0 /\ SemSpaces = QueueSize
  /\ Buffer_l = Null
  /\ pc = [t \in Threads |-> "idle"]
  /\ item = [t \in Threads |-> Null]

Goto(t, from, to) == pc[t] = from /\ pc' = [pc EXCEPT ![t] = to]

\* if (++pos == QueueSize) pos = 0;
After(pos) == IF pos + 1 = QueueSize THEN 0 ELSE pos + 1

-----------------------------------------------------------------------------
(* The semaphores and the lock.                                            *)

\* sem_wait, called again when a signal handler interrupts it.
WaitSpace == SemSpaces > 0 /\ SemSpaces' = SemSpaces - 1
WaitItemBlind == SemItems' = IF SemItems > 0 THEN SemItems - 1 ELSE 0   \* mutant
WaitItem == SemItems > 0 /\ SemItems' = SemItems - 1

SignalItem == SemItems' = SemItems + 1
SignalSpace == SemSpaces' = SemSpaces + 1

LockNothing(t) == Buffer_l' = t   \* mutant
Lock(t) == Buffer_l = Null /\ Buffer_l' = t
UnlockForgotten == UNCHANGED Buffer_l   \* mutant
Unlock == Buffer_l' = Null

-----------------------------------------------------------------------------
(* enqueue(item).                                                          *)

CallEnqueue(t) ==
  /\ Goto(t, "idle", "waitSpace")
  /\ \E v \in Values : item' = [item EXCEPT ![t] = v]
  /\ UNCHANGED <<ring, SemItems, SemSpaces, Buffer_l>>

EnqueueWait(t) ==
  /\ Goto(t, "waitSpace", "lockWrite") /\ WaitSpace
  /\ UNCHANGED <<ring, SemItems, Buffer_l, item>>

EnqueueLock(t) ==
  /\ Goto(t, "lockWrite", "store") /\ Lock(t)
  /\ UNCHANGED <<ring, SemItems, SemSpaces, item>>

Store(t) ==
  /\ Goto(t, "store", "advanceWrite")
  /\ Buffer' = [Buffer EXCEPT ![NextWrite] = item[t]]
  /\ UNCHANGED <<NextWrite, NextRead, SemItems, SemSpaces, Buffer_l, item>>

\* NextWrite moves on, and the lock is released.
AdvanceWrite(t) ==
  /\ Goto(t, "advanceWrite", "signalItem") /\ Unlock
  /\ NextWrite' = After(NextWrite)
  /\ UNCHANGED <<Buffer, NextRead, SemItems, SemSpaces, item>>

EnqueueSignal(t) ==
  /\ Goto(t, "signalItem", "idle") /\ SignalItem
  /\ item' = [item EXCEPT ![t] = Null]
  /\ UNCHANGED <<ring, SemSpaces, Buffer_l>>

-----------------------------------------------------------------------------
(* dequeue().                                                              *)

CallDequeue(t) ==
  /\ Goto(t, "idle", "waitItem")
  /\ UNCHANGED <<ring, SemItems, SemSpaces, Buffer_l, item>>

DequeueWait(t) ==
  /\ Goto(t, "waitItem", "lockRead") /\ WaitItem
  /\ UNCHANGED <<ring, SemSpaces, Buffer_l, item>>

DequeueLock(t) ==
  /\ Goto(t, "lockRead", "load") /\ Lock(t)
  /\ UNCHANGED <<ring, SemItems, SemSpaces, item>>

Load(t) ==
  /\ Goto(t, "load", "advanceRead")
  /\ item' = [item EXCEPT ![t] = Buffer[NextRead]]
  /\ UNCHANGED <<ring, SemItems, SemSpaces, Buffer_l>>

AdvanceRead(t) ==
  /\ Goto(t, "advanceRead", "signalSpace") /\ Unlock
  /\ NextRead' = After(NextRead)
  /\ UNCHANGED <<Buffer, NextWrite, SemItems, SemSpaces, item>>

DequeueSignal(t) ==
  /\ Goto(t, "signalSpace", "idle") /\ SignalSpace
  /\ item' = [item EXCEPT ![t] = Null]
  /\ UNCHANGED <<ring, SemItems, Buffer_l>>

Call(t) == CallEnqueue(t) \/ CallDequeue(t)
Internal(t) ==
  \/ EnqueueWait(t) \/ EnqueueLock(t) \/ Store(t) \/ AdvanceWrite(t) \/ EnqueueSignal(t)
  \/ DequeueWait(t) \/ DequeueLock(t) \/ Load(t) \/ AdvanceRead(t) \/ DequeueSignal(t)

At(labels) == {t \in Threads : pc[t] \in labels}

\* Elements written and not read yet: those signalled, those whose writer has
\* not signalled yet, and those promised to a reader that has not read yet.
Filled ==
  SemItems + Cardinality(At({"signalItem"})) + Cardinality(At({"lockRead", "load", "advanceRead"}))

\* Every thread waits for an element of an empty queue, or for room in a full
\* one.  The queue may stop there (the application would wait for itself) and
\* nowhere else: any other state in which it stops is a deadlock.
AllWait ==
  /\ \/ At({"waitItem"}) = Threads /\ Filled = 0
     \/ At({"waitSpace"}) = Threads /\ Filled = QueueSize
  /\ UNCHANGED vars

Next == (\E t \in Threads : Call(t) \/ Internal(t)) \/ AllWait
Spec == Init /\ [][Next]_vars
\* A thread that can take its next step takes it, sooner or later.
FairSpec == Spec /\ \A t \in Threads : WF_vars(Internal(t))

-----------------------------------------------------------------------------
(* Properties.                                                             *)

TypeOK ==
  /\ Buffer \in [Offsets -> Values \cup {Null}]
  /\ NextWrite \in Offsets /\ NextRead \in Offsets
  /\ SemItems \in 0..QueueSize /\ SemSpaces \in 0..QueueSize
  /\ Buffer_l \in Threads \cup {Null}
  /\ pc \in [Threads -> PCs]
  /\ item \in [Threads -> Values \cup {Null}]

\* The law of the two semaphores: every slot is free, reserved by a writer,
\* filled, or read by a thread that has not signalled yet; and the filled
\* ones are those from NextRead to NextWrite.  So no writer overwrites an
\* element that nobody has read, no reader reads a slot nobody has written.
SlotsAccounted ==
  /\ SemSpaces + Cardinality(At({"lockWrite", "store", "advanceWrite"})) + Filled
       + Cardinality(At({"signalSpace"})) = QueueSize
  /\ (NextRead + Filled) % QueueSize = NextWrite

\* The critical sections exclude each other.
Exclusion == \A t \in Threads :
  Buffer_l = t <=> pc[t] \in {"store", "advanceWrite", "load", "advanceRead"}

\* The queue as its callers see it.
Contents == [i \in 1..Filled |-> Buffer[(NextRead + i - 1) % QueueSize]]
Doing == [t \in Threads |->
  CASE pc[t] = "idle" -> "idle"
    [] pc[t] \in {"waitSpace", "lockWrite", "store", "advanceWrite"} -> "put"
    [] pc[t] \in {"waitItem", "lockRead", "load", "advanceRead"} -> "take"
    [] pc[t] \in {"signalItem", "signalSpace"} -> "done"]
Val == [t \in Threads |-> IF pc[t] = "advanceRead" THEN Null ELSE item[t]]

\* Whatever the order in which threads pass the semaphores, get the lock and
\* signal, the queue is first-in first-out, holds at most QueueSize elements,
\* and each call takes effect once, when NextWrite or NextRead moves on.
Abstract == INSTANCE Fifo WITH queue <- Contents, doing <- Doing, val <- Val, Capacity <- QueueSize
ImplementsFifo == Abstract!BlockingSpec

\* Whoever waits for an element is not left waiting while there is one: some
\* reader gets it.
ElementsDelivered ==
  (At({"waitItem"}) # {} /\ Filled > 0) ~> At({"signalSpace"}) # {}
\* Whoever waits for room is not left waiting while there is room.
RoomUsed ==
  (At({"waitSpace"}) # {} /\ Filled < QueueSize) ~> At({"signalItem"}) # {}

\* Every enqueue and every dequeue returns (of one producer and one consumer
\* that call again and again).
CallsReturn == \A t \in Threads : pc[t] # "idle" ~> pc[t] = "idle"
=============================================================================
