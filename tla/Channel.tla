------------------------------- MODULE Channel -------------------------------
(* Channel of datastructmt.h: a ring without a lock between one sender and *)
(* one receiver.  The step of a thread is one access to shared memory.     *)
EXTENDS Integers, Sequences

CONSTANTS
  sender, receiver, Values, Null,
  SIZE,     \* slots of the ring
  Word      \* number of values of a u32

ASSUME ThreadsAssumption == sender # receiver
\* SIZE is a power of two (the assert of the constructor), as Word is: what
\* matters is that slots follow each other when a position wraps.
ASSUME SizeAssumption ==
  SIZE \in Nat \ {0} /\ Word \in Nat /\ Word > SIZE /\ Word % SIZE = 0

VARIABLES
  SendPos, ReceivePos,    \* positions, which wrap with the word
  Elements,
  pc,
  op,                     \* the member function a thread runs
  element,                \* its parameter
  sendpos, receivepos,    \* its locals
  answer                  \* its result

Threads == {sender, receiver}

shared == <<SendPos, ReceivePos, Elements>>
call == <<op, element>>
vars == <<shared, pc, call, sendpos, receivepos, answer>>

Slots == 0..(SIZE - 1)
Positions == 0..(Word - 1)
\* & (SIZE-1)
Slot(pos) == pos % SIZE

Queries == {"empty", "full", "waiting", "available"}

Init ==
  /\ SendPos = 0 /\ ReceivePos = 0
  /\ Elements = [i \in Slots |-> Null]
  /\ pc = [t \in Threads |-> "idle"]
  /\ op = [t \in Threads |-> "none"]
  /\ element = [t \in Threads |-> Null]
  /\ sendpos = [t \in Threads |-> 0]
  /\ receivepos = [t \in Threads |-> 0]
  /\ answer = [t \in Threads |-> 0]

-----------------------------------------------------------------------------
(* Calls.                                                                  *)

Call(t, f) ==
  /\ pc[t] = "idle" /\ pc' = [pc EXCEPT ![t] = "readSend"]
  /\ op' = [op EXCEPT ![t] = f]

CallEnqueue ==
  /\ Call(sender, "enqueue")
  /\ \E v \in Values : element' = [element EXCEPT ![sender] = v]
  /\ UNCHANGED <<shared, sendpos, receivepos, answer>>

CallDequeue ==
  /\ Call(receiver, "dequeue")
  /\ UNCHANGED <<shared, element, sendpos, receivepos, answer>>

\* empty, full, waiting and available, by either thread.
CallQuery(t) ==
  /\ \E f \in Queries : Call(t, f)
  /\ UNCHANGED <<shared, element, sendpos, receivepos, answer>>

\* The caller has the result.
Return(t) ==
  /\ pc[t] = "done"
  /\ pc' = [pc EXCEPT ![t] = "idle"]
  /\ op' = [op EXCEPT ![t] = "none"]
  /\ element' = [element EXCEPT ![t] = Null]
  /\ sendpos' = [sendpos EXCEPT ![t] = 0]
  /\ receivepos' = [receivepos EXCEPT ![t] = 0]
  /\ answer' = [answer EXCEPT ![t] = 0]
  /\ UNCHANGED shared

-----------------------------------------------------------------------------
(* The two positions, SendPos first (in waiting and available the compiler *)
(* chooses; one of the two is the caller's own and does not move).         *)

\* waiting and available subtract whole positions, the others compare slots.
Local(t, pos) == IF op[t] \in {"waiting", "available"} THEN pos ELSE Slot(pos)

ReadSend(t) ==
  /\ pc[t] = "readSend" /\ pc' = [pc EXCEPT ![t] = "readReceive"]
  /\ sendpos' = [sendpos EXCEPT ![t] = Local(t, SendPos)]
  /\ UNCHANGED <<shared, call, receivepos, answer>>

IsEmptyNever(s, r) == FALSE   \* mutant
IsEmpty(s, r) == s = r
IsFullLate(s, r) == FALSE   \* mutant
IsFull(s, r) == Slot(s + 1) = r

WaitingSigned(s, r) == s - r   \* mutant
WaitingIn(s, r) == (s - r) % Word
Available(s, r) == (SIZE - (s - r)) % Word

\* A result of 1 means full of enqueue, empty of dequeue, and true of empty
\* and full.
Result(f, s, r) ==
  CASE f = "enqueue" -> IF IsFull(s, r) THEN 1 ELSE 0
    [] f = "dequeue" -> IF IsEmpty(s, r) THEN 1 ELSE 0
    [] f = "empty" -> IF IsEmpty(s, r) THEN 1 ELSE 0
    [] f = "full" -> IF IsFull(s, r) THEN 1 ELSE 0
    [] f = "waiting" -> WaitingIn(s, r)
    [] f = "available" -> Available(s, r)

\* enqueue and dequeue go on to copy the element, unless they return 1.
ReadReceive(t) ==
  /\ pc[t] = "readReceive"
  /\ LET r == Local(t, ReceivePos)
         res == Result(op[t], sendpos[t], r)
     IN /\ receivepos' = [receivepos EXCEPT ![t] = r]
        /\ answer' = [answer EXCEPT ![t] = res]
        /\ pc' = [pc EXCEPT ![t] =
             IF op[t] \in {"enqueue", "dequeue"} /\ res = 0 THEN "copy" ELSE "done"]
  /\ UNCHANGED <<shared, call, sendpos>>

-----------------------------------------------------------------------------
(* The element, then the position: AtomicInc32.                            *)

Inc(pos) == (pos + 1) % Word

CopyIn ==
  /\ pc[sender] = "copy" /\ pc' = [pc EXCEPT ![sender] = "inc"]
  /\ Elements' = [Elements EXCEPT ![sendpos[sender]] = element[sender]]
  /\ UNCHANGED <<SendPos, ReceivePos, call, sendpos, receivepos, answer>>

IncSend ==
  /\ pc[sender] = "inc" /\ pc' = [pc EXCEPT ![sender] = "done"]
  /\ SendPos' = Inc(SendPos)
  /\ UNCHANGED <<ReceivePos, Elements, call, sendpos, receivepos, answer>>

CopyOut ==
  /\ pc[receiver] = "copy" /\ pc' = [pc EXCEPT ![receiver] = "inc"]
  /\ element' = [element EXCEPT ![receiver] = Elements[receivepos[receiver]]]
  /\ UNCHANGED <<shared, op, sendpos, receivepos, answer>>

IncReceive ==
  /\ pc[receiver] = "inc" /\ pc' = [pc EXCEPT ![receiver] = "done"]
  /\ ReceivePos' = Inc(ReceivePos)
  /\ UNCHANGED <<SendPos, Elements, call, sendpos, receivepos, answer>>

Next ==
  \/ CallEnqueue \/ CallDequeue
  \/ \E t \in Threads : CallQuery(t) \/ ReadSend(t) \/ ReadReceive(t) \/ Return(t)
  \/ CopyIn \/ IncSend \/ CopyOut \/ IncReceive

Spec == Init /\ [][Next]_vars

-----------------------------------------------------------------------------
(* Properties.                                                             *)

TypeOK ==
  /\ SendPos \in Positions /\ ReceivePos \in Positions
  /\ Elements \in [Slots -> Values \cup {Null}]
  /\ pc \in [Threads -> {"idle", "readSend", "readReceive", "copy", "inc", "done"}]
  /\ op \in [Threads -> Queries \cup {"none", "enqueue", "dequeue"}]
  /\ element \in [Threads -> Values \cup {Null}]
  /\ sendpos \in [Threads -> Positions]
  /\ receivepos \in [Threads -> Positions]
  /\ answer \in [Threads -> Positions]

\* The number of elements, at this moment.
Waiting == (SendPos - ReceivePos) % Word

\* Sender and receiver never touch the same slot at the same time, although
\* nothing but the two positions keeps them apart.
SlotsDisjoint ==
  pc[sender] = "copy" /\ pc[receiver] = "copy" => sendpos[sender] # receivepos[receiver]

\* What a thread learns from a query while the other thread goes on: the
\* sender may rely on the queue to be as empty as it was told or emptier, the
\* receiver on it to be as full or fuller; also after a position has wrapped.
QueriesReliable ==
  /\ pc[sender] = "done" =>
       /\ op[sender] = "waiting" => answer[sender] \in Waiting..(SIZE - 1)
       /\ op[sender] = "available" => answer[sender] \in 1..(SIZE - Waiting)
       /\ op[sender] = "empty" /\ answer[sender] = 1 => Waiting = 0
       /\ op[sender] = "full" /\ answer[sender] = 0 => Waiting < SIZE - 1
  /\ pc[receiver] = "done" =>
       /\ op[receiver] = "waiting" => answer[receiver] \in 0..Waiting
       /\ op[receiver] = "available" => answer[receiver] \in (SIZE - Waiting)..SIZE
       /\ op[receiver] = "full" /\ answer[receiver] = 1 => Waiting = SIZE - 1
       /\ op[receiver] = "empty" /\ answer[receiver] = 0 => Waiting > 0

\* The queue as its callers see it.  A call takes effect when it increments a
\* position; a full queue is refused when ReceivePos is read, an empty one
\* already when SendPos is read.
Contents == [i \in 1..Waiting |-> Elements[Slot(ReceivePos + i - 1)]]
FoundEmpty ==
  op[receiver] = "dequeue" /\ pc[receiver] = "readReceive"
  /\ IsEmpty(sendpos[receiver], Slot(ReceivePos))
Doing == [t \in Threads |->
  CASE op[t] \notin {"enqueue", "dequeue"} -> "idle"
    [] op[t] = "enqueue" /\ pc[t] # "done" -> "put"
    [] op[t] = "dequeue" /\ pc[t] # "done" /\ ~FoundEmpty -> "take"
    [] op[t] = "dequeue" /\ pc[t] # "done" /\ FoundEmpty -> "refused"
    [] op[t] \in {"enqueue", "dequeue"} /\ pc[t] = "done" /\ answer[t] = 0 -> "done"
    [] op[t] \in {"enqueue", "dequeue"} /\ pc[t] = "done" /\ answer[t] # 0 -> "refused"]
Val == [t \in Threads |-> IF t = receiver /\ pc[t] = "inc" THEN Null ELSE element[t]]

\* Without a lock the channel is a first-in first-out queue that holds up to
\* SIZE-1 elements and refuses only when it is full, or empty.
Abstract == INSTANCE Fifo WITH queue <- Contents, doing <- Doing, val <- Val, Capacity <- SIZE - 1
ImplementsFifo == Abstract!TryingSpec

\* "return number of slots available in queue" (datastructmt.h line 284):
\* with a slot available to the sender, its queue is not full.
AvailableIsRoom ==
  pc[sender] = "done" /\ op[sender] = "available" /\ answer[sender] > 0 => Waiting < SIZE - 1
=============================================================================
