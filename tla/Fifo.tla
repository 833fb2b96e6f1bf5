-------------------------------- MODULE Fifo --------------------------------
(* What the queues of datastructmt.h promise: a first-in first-out queue   *)
(* of at most Capacity elements, on which every operation takes effect at  *)
(* one moment between its call and its return.                             *)
EXTENDS Naturals, Sequences

CONSTANTS Threads, Values, Null, Capacity

VARIABLES
  queue,   \* the elements, the oldest first
  doing,   \* what each thread is doing
  val      \* the element it puts or has taken

vars == <<queue, doing, val>>

Init ==
  /\ queue = <<>>
  /\ doing = [t \in Threads |-> "idle"]
  /\ val = [t \in Threads |-> Null]

CallPut(t) ==
  /\ doing[t] = "idle"
  /\ doing' = [doing EXCEPT ![t] = "put"]
  /\ \E v \in Values : val' = [val EXCEPT ![t] = v]
  /\ UNCHANGED queue

CallTake(t) ==
  /\ doing[t] = "idle"
  /\ doing' = [doing EXCEPT ![t] = "take"]
  /\ UNCHANGED <<queue, val>>

Put(t) ==
  /\ doing[t] = "put" /\ Len(queue) < Capacity
  /\ queue' = Append(queue, val[t])
  /\ doing' = [doing EXCEPT ![t] = "done"]
  /\ UNCHANGED val

Take(t) ==
  /\ doing[t] = "take" /\ queue # <<>>
  /\ queue' = Tail(queue)
  /\ val' = [val EXCEPT ![t] = Head(queue)]
  /\ doing' = [doing EXCEPT ![t] = "done"]

\* A queue that does not block refuses when it is full, or empty.
Refuse(t) ==
  /\ \/ doing[t] = "put" /\ Len(queue) = Capacity
     \/ doing[t] = "take" /\ queue = <<>>
  /\ doing' = [doing EXCEPT ![t] = "refused"]
  /\ UNCHANGED <<queue, val>>

Return(t) ==
  /\ doing[t] \in {"done", "refused"}
  /\ doing' = [doing EXCEPT ![t] = "idle"]
  /\ val' = [val EXCEPT ![t] = Null]
  /\ UNCHANGED queue

Step(t) == CallPut(t) \/ CallTake(t) \/ Put(t) \/ Take(t) \/ Return(t)

\* A queue whose callers wait for room or for an element.
BlockingSpec == Init /\ [][\E t \in Threads : Step(t)]_vars
\* A queue that refuses at once.
TryingNext == \E t \in Threads : Step(t) \/ Refuse(t)
TryingSpec == Init /\ [][TryingNext]_vars
=============================================================================
