------------------------------- MODULE MCQueues -------------------------------
(* The two queues of datastructmt.h for TLC, one of them per behaviour: a   *)
(* channel, a bounded queue of which each thread uses both ends, or one     *)
(* with a producer and a consumer that call for ever, as in the test        *)
(* TestBoundedQueueConcurrent.  The bounded queue lives in the variables of *)
(* the channel.                                                             *)
EXTENDS Channel

CONSTANTS Users, Producer, Consumer, QueueSize
VARIABLE part

Q == INSTANCE BoundedQueue WITH Threads <- Users,
       Buffer <- Elements, NextWrite <- SendPos, NextRead <- ReceivePos,
       SemItems <- sendpos, SemSpaces <- receivepos, Buffer_l <- op, item <- element

InitQueues ==
  \/ part = "channel" /\ Init
  \/ part \in {"shared", "pair"} /\ Q!Init /\ answer = Null

Rest == <<part, answer>>
ChannelStep == part = "channel" /\ Next /\ UNCHANGED part
SharedStep == part = "shared" /\ Q!Next /\ UNCHANGED Rest
CallProducer == part = "pair" /\ Q!CallEnqueue(Producer) /\ UNCHANGED Rest
CallConsumer == part = "pair" /\ Q!CallDequeue(Consumer) /\ UNCHANGED Rest
Within(t) == part \in {"shared", "pair"} /\ Q!Internal(t) /\ UNCHANGED Rest

NextQueues ==
  \/ ChannelStep \/ SharedStep \/ CallProducer \/ CallConsumer
  \/ \E t \in {Producer, Consumer} : part = "pair" /\ Within(t)

\* A thread that can take its next step takes it, sooner or later; producer
\* and consumer call again and again.
LiveSpec ==
  /\ InitQueues /\ [][NextQueues]_<<vars, part>>
  /\ \A t \in Users : WF_<<vars, part>>(Within(t))
  /\ WF_<<vars, part>>(CallProducer) /\ WF_<<vars, part>>(CallConsumer)

-----------------------------------------------------------------------------
(* Properties.                                                             *)

\* BoundedQueue: whoever waits for an element is not left waiting while there
\* is one, whoever's signal it takes.
ElementsDelivered == [](part # "channel") => Q!ElementsDelivered
\* BoundedQueue: whoever waits for room is not left waiting while there is room.
RoomUsed == [](part # "channel") => Q!RoomUsed
\* BoundedQueue: with one producer and one consumer that call again and again
\* every enqueue and every dequeue returns.
CallsReturn == [](part = "pair") => Q!CallsReturn

\* Channel: sender and receiver are never at the same slot.
NoSlotShared == part = "channel" => SlotsDisjoint
\* Channel: the queries err on the safe side.
AnswersSafe == part = "channel" => QueriesReliable
\* Channel: a first-in first-out queue of SIZE-1 elements.
ChannelIsFifo ==
  /\ part = "channel" => Abstract!Init
  /\ [][part = "channel" => [Abstract!TryingNext]_(Abstract!vars)]_<<vars, part>>
=============================================================================
