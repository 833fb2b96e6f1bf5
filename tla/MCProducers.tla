----------------------------- MODULE MCProducers -----------------------------
(* Producers only allocate and the other threads only free, so that a      *)
(* small memory suffices for batches, races of senders and drains.         *)
EXTENDS MCTmalloc

CONSTANT Producers

ProducersAllocate ==
  /\ LowestFirst
  /\ \A t \in Threads :
       op'[t] \in (IF t \in Producers THEN {"none", "malloc"} ELSE {"none", "free"})

\* The _TMThreadInfo of all threads lie a multiple of 2^32 bytes apart.
CollidingLow == [t \in Threads |-> 0]

\* addNode is lock-free: however often the compare-and-swaps of the threads that
\* push onto a producer's list fail, some succeed. Onto the list of another
\* thread only the producer pushes.
PushProgress == \A d \in Producers : SomePushSucceeds(d)
=============================================================================
