------------------------------ MODULE ThreadHeap ------------------------------
(***************************************************************************)
(* What the allocator of tmalloc.h promises, without superbuffers, lists   *)
(* or compare-and-swap.  Memory is a set of units.  A unit is carved once, *)
(* for one thread, which is its owner ever after.  From then on it is free *)
(* at its owner, in use, or waiting on its way back to its owner; the      *)
(* units lent to the application are among those in use, the others in use *)
(* are the allocator's own or are being freed.  Units of another thread go *)
(* home in batches of Batch.                                               *)
(***************************************************************************)
EXTENDS Naturals, FiniteSets

CONSTANTS Threads, Units, Nobody, Batch, Grow

VARIABLES
  owner,    \* the thread each unit was carved for, or Nobody
  free,     \* free[t]: the units thread t can allocate
  inuse,    \* the units allocated and not freed
  lent,     \* those of them that belong to the application
  waiting   \* the units freed by a thread that does not own them

vars == <<owner, free, inuse, lent, waiting>>

Init ==
  /\ owner = [u \in Units |-> Nobody]
  /\ free = [t \in Threads |-> {}]
  /\ inuse = {} /\ lent = {} /\ waiting = {}

Unowned == {u \in Units : owner[u] = Nobody}

\* Thread t takes u, carving g for itself first if it has nothing left.
Take(t, g, u) ==
  /\ g \subseteq Unowned
  /\ g # {} => free[t] = {} /\ Cardinality(g) = Grow
  /\ u \in free[t] \cup g
  /\ u \notin inuse
  /\ owner' = [x \in Units |-> IF x \in g THEN t ELSE owner[x]]
  /\ free' = [free EXCEPT ![t] = (@ \cup g) \ {u}]
  /\ inuse' = inuse \cup {u}
  /\ UNCHANGED waiting

\* u goes to the application, which may give up another unit in exchange.
Lend(t) ==
  \E g \in SUBSET Unowned : \E u \in free[t] \cup g :
    /\ Take(t, g, u)
    /\ \/ lent' = lent \cup {u}
       \/ \E old \in lent : lent' = (lent \ {old}) \cup {u}

\* The allocator takes a unit for itself.
Batching(t) ==
  \E g \in SUBSET Unowned : \E u \in free[t] \cup g :
    Take(t, g, u) /\ UNCHANGED lent

GiveBack ==
  /\ \E u \in lent : lent' = lent \ {u}
  /\ UNCHANGED <<owner, free, inuse, waiting>>

FreeLocally(t) ==
  /\ \E u \in inuse \ lent :
       /\ owner[u] = t
       /\ inuse' = inuse \ {u}
       /\ free' = [free EXCEPT ![t] = @ \cup {u}]
  /\ UNCHANGED <<owner, lent, waiting>>

FreeRemotely(t) ==
  /\ \E u \in inuse \ lent :
       /\ owner[u] # t
       /\ inuse' = inuse \ {u}
       /\ waiting' = waiting \cup {u}
  /\ UNCHANGED <<owner, free, lent>>

\* A batch of its own units comes home to t.
Reclaim(t) ==
  /\ \E s \in SUBSET waiting :
       /\ Cardinality(s) = Batch
       /\ \A u \in s : owner[u] = t
       /\ waiting' = waiting \ s
       /\ free' = [free EXCEPT ![t] = @ \cup s]
  /\ UNCHANGED <<owner, inuse, lent>>

Next ==
  \/ GiveBack
  \/ \E t \in Threads :
       Lend(t) \/ Batching(t) \/ FreeLocally(t) \/ FreeRemotely(t) \/ Reclaim(t)

Spec == Init /\ [][Next]_vars
=============================================================================
