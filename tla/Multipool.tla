------------------------------ MODULE Multipool ------------------------------
(* FixedAllocatorMultipool of tmalloc.cpp, pools with a lock each           *)
(* (FixedAllocator) from which the threads take units in turn, and to which *)
(* they return them in turn. A thread holds a lock for more than one step;  *)
(* the lock gives way to one thread at a time.                              *)
EXTENDS FreeUnits

CONSTANTS
  Threads, NPools,
  Starts,       \* NextPool at first: the constructor does not set it
  StartPool,    \* units of a new pool
  IncGrow,
  Unit, Real,   \* Size, Realsize
  MaxTurns,     \* bound: the turns that are taken
  NoThread

PoolsRight ==
  /\ NPools \in Nat \ {0} /\ IncGrow \in Nat \ {0} /\ StartPool \in Nat
  /\ Starts \subseteq Nat /\ Unit \in Nat /\ Real \in Nat /\ Unit < Real

VARIABLES
  NextPool, turns,
  unit, head, NAllocated, FreeUnits_lock, brk,
  held,         \* the units each thread has
  pc, pool, pb, \* locals of alloc and free
  asserts       \* no checkPadding has failed

vars == <<NextPool, turns, unit, head, NAllocated, FreeUnits_lock, brk, held, pc, pool, pb, asserts>>

Pools == 0 .. NPools - 1

(* grow(inc): the units and the first free one afterwards.                  *)
Begins(p) == 1 + p * StartPool * Real
Init ==
  LET start(p) == Carved(Begins(p), StartPool, Real)
      poolOf(a) == CHOOSE p \in Pools : a \in start(p)
      all == UNION {start(p) : p \in Pools}
  IN /\ NextPool \in Starts /\ turns = 0
     /\ unit = [a \in all |-> grow(<<>>, UnitsTail, Begins(poolOf(a)), StartPool, Real)[a]]
     /\ head = [p \in Pools |-> IF StartPool = 0 THEN UnitsTail ELSE Begins(p)]
     /\ NAllocated = [p \in Pools |-> 0]
     /\ FreeUnits_lock = [p \in Pools |-> NoThread]
     /\ brk = Begins(NPools)
     /\ held = [t \in Threads |-> {}]
     /\ pc = [t \in Threads |-> "ready"]
     /\ pool = [t \in Threads |-> 0] /\ pb = [t \in Threads |-> 0]
     /\ asserts = TRUE

(* checkPadding(buf, true).                                                 *)
Checked(a) == unit[a].allocated # Unused

(* int i = AtomicInc32(&NextPool) % NPools.                                 *)
TakesTurn(t) ==
  /\ turns < MaxTurns /\ turns' = turns + 1
  /\ NextPool' = NextPool + 1 /\ pool' = [pool EXCEPT ![t] = (NextPool + 1) % NPools]

alloc(t) ==
  /\ pc[t] = "ready" /\ TakesTurn(t)
  /\ pc' = [pc EXCEPT ![t] = "lock to alloc"]
  /\ UNCHANGED <<unit, head, NAllocated, FreeUnits_lock, brk, held, pb, asserts>>

free(t) ==
  /\ pc[t] = "ready" /\ TakesTurn(t)
  /\ \E a \in held[t] :
       /\ pb' = [pb EXCEPT ![t] = a] /\ held' = [held EXCEPT ![t] = @ \ {a}]
       /\ asserts' = (asserts /\ Checked(a))
  /\ pc' = [pc EXCEPT ![t] = "lock to free"]
  /\ UNCHANGED <<unit, head, NAllocated, FreeUnits_lock, brk>>

LockIgnored(t) == TRUE
LockFree(t) == FreeUnits_lock[pool[t]] = NoThread
Lock(t) ==
  /\ pc[t] \in {"lock to alloc", "lock to free"} /\ LockFree(t)
  /\ FreeUnits_lock' = [FreeUnits_lock EXCEPT ![pool[t]] = t]
  /\ pc' = [pc EXCEPT ![t] = IF @ = "lock to alloc" THEN "take" ELSE "put"]
  /\ UNCHANGED <<NextPool, turns, unit, head, NAllocated, brk, held, pool, pb, asserts>>

(* grow when there is no free unit, and the first.                          *)
Take(t) ==
  LET p == pool[t]
  IN /\ pc[t] = "take"
     /\ \/ /\ head[p] # UnitsTail
           /\ pb' = [pb EXCEPT ![t] = head[p]] /\ UNCHANGED <<unit, head, brk>>
        \/ /\ head[p] = UnitsTail /\ brk + IncGrow * Real <= Memory
           /\ unit' = grow(unit, UnitsTail, brk, IncGrow, Real)
           /\ head' = [head EXCEPT ![p] = brk] /\ brk' = brk + IncGrow * Real
           /\ pb' = [pb EXCEPT ![t] = brk]
     /\ pc' = [pc EXCEPT ![t] = "taken"]
     /\ UNCHANGED <<NextPool, turns, NAllocated, FreeUnits_lock, held, pool, asserts>>

(* FreeUnitsHead->next = pb->next and what follows, to the unlock.          *)
Unlink(t) ==
  LET p == pool[t]
  IN /\ pc[t] = "taken"
     /\ head' = [head EXCEPT ![p] = unit[pb[t]].next]
     /\ unit' = Taken(unit, pb[t], Unit)
     /\ NAllocated' = [NAllocated EXCEPT ![p] = @ + 1]
     /\ FreeUnits_lock' = [FreeUnits_lock EXCEPT ![p] = NoThread]
     /\ pc' = [pc EXCEPT ![t] = "check"]
     /\ UNCHANGED <<NextPool, turns, brk, held, pool, pb, asserts>>

Check(t) ==
  /\ pc[t] = "check" /\ asserts' = (asserts /\ Checked(pb[t]))
  /\ held' = [held EXCEPT ![t] = @ \cup {pb[t]}]
  /\ pc' = [pc EXCEPT ![t] = "ready"]
  /\ UNCHANGED <<NextPool, turns, unit, head, NAllocated, FreeUnits_lock, brk, pool, pb>>

Put(t) ==
  LET p == pool[t]
  IN /\ pc[t] = "put"
     /\ unit' = Returned(unit, pb[t], head[p]) /\ head' = [head EXCEPT ![p] = pb[t]]
     /\ NAllocated' = [NAllocated EXCEPT ![p] = @ - 1]
     /\ FreeUnits_lock' = [FreeUnits_lock EXCEPT ![p] = NoThread]
     /\ pc' = [pc EXCEPT ![t] = "ready"]
     /\ UNCHANGED <<NextPool, turns, brk, held, pool, pb, asserts>>

\* The bound is reached, or the memory ends in the middle of a call, which
\* keeps those that wait for its lock.
Stopped(t) ==
  \/ pc[t] = "ready" /\ turns = MaxTurns
  \/ pc[t] = "take" /\ head[pool[t]] = UnitsTail /\ brk + IncGrow * Real > Memory
Ended ==
  /\ \A t \in Threads :
       \/ Stopped(t)
       \/ /\ pc[t] \in {"lock to alloc", "lock to free"}
          /\ \E u \in Threads : Stopped(u) /\ FreeUnits_lock[pool[t]] = u
  /\ UNCHANGED vars

ThreadStep(t) == alloc(t) \/ free(t) \/ Lock(t) \/ Take(t) \/ Unlink(t) \/ Check(t) \/ Put(t)
Next == Ended \/ \E t \in Threads : ThreadStep(t)
Spec == Init /\ [][Next]_vars
------------------------------------------------------------------------------
Out(t) == held[t] \cup IF pc[t] \in {"check", "lock to free", "put"} THEN {pb[t]} ELSE {}
Free(p) == FreeList(unit, head[p])
Counted ==
  LET sum[n \in 0 .. NPools] == IF n = 0 THEN 0 ELSE sum[n - 1] + NAllocated[n - 1]
  IN sum[NPools]

(* A unit is with one thread or in the free list of one pool, whichever it  *)
(* came from; the header says which, when a checkPadding reads it without   *)
(* the lock too; and the counters of the pools together count the units out.*)
UnitsSound ==
  LET out == UNION {Out(t) : t \in Threads}
  IN /\ asserts
     /\ \A t, u \in Threads : t # u => Out(t) \cap Out(u) = {}
     /\ \A p \in Pools :
          /\ IsInjective(Free(p))
          /\ \A q \in Pools \ {p} : Range(Free(p)) \cap Range(Free(q)) = {}
     /\ UNION {Range(Free(p)) : p \in Pools} = Unallocated(unit)
     /\ out = {a \in DOMAIN unit : Checked(a)}
     /\ Counted = Cardinality(out)
------------------------------------------------------------------------------
(* The inductive invariant: who holds which lock, and what pb is while a    *)
(* call is under way.                                                       *)
Types ==
  /\ NextPool \in Nat /\ NAllocated \in [Pools -> Int]
  /\ FreeUnits_lock \in [Pools -> Threads \cup {NoThread}]
  /\ brk \in Nat /\ \A a \in DOMAIN unit : a \in Nat /\ a < brk
  /\ DOMAIN head = Pools /\ held \in [Threads -> SUBSET DOMAIN unit]
  /\ pc \in [Threads -> {"ready", "lock to alloc", "lock to free", "take", "taken", "check", "put"}]
  /\ pool \in [Threads -> Pools] /\ DOMAIN pb = Threads
LocksHeld ==
  \A t \in Threads, p \in Pools :
    FreeUnits_lock[p] = t <=> pc[t] \in {"take", "taken", "put"} /\ pool[t] = p
CallsRight ==
  \A t \in Threads :
    /\ pc[t] = "taken" => pb[t] = head[pool[t]] /\ pb[t] # UnitsTail
    /\ pc[t] \in {"check", "lock to free", "put"} => pb[t] \in DOMAIN unit \ held[t]
IInv == Types /\ LocksHeld /\ CallsRight /\ UnitsSound
==============================================================================
