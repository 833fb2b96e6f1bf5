-------------------------- MODULE VariableAllocator --------------------------
(* VariableAllocatorNolock of tmalloc.cpp: size classes that are powers of  *)
(* two, each with a FixedAllocatorNolock that carves units out of regions   *)
(* which may have to be multiples of a page. The object belongs to one      *)
(* thread. An action is a call.                                             *)
EXTENDS FreeUnits

CONSTANTS
  FIRSTPOOL, NPOOLS,   \* VARALLOC_FIRSTPOOL, VARALLOC_NPOOLS
  IntBits,             \* bits of an int
  BatchOf(_),          \* the incgrow that the constructor passes for each pool
  Padding,             \* sizeof(PadBefore) + sizeof(PadAfter)
  PageSizes,           \* of the programs, 0 for none
  Requests             \* the sizes they ask for

\* 26 pools from 2^5 on, in ints of 32 bits.
PoolsRight ==
  /\ NPOOLS \in Nat \ {0} /\ FIRSTPOOL \in Nat /\ Padding \in Nat
  /\ FIRSTPOOL + NPOOLS <= IntBits - 1

VARIABLES
  PageSize,
  IncGrow,      \* per pool
  unit, head,   \* headers; FreeUnitsHead->next per pool
  NAllocated,
  brk,          \* the memory from here on is not handed out yet
  regions,      \* what was: pairs of an address and a size
  home,         \* ghost: the pool each unit was carved for
  ret           \* the last call and what it returned

memory == <<unit, head, brk, regions, home>>
vars == <<PageSize, IncGrow, memory, NAllocated, ret>>

Pools == 0 .. NPOOLS - 1

ceillog2Floor(n) ==
  LET bits[m \in 0 .. n] == IF m = 0 THEN 0 ELSE 1 + bits[m \div 2]
  IN bits[n]
ceillog2(n) ==
  LET bits[m \in 0 .. n] == IF m = 0 THEN 0 ELSE 1 + bits[m \div 2]
  IN IF n = 0 THEN 0 ELSE bits[n - 1]
PoolOf(size) == LET pool == ceillog2(size) - FIRSTPOOL IN IF pool < 0 THEN 0 ELSE pool

(* currsize, an int that is doubled for each pool.                          *)
Doubled(n) == IF 2 * n < 2 ^ (IntBits - 1) THEN 2 * n ELSE 2 * n - 2 ^ IntBits
Size == LET currsize[i \in Pools] == IF i = 0 THEN 2 ^ FIRSTPOOL ELSE Doubled(currsize[i - 1])
        IN currsize
Realsize == [p \in Pools |-> Size[p] + Padding]

(* The constructor of FixedAllocatorNolock: at least a page at a time.      *)
AdjustIncGrow(p, pagesize) ==
  IF pagesize # 0 /\ BatchOf(p) * Realsize[p] < pagesize THEN pagesize \div Realsize[p]
  ELSE BatchOf(p)

Init ==
  /\ PageSize \in PageSizes
  /\ IncGrow = [p \in Pools |-> AdjustIncGrow(p, PageSize)]
  /\ unit = <<>> /\ head = [p \in Pools |-> UnitsTail]
  /\ NAllocated = [p \in Pools |-> 0]
  /\ brk = 1 /\ regions = {} /\ home = <<>>
  /\ ret = <<"none">>

RoundedDown(n) == IF PageSize = 0 THEN n ELSE (n \div PageSize) * PageSize
Rounded(n) == IF PageSize = 0 THEN n ELSE ((n + PageSize - 1) \div PageSize) * PageSize

(* FixedAllocatorNolock::alloc, with the units m of which first is free.    *)
Takes(p, m, first, reqsize) ==
  /\ unit' = Taken(m, first, reqsize) /\ head' = [head EXCEPT ![p] = m[first].next]
  /\ NAllocated' = [NAllocated EXCEPT ![p] = @ + 1]
  /\ ret' = <<"alloc", reqsize, first>>

(* and its call of grow, when no unit is free.                              *)
Grows(p, reqsize) ==
  LET allocsize == Rounded(Realsize[p] * IncGrow[p])
      new == Carved(brk, IncGrow[p], Realsize[p])
  IN /\ brk + allocsize <= Memory
     /\ brk' = brk + allocsize /\ regions' = regions \cup {<<brk, allocsize>>}
     /\ home' = [a \in DOMAIN home \cup new |-> IF a \in new THEN p ELSE home[a]]
     /\ Takes(p, grow(unit, UnitsTail, brk, IncGrow[p], Realsize[p]), brk, reqsize)

Refuses(reqsize) == ret' = <<"alloc", reqsize, 0>> /\ UNCHANGED <<memory, NAllocated>>

alloc(reqsize) ==
  LET p == PoolOf(reqsize)
  IN /\ UNCHANGED <<PageSize, IncGrow>>
     /\ \/ p \notin Pools /\ Refuses(reqsize)
        \/ p \in Pools /\ reqsize > Size[p] /\ Refuses(reqsize)
        \/ /\ p \in Pools /\ reqsize <= Size[p] /\ head[p] # UnitsTail
           /\ Takes(p, unit, head[p], reqsize) /\ UNCHANGED <<brk, regions, home>>
        \/ /\ p \in Pools /\ reqsize <= Size[p] /\ head[p] = UnitsTail
           /\ Grows(p, reqsize)

(* The header says in which pool the unit goes.                             *)
free(a) ==
  LET p == PoolOf(unit[a].allocated)
  IN /\ unit' = Returned(unit, a, head[p]) /\ head' = [head EXCEPT ![p] = a]
     /\ NAllocated' = [NAllocated EXCEPT ![p] = @ - 1]
     /\ ret' = <<"free">>
     /\ UNCHANGED <<PageSize, IncGrow, brk, regions, home>>

(* setSize asserts that the size does not grow.                             *)
setSize(a, newsize) ==
  /\ newsize <= unit[a].allocated
  /\ unit' = [unit EXCEPT ![a].allocated = newsize] /\ ret' = <<"setSize">>
  /\ UNCHANGED <<PageSize, IncGrow, head, brk, regions, home, NAllocated>>

Allocated == DOMAIN unit \ Unallocated(unit)

(* The header says to which pool a unit goes back, so a size of a smaller   *)
(* class would lead it astray. Nothing calls setSize (the call in _trealloc *)
(* is commented out); the programs here stay within the class.              *)
KeepsClass(a, newsize) == PoolOf(newsize) = PoolOf(unit[a].allocated)

Next ==
  \/ \E size \in Requests : alloc(size)
  \/ \E a \in Allocated :
       free(a) \/ \E size \in Requests : KeepsClass(a, size) /\ setSize(a, size)
Spec == Init /\ [][Next]_vars
------------------------------------------------------------------------------
(* Every unit that is not allocated is in the free list of the pool it was  *)
(* carved for, and in no other, and the pools count the others: what a      *)
(* program gets is long enough and nobody else has it.                      *)
UnitsAccounted ==
  \A p \in Pools :
    LET free_ == FreeList(unit, head[p])
    IN /\ IsInjective(free_)
       /\ Range(free_) = {a \in Unallocated(unit) : home[a] = p}
       /\ NAllocated[p] = Cardinality({a \in Allocated : home[a] = p})

(* The units, with their padding, lie in what the system gave and do not    *)
(* overlap, whatever the page size and the batch.                           *)
UnitsApart ==
  LET end(a) == a + Realsize[home[a]]
  IN \A a \in DOMAIN unit :
       /\ \E r \in regions : r[1] <= a /\ end(a) <= r[1] + r[2]
       /\ \A b \in DOMAIN unit : a < b => end(a) <= b

(* The inductive invariant: the regions end where the memory that is not    *)
(* handed out yet begins.                                                   *)
Types ==
  /\ PageSize \in Nat /\ IncGrow \in [Pools -> Nat \ {0}] /\ brk \in Nat
  /\ DOMAIN unit = DOMAIN home /\ DOMAIN unit \subseteq Nat
  /\ \A a \in DOMAIN home : home[a] \in Pools
Below == \A r \in regions : r[1] \in Nat /\ r[2] \in Nat /\ r[1] + r[2] <= brk
IInv == Types /\ Below /\ UnitsApart

(* A request is met from the smallest class that holds it, whose count goes *)
(* up; it is refused only when none does, and then with 0 before memory is  *)
(* taken or a list or count changed.                                        *)
SmallestClassStep ==
  ret'[1] = "alloc" =>
    LET size == ret'[2]  a == ret'[3]  fits == {p \in Pools : size <= Size[p]}
    IN IF fits = {} THEN a = 0 /\ UNCHANGED <<memory, NAllocated>>
       ELSE /\ a # 0 /\ home'[a] = Min(fits)
            /\ NAllocated' = [NAllocated EXCEPT ![Min(fits)] = @ + 1]
==============================================================================
