------------------------------ MODULE FreeUnits ------------------------------
(* The units of the fixed-size allocators of tmalloc.cpp: their headers     *)
(* (struct PadBefore), which link those that are free, and the regions they *)
(* are carved from. An address is an integer; memory is handed out from     *)
(* below, and the program ends at Memory (assert(buf)).                     *)
EXTENDS Integers, FiniteSetsExt, SequencesExt

CONSTANTS
  Memory,
  UnitsTail, \* FreeUnitsTail
  Unused     \* (u64) -1: no size

\* addPadding, but for the magic words.
addPadding(next) == [next |-> next, allocated |-> Unused]

Carved(buf, inc, realsize) == {buf + i * realsize : i \in 0 .. inc - 1}

(* The inc units at buf are linked, in order, before those that were free   *)
(* (none, or grow would not have been called).                              *)
grow(unit, first, buf, inc, realsize) ==
  [a \in DOMAIN unit \cup Carved(buf, inc, realsize) |->
     IF a \in DOMAIN unit THEN unit[a]
     ELSE addPadding(IF a = buf + (inc - 1) * realsize THEN first ELSE a + realsize)]

\* alloc takes the first free unit, free puts one before it.
Taken(unit, a, reqsize) == [unit EXCEPT ![a] = [next |-> 0, allocated |-> reqsize]]
Returned(unit, a, first) == [unit EXCEPT ![a] = [next |-> first, allocated |-> Unused]]

\* The units linked from first on.
Unallocated(unit) == {a \in DOMAIN unit : unit[a].allocated = Unused}
FreeList(unit, first) ==
  LET from[a \in Unallocated(unit) \cup {UnitsTail}] ==
        IF a = UnitsTail THEN <<>> ELSE <<a>> \o from[unit[a].next]
  IN from[first]
==============================================================================
