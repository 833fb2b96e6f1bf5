----------------------------- MODULE StackArray -----------------------------
(* StackArray of datastruct.h: a stack in an array that is replaced by a   *)
(* larger one when it is full.                                             *)
EXTENDS Integers, SequencesExt

CONSTANTS
  Values, None,
  InitSize,           \* initarraysize
  Num, Den,           \* growarrayfactor is Num / Den
  MaxItems            \* bound on the items pushed

VARIABLES
  array,       \* ElementArray: CurrArraySize slots
  CurrItem,
  destroyed,   \* ghost: items of the stack whose destructor has run
  ret          \* the last call and what it returned

vars == <<array, CurrItem, destroyed, ret>>

CurrArraySize == Len(array)
Items == SubSeq(array, 1, CurrItem)

NewSize(size) == (size * Num) \div Den    \* (int) truncates
Full(items, size) == items >= size

Init ==
  /\ array = [i \in 1 .. InitSize |-> None]
  /\ CurrItem = 0 /\ destroyed = {} /\ ret = <<"create", 0>>

(* The items are copied as bytes, then the objects they were are destroyed *)
(* with the old array.                                                     *)
grownEmpty(size) == [i \in 1 .. size |-> None]
grown(size) == [i \in 1 .. size |-> IF i <= CurrItem THEN array[i] ELSE None]

push(v) ==
  LET grows == Full(CurrItem, CurrArraySize)
      size == IF grows THEN NewSize(CurrArraySize) ELSE CurrArraySize
  IN /\ CurrItem < MaxItems
     /\ CurrItem < size   \* asserted
     /\ array' = [grown(size) EXCEPT ![CurrItem + 1] = v]
     /\ destroyed' = IF grows THEN 1 .. CurrItem ELSE destroyed
     /\ CurrItem' = CurrItem + 1
     /\ ret' = <<"pushTail", 0, v>>

pop ==
  /\ CurrItem >= 1
  /\ CurrItem' = CurrItem - 1 /\ destroyed' = destroyed \ {CurrItem}
  /\ ret' = <<"popTail", 0, array[CurrItem]>> /\ UNCHANGED array

Next == pop \/ \E v \in Values : push(v)
Spec == Init /\ [][Next]_vars

-----------------------------------------------------------------------------
Sequences == INSTANCE Deque WITH Lists <- {0}, items <- [l \in {0} |-> Items]

(* A full array is replaced by a larger one: the assert of push holds.     *)
GrowsWhenFull == Full(CurrItem, CurrArraySize) => NewSize(CurrArraySize) > CurrItem
=============================================================================
