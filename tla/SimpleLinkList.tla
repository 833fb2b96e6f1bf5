--------------------------- MODULE SimpleLinkList ---------------------------
(* SimpleLinkList of datastruct.h: values in items that the list allocates *)
(* and frees. Elements are the addresses of items; a freed one is reused.  *)
EXTENDS Links

CONSTANT Values

VARIABLES
  link,     \* the fields prev and next
  item,     \* the value of each item
  nitems,   \* per list that was constructed
  alloc,    \* the items allocated
  ret       \* the last call and what it returned

vars == <<link, item, nitems, alloc, ret>>

Exists(l) == nitems[l] # None
Chain(l) == Forward(link, l)
empty(l) == link[HeadOf(l)].next = TailOf(l)

Init ==
  /\ link = [n \in Nodes |-> [prev |-> None, next |-> None]]
  /\ item = [n \in Elements |-> None]
  /\ nitems = [l \in Lists |-> None]
  /\ alloc = {} /\ ret = <<"none">>

Construct(l) ==
  /\ ~Exists(l)
  /\ link' = EmptyEnds(link, {l}) /\ nitems' = [nitems EXCEPT ![l] = 0]
  /\ ret' = <<"create", l>> /\ UNCHANGED <<item, alloc>>
clear(l) ==
  /\ Exists(l)
  /\ link' = EmptyEnds(link, {l}) /\ nitems' = [nitems EXCEPT ![l] = 0]
  /\ alloc' = alloc \ ToSet(Chain(l))
  /\ ret' = <<"clear", l>> /\ UNCHANGED item
Destroy(l) ==
  /\ Exists(l)
  /\ alloc' = alloc \ ToSet(Chain(l)) /\ nitems' = [nitems EXCEPT ![l] = None]
  /\ ret' = <<"destroy", l>> /\ UNCHANGED <<link, item>>

AddItem(l, new, v, linked) ==
  /\ link' = linked /\ item' = [item EXCEPT ![new] = v]
  /\ alloc' = alloc \cup {new} /\ nitems' = [nitems EXCEPT ![l] = @ + 1]
pushTail(l, v) ==
  /\ Exists(l) /\ ret' = <<"pushTail", l, v>>
  /\ \E new \in Elements \ alloc : AddItem(l, new, v, LinkBefore(link, new, TailOf(l)))
pushHead(l, v) ==
  /\ Exists(l) /\ ret' = <<"pushHead", l, v>>
  /\ \E new \in Elements \ alloc : AddItem(l, new, v, LinkAfter(link, new, HeadOf(l)))

FreeItem(l, n) ==
  /\ link' = Unlink(link, n) /\ alloc' = alloc \ {n}
  /\ nitems' = [nitems EXCEPT ![l] = @ - 1] /\ UNCHANGED item
popTail(l) ==
  /\ Exists(l) /\ ~empty(l)
  /\ LET n == link[TailOf(l)].prev IN FreeItem(l, n) /\ ret' = <<"popTail", l, item[n]>>
popHead(l) ==
  /\ Exists(l) /\ ~empty(l)
  /\ LET n == link[HeadOf(l)].next IN FreeItem(l, n) /\ ret' = <<"popHead", l, item[n]>>
remove(l, n) ==
  /\ Exists(l) /\ n \in ToSet(Chain(l))
  /\ FreeItem(l, n) /\ ret' = <<"remove", l, SelectInSeq(Chain(l), LAMBDA x : x = n)>>

Next ==
  \E l \in Lists :
    \/ Construct(l) \/ clear(l) \/ Destroy(l) \/ popTail(l) \/ popHead(l)
    \/ \E v \in Values : pushTail(l, v) \/ pushHead(l, v)
    \/ \E n \in Elements : remove(l, n)
Spec == Init /\ [][Next]_vars

-----------------------------------------------------------------------------
Contents(l) == IF Exists(l) THEN [i \in DOMAIN Chain(l) |-> item[Chain(l)[i]]] ELSE None
Sequences == INSTANCE Deque WITH items <- [l \in Lists |-> Contents(l)]

(* Backwards a list is the mirror of what it is forwards, nitems counts    *)
(* it, and the items allocated are those of the lists, each in one: calls  *)
(* free exactly what they unlink.                                          *)
ItemsAccounted ==
  LET live == {l \in Lists : Exists(l)}
  IN /\ \A l \in live :
          /\ Backward(link, l) = Reverse(Chain(l)) /\ nitems[l] = Len(Chain(l))
          /\ IsInjective(Chain(l))
          /\ \A r \in live \ {l} : ToSet(Chain(l)) \cap ToSet(Chain(r)) = {}
     /\ alloc = UNION {ToSet(Chain(l)) : l \in live}
=============================================================================
