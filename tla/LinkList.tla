------------------------------ MODULE LinkList ------------------------------
(* LinkList of datastruct.h: the program's own elements, which have fields *)
(* next and prev and belong to the list while they are in it.              *)
EXTENDS Links

VARIABLES
  link,    \* the fields prev and next
  list,    \* per list that was constructed: ToClean and nitems
  alloc,   \* the elements allocated
  ret      \* the last call and what it returned

vars == <<link, list, alloc, ret>>

Exists(l) == list[l] # None
Chain(l) == Forward(link, l)
InList(x) == \E l \in Lists : Exists(l) /\ x \in ToSet(Chain(l))
Mine(x) == x \in alloc /\ ~InList(x)   \* the program's to add or to free

Init ==
  /\ link = [n \in Nodes |-> [prev |-> None, next |-> None]]
  /\ list = [l \in Lists |-> None]
  /\ alloc = {} /\ ret = <<"none">>

New(x) == x \notin alloc /\ alloc' = alloc \cup {x} /\ UNCHANGED <<link, list, ret>>
Delete(x) == Mine(x) /\ alloc' = alloc \ {x} /\ UNCHANGED <<link, list, ret>>

Construct(l, toclean) ==
  /\ ~Exists(l)
  /\ link' = EmptyEnds(link, {l})
  /\ list' = [list EXCEPT ![l] = [ToClean |-> toclean, nitems |-> 0]]
  /\ ret' = <<"create", l>> /\ UNCHANGED alloc

(* Without ToClean the elements are the program's again.                   *)
Destroy(l) ==
  /\ Exists(l)
  /\ alloc' = IF list[l].ToClean THEN alloc \ ToSet(Chain(l)) ELSE alloc
  /\ list' = [list EXCEPT ![l] = None]
  /\ ret' = <<"destroy", l>> /\ UNCHANGED link

clear(l, del) ==
  /\ Exists(l)
  /\ link' = EmptyEnds(link, {l})
  /\ list' = [list EXCEPT ![l].nitems = 0]
  /\ alloc' = IF del THEN alloc \ ToSet(Chain(l)) ELSE alloc
  /\ ret' = <<"clear", l>>

Add(l, linked) ==
  /\ link' = linked
  /\ list' = [list EXCEPT ![l].nitems = @ + 1]
  /\ UNCHANGED alloc
TakeOut(l, x) ==
  /\ link' = Unlink(link, x)
  /\ list' = [list EXCEPT ![l].nitems = @ - 1]
  /\ UNCHANGED alloc

(* Next to an element of the list or to one of its ends.                   *)
Place(l, w) == IF w = TailOf(l) THEN Len(Chain(l)) + 1 ELSE SelectInSeq(Chain(l), LAMBDA n : n = w)
addBefore(l, x, w) ==
  /\ Exists(l) /\ Mine(x) /\ w \in ToSet(Chain(l)) \cup {TailOf(l)}
  /\ Add(l, LinkBefore(link, x, w))
  /\ ret' = <<"add", l, Place(l, w), x>>
addAfter(l, x, w) ==
  /\ Exists(l) /\ Mine(x) /\ w \in ToSet(Chain(l)) \cup {HeadOf(l)}
  /\ Add(l, LinkAfter(link, x, w))
  /\ ret' = <<"add", l, Place(l, w) + 1, x>>
pushTail(l, x) ==
  Exists(l) /\ Mine(x) /\ Add(l, LinkBefore(link, x, TailOf(l))) /\ ret' = <<"pushTail", l, x>>
pushHead(l, x) ==
  Exists(l) /\ Mine(x) /\ Add(l, LinkAfter(link, x, HeadOf(l))) /\ ret' = <<"pushHead", l, x>>

remove(l, x) ==
  /\ Exists(l) /\ x \in ToSet(Chain(l))
  /\ TakeOut(l, x)
  /\ ret' = <<"remove", l, Place(l, x)>>
empty(l) == link[HeadOf(l)].next = TailOf(l)
popTail(l) ==
  /\ Exists(l) /\ ~empty(l)
  /\ TakeOut(l, link[TailOf(l)].prev)
  /\ ret' = <<"popTail", l, link[TailOf(l)].prev>>
popHead(l) ==
  /\ Exists(l) /\ ~empty(l)
  /\ TakeOut(l, link[HeadOf(l)].next)
  /\ ret' = <<"popHead", l, link[HeadOf(l)].next>>

Next ==
  \/ \E x \in Elements : New(x) \/ Delete(x)
  \/ \E l \in Lists :
       \/ Destroy(l) \/ popTail(l) \/ popHead(l)
       \/ \E b \in BOOLEAN : Construct(l, b) \/ clear(l, b)
       \/ \E x \in Elements : pushTail(l, x) \/ pushHead(l, x) \/ remove(l, x)
       \/ \E x \in Elements, w \in Elements \cup Ends(l) : addBefore(l, x, w) \/ addAfter(l, x, w)
Spec == Init /\ [][Next]_vars

-----------------------------------------------------------------------------
Sequences == INSTANCE Deque WITH
  Values <- Elements, items <- [l \in Lists |-> IF Exists(l) THEN Chain(l) ELSE None]

(* Backwards a list is the mirror of what it is forwards, nitems counts    *)
(* it, its elements are allocated and in no other list, and it ends.       *)
ChainsMirrored ==
  \A l \in Lists : Exists(l) =>
    /\ Backward(link, l) = Reverse(Chain(l))
    /\ list[l].nitems = Len(Chain(l))
    /\ ToSet(Chain(l)) \subseteq alloc
    /\ \A r \in Lists \ {l} : Exists(r) => ToSet(Chain(l)) \cap ToSet(Chain(r)) = {}
    /\ list[l].ToClean \in BOOLEAN /\ link[HeadOf(l)].prev = None /\ link[TailOf(l)].next = None
=============================================================================
