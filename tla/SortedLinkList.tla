--------------------------- MODULE SortedLinkList ---------------------------
(* SortedLinkList and SortedLinkListBK of datastruct.h: elements in the    *)
(* order of their keys, an element before the older ones with its key.     *)
EXTENDS Links

CONSTANTS
  Keys,
  Key(_)   \* GetKey: of an element

VARIABLES
  link,    \* the fields sprev and snext
  made,    \* the lists that were constructed
  ret      \* the last call and what it returned

vars == <<link, made, ret>>

Chain(l) == Forward(link, l)
Mine(x) == \A l \in made : x \notin ToSet(Chain(l))
empty(l) == link[HeadOf(l)].next = TailOf(l)

StopsBehind(x, k) == Key(x) > k
Stops(x, k) == Key(x) >= k

(* The first element with a key at least k; with exact, if its key is k.   *)
lookup(l, k, exact) ==
  LET i == SelectInSeq(Chain(l), LAMBDA x : Stops(x, k))
  IN IF i = 0 \/ (exact /\ Key(Chain(l)[i]) # k) THEN None ELSE Chain(l)[i]
lookupBK(l, k, exact) == lookup(l, k, exact)   \* the same code, keys by pointer

Init ==
  /\ link = [n \in Nodes |-> [prev |-> None, next |-> None]]
  /\ made = {} /\ ret = <<"none">>

Construct(l) ==
  /\ l \notin made
  /\ link' = EmptyEnds(link, {l}) /\ made' = made \cup {l}
  /\ ret' = <<"create", l>>
(* The elements are left alone.                                            *)
Destroy(l) == l \in made /\ made' = made \ {l} /\ ret' = <<"destroy", l>> /\ UNCHANGED link

(* ret names the place it must go to.                                      *)
insert(l, x) ==
  LET w == lookup(l, Key(x), FALSE)
      smaller == {i \in DOMAIN Chain(l) : Key(Chain(l)[i]) < Key(x)}
  IN /\ l \in made /\ Mine(x)
     /\ link' = LinkBefore(link, x, IF w = None THEN TailOf(l) ELSE w)
     /\ ret' = <<"add", l, Cardinality(smaller) + 1, x>> /\ UNCHANGED made

remove(l, x) ==
  /\ l \in made /\ x \in ToSet(Chain(l))
  /\ link' = Unlink(link, x)
  /\ ret' = <<"remove", l, SelectInSeq(Chain(l), LAMBDA y : y = x)>> /\ UNCHANGED made
popTail(l) ==
  /\ l \in made /\ ~empty(l)
  /\ link' = Unlink(link, link[TailOf(l)].prev)
  /\ ret' = <<"popTail", l, link[TailOf(l)].prev>> /\ UNCHANGED made
popHead(l) ==
  /\ l \in made /\ ~empty(l)
  /\ link' = Unlink(link, link[HeadOf(l)].next)
  /\ ret' = <<"popHead", l, link[HeadOf(l)].next>> /\ UNCHANGED made

Next ==
  \E l \in Lists :
    \/ Construct(l) \/ Destroy(l) \/ popTail(l) \/ popHead(l)
    \/ \E x \in Elements : insert(l, x) \/ remove(l, x)
Spec == Init /\ [][Next]_vars

-----------------------------------------------------------------------------
Sequences == INSTANCE Deque WITH
  Values <- Elements, items <- [l \in Lists |-> IF l \in made THEN Chain(l) ELSE None]

(* A list is sorted, the same in both directions, and lookup finds the     *)
(* first element of a key, or of the next larger one.                      *)
SortedBothWays ==
  \A l \in made :
    LET s == Chain(l)
    IN /\ \A i, j \in DOMAIN s : i < j => Key(s[i]) <= Key(s[j])
       /\ Backward(link, l) = Reverse(s)
       /\ \A k \in Keys :
            LET equal == {i \in DOMAIN s : Key(s[i]) = k}
                above == {i \in DOMAIN s : Key(s[i]) >= k}
            IN /\ lookup(l, k, TRUE) = IF equal = {} THEN None ELSE s[Min(equal)]
               /\ lookup(l, k, FALSE) = IF above = {} THEN None ELSE s[Min(above)]
=============================================================================
