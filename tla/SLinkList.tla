----------------------------- MODULE SLinkList -----------------------------
(* SLinkList of datastruct.h: singly linked, without dummy nodes; both     *)
(* ends are null in an empty list.                                         *)
EXTENDS Chains, FiniteSets

CONSTANTS Lists, Elements, None

VARIABLES
  next,   \* the field next of each element
  list,   \* per list Head, Tail and nitems
  ret     \* the last call and what it returned

vars == <<next, list, ret>>

Chain(l) == Walk(next, list[l].Head, None, Cardinality(Elements))
Mine(x) == \A l \in Lists : x \notin ToSet(Chain(l))

Init ==
  /\ next = [x \in Elements |-> None]
  /\ list = [l \in Lists |-> [Head |-> None, Tail |-> None, nitems |-> 0]]
  /\ ret = <<"none">>

TailKept(tail, head) == tail
TailAfterPop(tail, head) == IF head = None THEN None ELSE tail

pushTail(l, x) ==
  LET t == list[l].Tail
      linked == IF t = None THEN next ELSE [next EXCEPT ![t] = x]
  IN /\ Mine(x)
     /\ next' = [linked EXCEPT ![x] = None]
     /\ list' = [list EXCEPT ![l] = [Head |-> IF @.Head = None THEN x ELSE @.Head,
                                     Tail |-> x, nitems |-> @.nitems + 1]]
     /\ ret' = <<"pushTail", l, x>>

pushHead(l, x) ==
  /\ Mine(x)
  /\ next' = [next EXCEPT ![x] = list[l].Head]
  /\ list' = [list EXCEPT ![l] = [Head |-> x, Tail |-> IF @.Tail = None THEN x ELSE @.Tail,
                                  nitems |-> @.nitems + 1]]
  /\ ret' = <<"pushHead", l, x>>

popHead(l) ==
  /\ list[l].Head # None
  /\ LET h == next[list[l].Head]
     IN list' = [list EXCEPT ![l] = [Head |-> h, Tail |-> TailAfterPop(@.Tail, h),
                                     nitems |-> @.nitems - 1]]
  /\ ret' = <<"popHead", l, list[l].Head>> /\ UNCHANGED next

Next ==
  \E l \in Lists : popHead(l) \/ \E x \in Elements : pushTail(l, x) \/ pushHead(l, x)
Spec == Init /\ [][Next]_vars

-----------------------------------------------------------------------------
Sequences == INSTANCE Deque WITH
  Values <- Elements, items <- [l \in Lists |-> Chain(l)]

(* Tail is the last element of the chain from Head, null with it; nitems   *)
(* counts the chain; the chain ends.                                       *)
TailIsLast ==
  \A l \in Lists :
    LET s == Chain(l)
    IN /\ list[l].Tail = IF s = <<>> THEN None ELSE s[Len(s)]
       /\ list[l].nitems = Len(s)
=============================================================================
