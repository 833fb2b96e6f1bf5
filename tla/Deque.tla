------------------------------- MODULE Deque -------------------------------
(* What the lists of datastruct.h promise: sequences that are changed at   *)
(* their ends, and inside by a caller who holds a pointer.                 *)
EXTENDS Integers, SequencesExt

CONSTANTS Lists, Values, None

VARIABLES
  items,   \* per list that exists its values, None for one that does not
  ret      \* the last call and what it returned

vars == <<items, ret>>

Becomes(l, s) == items' = [items EXCEPT ![l] = s]
Exists(l) == items[l] # None

Init == items = [l \in Lists |-> None] /\ ret = <<"none">>

Create(l) == ret' = <<"create", l>> /\ ~Exists(l) /\ Becomes(l, <<>>)
Destroy(l) == ret' = <<"destroy", l>> /\ Exists(l) /\ Becomes(l, None)
Clear(l) == ret' = <<"clear", l>> /\ Exists(l) /\ Becomes(l, <<>>)
PushHead(l, x) == ret' = <<"pushHead", l, x>> /\ Exists(l) /\ Becomes(l, <<x>> \o items[l])
PushTail(l, x) == ret' = <<"pushTail", l, x>> /\ Exists(l) /\ Becomes(l, Append(items[l], x))
Pops(l, i, call) ==
  ret' = <<call, l, items[l][i]>> /\ Becomes(l, RemoveAt(items[l], i))
PopHead(l) == ret'[1] = "popHead" /\ Exists(l) /\ items[l] # <<>> /\ Pops(l, 1, "popHead")
PopTail(l) ==
  ret'[1] = "popTail" /\ Exists(l) /\ items[l] # <<>> /\ Pops(l, Len(items[l]), "popTail")
InsertAtPlace(l, i, x) ==
  ret' = <<"add", l, i, x>> /\ Becomes(l, InsertAt(items[l], i, x))
TakeOut(l, i) == ret' = <<"remove", l, i>> /\ Becomes(l, RemoveAt(items[l], i))

Next ==
  \E l \in Lists :
    \/ Create(l) \/ Destroy(l) \/ Clear(l) \/ PopHead(l) \/ PopTail(l)
    \/ \E x \in Values : PushHead(l, x) \/ PushTail(l, x)
    \/ /\ ret'[1] \in {"add", "remove"} /\ Exists(l)
       /\ \/ \E i \in 1 .. Len(items[l]) + 1, x \in Values : InsertAtPlace(l, i, x)
          \/ \E i \in 1 .. Len(items[l]) : TakeOut(l, i)

Spec == Init /\ [][Next]_vars
=============================================================================
