--------------------------- MODULE OrderedMultimap ---------------------------
(* What the skip lists of datastruct.h promise: a sequence of items sorted *)
(* by key, in which an item goes behind those with an equal key, and calls *)
(* that find, replace or remove the first of several equal ones.           *)
EXTENDS Integers, SequencesExt

CONSTANTS Lists, Keys, Values, None

VARIABLES
  items,   \* per list that exists its items, None for one that does not
  ret      \* the last call and what it returned

vars == <<items, ret>>

Item(k, v) == [key |-> k, value |-> v]
Find(s, k) == SelectInSeq(s, LAMBDA x : x.key = k)
Put(s, k, v) ==
  SelectSeq(s, LAMBDA x : x.key <= k) \o <<Item(k, v)>> \o SelectSeq(s, LAMBDA x : x.key > k)

\* The keys of an interval, each end open (0), closed (1) or infinite (2).
Inside(x, k1, t1, k2, t2) ==
  /\ t1 = 2 \/ k1 < x \/ (t1 = 1 /\ k1 = x)
  /\ t2 = 2 \/ x < k2 \/ (t2 = 1 /\ k2 = x)
FirstInside(s, k1, t1, k2, t2) ==
  SelectInSeq(s, LAMBDA x : Inside(x.key, k1, t1, k2, t2))

Becomes(l, s) == items' = [items EXCEPT ![l] = s]

Init == items = [l \in Lists |-> None] /\ ret = <<"none">>

Create(l) == ret' = <<"create", l>> /\ items[l] = None /\ Becomes(l, <<>>)
Destroy(l) == ret' = <<"destroy", l>> /\ items[l] # None /\ Becomes(l, None)
Copy(l, r) == ret' = <<"copy", l, r>> /\ items[r] # None /\ Becomes(l, items[r])
Clear(l) == ret' = <<"clear", l>> /\ items[l] # None /\ Becomes(l, <<>>)
Insert(l, k, v) == ret' = <<"insert", l, k, v>> /\ items[l] # None /\ Becomes(l, Put(items[l], k, v))

\* An item found is left alone, and its value returned.
LookupInsert(l, k, v) ==
  /\ items[l] # None
  /\ LET s == items[l]
         i == Find(s, k)
     IN \/ i = 0 /\ ret' = <<"lookupInsert", l, k, 1, v>> /\ Becomes(l, Put(s, k, v))
        \/ i # 0 /\ ret' = <<"lookupInsert", l, k, 0, s[i].value>> /\ UNCHANGED items

InsertOrReplace(l, k, v) ==
  /\ items[l] # None
  /\ LET s == items[l]
         i == Find(s, k)
     IN \/ i = 0 /\ ret' = <<"insertOrReplace", l, k, v, 1>> /\ Becomes(l, Put(s, k, v))
        \/ i # 0 /\ ret' = <<"insertOrReplace", l, k, v, 0>> /\ Becomes(l, [s EXCEPT ![i] = Item(k, v)])

LookupRemove(l, k) ==
  /\ items[l] # None
  /\ LET s == items[l]
         i == Find(s, k)
     IN \/ i = 0 /\ ret' = <<"lookupRemove", l, k, -1>> /\ UNCHANGED items
        \/ i # 0 /\ ret' = <<"lookupRemove", l, k, 0, s[i].value>> /\ Becomes(l, RemoveAt(s, i))

DelRange(l, k1, t1, k2, t2) ==
  /\ SubSeq(ret', 1, 6) = <<"delRange", l, k1, t1, k2, t2>> /\ items[l] # None
  /\ LET s == items[l]
         kept == SelectSeq(s, LAMBDA x : ~Inside(x.key, k1, t1, k2, t2))
     IN ret'[7] = Len(s) - Len(kept) /\ Len(ret') = 7 /\ Becomes(l, kept)

Next ==
  \E l \in Lists :
    \/ /\ ret'[1] = "delRange"
       /\ \E k1, k2 \in Keys, t1, t2 \in 0 .. 2 : DelRange(l, k1, t1, k2, t2)
    \/ Create(l) \/ Destroy(l) \/ Clear(l)
    \/ \E r \in Lists : Copy(l, r)
    \/ \E k \in Keys : LookupRemove(l, k)
    \/ \E k \in Keys, v \in Values :
         Insert(l, k, v) \/ LookupInsert(l, k, v) \/ InsertOrReplace(l, k, v)

Spec == Init /\ [][Next]_vars
==============================================================================
