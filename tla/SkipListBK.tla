----------------------------- MODULE SkipListBK -----------------------------
(* SkipListBK of datastruct.h: SkipList over pointers to keys. A key is an *)
(* object that the program allocates and hands to a list, which owns it    *)
(* from then on; several keys have the same rank. What differs from        *)
(* SkipList is who owns which key after a call.                            *)
EXTENDS SkipList

VARIABLES
  keys,   \* the keys allocated
  held    \* those that the program owns

varsBK == <<vars, keys, held>>

KeysIn(l) == IF Exists(l) THEN {mem[n].key : n \in ToSet(Chain(l, 0))} ELSE {}
FirstEqual(l, k) == mem[Prevs(l, LAMBDA x : Rank(x) < Rank(k))[0]].next[0]

(* A callback delkey frees the keys of the nodes a call removes; a null    *)
(* one leaves them allocated.                                              *)
DeletesNothing(S, delkey) == UNCHANGED keys
Deletes(S, delkey) == keys' = IF delkey THEN keys \ S ELSE keys
HandsOver(k) == held' = held \ {k}

InitBK == Init /\ keys = {} /\ held = {}

-----------------------------------------------------------------------------
(* The program.                                                            *)
NewKey(k) ==
  /\ k \notin keys
  /\ keys' = keys \cup {k} /\ held' = held \cup {k} /\ UNCHANGED vars
FreeKey(k) ==
  /\ k \in held
  /\ keys' = keys \ {k} /\ held' = held \ {k} /\ UNCHANGED vars

(* The calls.                                                              *)
ConstructBK(l) == Construct(l) /\ UNCHANGED <<keys, held>>
DestroyBK(l) == Destroy(l) /\ UNCHANGED <<keys, held>>
clearBK(l, delkey) == clear(l) /\ Deletes(KeysIn(l), delkey) /\ UNCHANGED held

lookupInsertBK(l, k) ==
  /\ k \in held
  /\ lookupInsert(l, k)
  /\ IF ret'[4] = 1 THEN HandsOver(k) ELSE UNCHANGED held
  /\ UNCHANGED keys

insertBK(l, k, v) == k \in held /\ insert(l, k, v) /\ HandsOver(k) /\ UNCHANGED keys

(* The old key is deleted before the new one takes its place.              *)
insertOrReplaceBK(l, k, v, delkey) ==
  /\ k \in held
  /\ insertOrReplace(l, k, v)
  /\ LET n == FirstEqual(l, k)
     IN Deletes(IF Found(l, n, k) THEN {mem[n].key} ELSE {}, delkey)
  /\ HandsOver(k)

lookupRemoveBK(l, k, delkey) ==
  /\ lookupRemove(l, k)
  /\ LET n == FirstEqual(l, k)
     IN Deletes(IF Found(l, n, k) THEN {mem[n].key} ELSE {}, delkey)
  /\ UNCHANGED held

delRangeBK(l, k1, t1, k2, t2, delkey) ==
  /\ delRange(l, k1, t1, k2, t2)
  /\ Deletes(KeysIn(l) \ KeysIn(l)', delkey)
  /\ UNCHANGED held

(* The copies of the keys of the nodes s: new objects.                     *)
copyKeysShared(s, free) == [j \in DOMAIN s |-> mem[s[j]].key]
copyKeys(s, free) ==
  LET Same(j) == {i \in 1 .. j : Rank(mem[s[i]].key) = Rank(mem[s[j]].key)}
      pool(x) == SetToSeq({k \in free : Rank(k) = x})
  IN [j \in DOMAIN s |-> pool(Rank(mem[s[j]].key))[Cardinality(Same(j))]]
CanCopy(s, free) ==
  \A k \in Probes : Cardinality({k1 \in free : Rank(k1) = Rank(k)}) >=
                    Cardinality({j \in DOMAIN s : Rank(mem[s[j]].key) = Rank(k)})

(* The private copy, of s into the memory m, with keys allocated.          *)
copyBK(l, r, m, s, allocated) ==
  LET new == copyKeys(s, Keys \ allocated)
      c == copyNodes(m, r, s, new)
  IN /\ CanCopy(s, Keys \ allocated)
     /\ Cardinality(Addresses \ DOMAIN m) >= Len(s) + 2
     /\ mem' = c.m
     /\ keys' = allocated \cup ToSet(new)
     /\ list' = [list EXCEPT ![l] = [list[r] EXCEPT !.head = c.head, !.tail = c.tail]]
     /\ ret' = <<"copy", l, r>> /\ UNCHANGED held

CopyConstructBK(l, r) ==
  /\ ~Exists(l) /\ Exists(r)
  /\ copyBK(l, r, mem, Chain(r, 0), keys)
  /\ UNCHANGED lost

(* The public copy clears the list first, but keeps its head and tail. Not *)
(* of a list to itself, which reads a head not yet written.                *)
ClearAndCopyBK(l, r, delkey) ==
  /\ Exists(l) /\ Exists(r) /\ l # r
  /\ copyBK(l, r, freeNodes(mem, ToSet(Chain(l, 0))), Chain(r, 0),
            IF delkey THEN keys \ KeysIn(l) ELSE keys)
  /\ lost' = lost \cup {list[l].head, list[l].tail}

-----------------------------------------------------------------------------
Program == \E k \in Keys : NewKey(k) \/ FreeKey(k)

CallsBK(l, delkey) ==
  \/ ConstructBK(l) \/ clearBK(l, delkey)
  \/ \E r \in Lists : CopyConstructBK(l, r) \/ ClearAndCopyBK(l, r, delkey)
  \/ \E k \in Probes : lookupRemoveBK(l, k, delkey)
  \/ \E k \in Keys : lookupInsertBK(l, k)
  \/ \E k \in Keys, v \in Values : insertBK(l, k, v) \/ insertOrReplaceBK(l, k, v, delkey)
  \/ \E a, b \in Ends : delRangeBK(l, a[1], a[2], b[1], b[2], delkey)

NextBK ==
  \/ Program
  \/ \E l \in Lists, delkey \in BOOLEAN : CallsBK(l, delkey)
  \/ \E l \in Lists : DestroyBK(l)
SpecBK == InitBK /\ [][NextBK]_varsBK

(* A program that always passes delkey and clears a list before it         *)
(* destroys it: the destructor deletes no key.                             *)
ClearingNext ==
  Program \/ \E l \in Lists : CallsBK(l, TRUE) \/ (KeysIn(l) = {} /\ DestroyBK(l))
ClearingSpec == InitBK /\ [][ClearingNext]_varsBK

-----------------------------------------------------------------------------
(* The keys of the nodes are allocated, not the program's any more, and no *)
(* two nodes of any lists share one.                                       *)
KeysOwnedOnce ==
  LET live == {l \in Lists : Exists(l)}
  IN /\ \A l \in live : KeysIn(l) \subseteq keys \ held
     /\ \A l \in live : Cardinality(KeysIn(l)) = Len(Chain(l, 0))
     /\ \A l, r \in live : l # r => KeysIn(l) \cap KeysIn(r) = {}
     /\ held \subseteq keys

(* Every key allocated is in a list or with the program.                   *)
NoKeyLost == keys = held \cup UNION {KeysIn(l) : l \in Lists}
=============================================================================
