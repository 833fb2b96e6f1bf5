-------------------------------- MODULE Set --------------------------------
(* Set of datastruct.h, a SkipList from an item to a dummy value, with the *)
(* integers of struct Int as items.                                        *)
EXTENDS Integers, FiniteSetsExt, SequencesExt

CONSTANTS
  Lists, Keys, Values, Addresses, MaxHeight, None,   \* of SkipList
  ByteBits, Bytes                                    \* an int is Bytes bytes of ByteBits bits
VARIABLES mem, list, ret, lost                       \* of SkipList

\* Int::cmp is memcmp: the bytes in memory, the least significant first.
IntRank(v) ==
  LET byte(i) == (v \div 2 ^ (ByteBits * i)) % 2 ^ ByteBits
  IN FoldLeft(LAMBDA r, i : r * 2 ^ ByteBits + byte(i - 1), 0, [i \in 1 .. Bytes |-> i])

INSTANCE SkipList WITH Rank <- IntRank

Items(l) == {mem[n].key : n \in ToSet(Chain(l, 0))}

(* insert answers whether the item was found before, and writes the dummy. *)
SetInsert(l, k) == lookupInsert(l, k)
InsertedRaw(res) == res
Inserted(res) == IF res = 0 THEN 1 ELSE 0
SetRemove(l, k) == lookupRemove(l, k)
SetBelongs(l, k) == Exists(l) /\ Finds(<<"belongs", l, IntRank(k), belongs(l, k)>>)

(* Copies are those of SkipList.                                           *)
SetNext ==
  \E l \in Lists :
    \/ Construct(l) \/ Destroy(l)
    \/ \E k \in Keys : SetInsert(l, k) \/ SetRemove(l, k) \/ SetBelongs(l, k)
SetSpec == Init /\ [][SetNext]_vars

-----------------------------------------------------------------------------
SetCall(l, k) ==
  \/ /\ ret'[1] = "lookupInsert" /\ Inserted(ret'[4]) = (IF k \in Items(l) THEN 1 ELSE 0)
     /\ Items(l)' = Items(l) \cup {k}
  \/ /\ ret'[1] = "lookupRemove" /\ ret'[4] = (IF k \in Items(l) THEN 0 ELSE -1)
     /\ Items(l)' = Items(l) \ {k}
  \/ /\ ret'[1] = "belongs" /\ ret'[4] = (k \in Items(l))
     /\ Items(l)' = Items(l)

(* A call changes the set of items of one list and returns what the same   *)
(* call of a mathematical set does (the reference of TestSet), getNitems   *)
(* included; equality of bytes is equality.                                *)
SetStepRight ==
  [\A l \in Lists : Exists(l) /\ Exists(l)' =>
       /\ list'[l].nitems = Cardinality(Items(l)')
       /\ \/ ret'[1] \in {"create", "destroy"}
          \/ \E r \in Lists, k \in Keys :
               /\ Exists(r) /\ ret'[2] = r /\ ret'[3] = IntRank(k)
               /\ SetCall(r, k) /\ (l # r => Items(l)' = Items(l))]_vars
=============================================================================
