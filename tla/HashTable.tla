----------------------------- MODULE HashTable -----------------------------
(* HashTable and HashTableBK of datastruct.h: each element is in the       *)
(* sorted list of its bucket (snext, sprev) and in AllElements (next,      *)
(* prev), in the order of insertion. The lists of SortedLinkList are the   *)
(* buckets 0 .. Nbuckets - 1, and AllElements.                             *)
EXTENDS SortedLinkList

CONSTANT Nbuckets

\* What the constants have to satisfy.
BucketsRight == Nbuckets \in Nat \ {0} /\ Lists = 0 .. Nbuckets

VARIABLES
  all,      \* the fields next and prev
  nitems,
  exists    \* whether the table does

varsTable == <<vars, all, nitems, exists>>

AllElements == Nbuckets
Buckets == 0 .. Nbuckets - 1
Bucket(k) == k % Nbuckets    \* HashKey(k) is k, as in the tests
AllChain == Forward(all, AllElements)

\* An element added to AllElements goes to its tail (pushTail), not its head.
AtHead(m, x) == LinkAfter(m, x, HeadOf(AllElements))
AtTail(m, x) == LinkBefore(m, x, TailOf(AllElements))

lookupTable(k) == lookupBK(Bucket(k), k, TRUE)

InitTable == Init /\ all = link /\ nitems = 0 /\ exists = FALSE

ConstructTable ==
  /\ ~exists /\ exists' = TRUE
  /\ link' = EmptyEnds(link, Buckets)
  /\ made' = Buckets
  /\ all' = EmptyEnds(all, {AllElements}) /\ nitems' = 0
  /\ ret' = <<"create", AllElements>>
DestroyTable ==
  /\ exists /\ exists' = FALSE
  /\ made' = {} /\ ret' = <<"destroy", AllElements>> /\ UNCHANGED <<link, all, nitems>>

insertTable(x) ==
  /\ exists
  /\ insert(Bucket(Key(x)), x)
  /\ all' = AtTail(all, x)
  /\ nitems' = nitems + 1 /\ UNCHANGED exists

(* removeDirect needs no bucket.                                           *)
removeTable(x) ==
  /\ exists /\ x \in ToSet(AllChain)
  /\ link' = Unlink(link, x) /\ all' = Unlink(all, x)
  /\ nitems' = nitems - 1
  /\ ret' = <<"remove", AllElements, x>> /\ UNCHANGED <<made, exists>>

NextTable ==
  \/ ConstructTable \/ DestroyTable
  \/ \E x \in Elements : insertTable(x) \/ removeTable(x)
SpecTable == InitTable /\ [][NextTable]_varsTable

-----------------------------------------------------------------------------
(* The buckets partition the elements by key and hold those of AllElements *)
(* and no others; nitems counts them.                                      *)
BucketsAgree ==
  exists =>
    /\ \A b \in Buckets : ToSet(Chain(b)) = {x \in ToSet(AllChain) : Bucket(Key(x)) = b}
    /\ Cardinality(ToSet(AllChain)) = Len(AllChain) /\ nitems = Len(AllChain)
    /\ Backward(all, AllElements) = Reverse(AllChain)

(* lookup finds the newest element with the key, so that removing it lets  *)
(* the one before it appear again, as AllElements has them in order.       *)
NewestFound ==
  exists => \A k \in Keys :
    LET equal == {i \in DOMAIN AllChain : Key(AllChain[i]) = k}
    IN lookupTable(k) = IF equal = {} THEN None ELSE AllChain[Max(equal)]

(* AllElements changes as the calls say: at its end by insert, anywhere by *)
(* remove, without a change of order.                                      *)
InsertionOrderStep ==
  exists /\ exists' =>
    \/ \E x \in Elements : AllChain' = Append(AllChain, x)
    \/ \E i \in DOMAIN AllChain : AllChain' = RemoveAt(AllChain, i)
=============================================================================
