------------------------------- MODULE MCLists -------------------------------
(* The linked lists, the hash table, the stack and the counted pointers of *)
(* datastruct.h for TLC, one of them per behaviour and all of them in the  *)
(* variables of the hash table. Two elements have the same key.            *)
EXTENDS Integers, Sequences, FiniteSets, TLC

CONSTANTS
  a0, b0, a1, a2, None,
  Lists, Elements, MoreElements,  \* of the linked lists
  Keys, KeyOf(_), Nbuckets,       \* of the sorted ones, and of the hash table
  Values,                         \* values and objects
  Threads, Ptrs, OwnerOf(_),      \* of the counted pointers
  InitSize, Num, Den, MaxItems    \* of the stack

ASSUME PtrAssumption ==
  /\ IsFiniteSet(Threads) /\ IsFiniteSet(Ptrs) /\ \A p \in Ptrs : OwnerOf(p) \in Threads
  /\ None \notin Values \cup {a0} \cup Int /\ a0 \notin Values

\* None and the elements are no ends of lists, and None is no list.
ASSUME ListsAssumption ==
  /\ IsFiniteSet(Elements) /\ IsFiniteSet(MoreElements) /\ Nbuckets \in Nat \ {0}
  /\ Keys \subseteq Int /\ \A x \in Elements \cup MoreElements : KeyOf(x) \in Int
  /\ \A x \in Elements \cup MoreElements \cup {None}, l \in Lists \cup (0 .. Nbuckets) :
       x # <<"head", l>> /\ x # <<"tail", l>>
  /\ None \notin Elements \cup MoreElements \cup Seq(Elements \cup MoreElements)
  /\ None \notin [ToClean : BOOLEAN, nitems : Int]

\* The smallest array that is too small grows, and so do larger ones.
ASSUME StackAssumption ==
  /\ InitSize \in Nat /\ Num \in Nat /\ Den \in Nat \ {0}
  /\ Num >= Den /\ InitSize * Num >= (InitSize + 1) * Den
  /\ None \notin Seq(Values \cup {None})

VARIABLES link, made, ret, all, nitems, exists, part

MCKeyOf(x) == IF x \in {a0, b0} THEN 0 ELSE IF x = a1 THEN 1 ELSE 2
MCPtrs == {1, 2} \X {1, 2}
MCOwner(p) == p[1]

Table == INSTANCE HashTable WITH
  Lists <- 0 .. Nbuckets, Elements <- MoreElements, Key <- KeyOf
Linked == INSTANCE LinkList WITH list <- made, alloc <- all
Simple == INSTANCE SimpleLinkList WITH item <- made, alloc <- all
Singly == INSTANCE SLinkList WITH Elements <- MoreElements, next <- link, list <- made
Sorted == INSTANCE SortedLinkList WITH Key <- KeyOf
Stack == INSTANCE StackArray WITH
  Values <- Values,
  array <- link, CurrItem <- nitems, destroyed <- made
Counted == INSTANCE Ptr WITH
  Threads <- Threads, Owner <- OwnerOf, Ptrs <- Ptrs, Objects <- Values, Unset <- None, Null <- a0,
  ptr <- link, refcount <- made, todo <- all

ASSUME BucketsAssumption == Table!BucketsRight

vars == <<link, made, ret, all, nitems, exists, part>>

InitLists ==
  \/ part = "hash table" /\ Table!InitTable
  \/ /\ exists = FALSE
     /\ \/ part = "linked" /\ Linked!Init /\ nitems = 0
        \/ part = "simple" /\ Simple!Init
        \/ part = "singly" /\ Singly!Init /\ nitems = 0 /\ all = {}
        \/ part = "sorted" /\ Sorted!Init /\ nitems = 0 /\ all = {}
        \/ part = "stack" /\ Stack!Init /\ all = {}
        \/ part = "counted" /\ Counted!Init /\ nitems = 0 /\ ret = <<"none">>

Same == UNCHANGED <<part, exists>>
TableStep == part = "hash table" /\ Table!NextTable /\ UNCHANGED part
LinkedStep == part = "linked" /\ Linked!Next /\ UNCHANGED nitems /\ Same
SimpleStep == part = "simple" /\ Simple!Next /\ Same
SinglyStep == part = "singly" /\ Singly!Next /\ UNCHANGED <<nitems, all>> /\ Same
SortedStep == part = "sorted" /\ Sorted!Next /\ UNCHANGED <<nitems, all>> /\ Same
StackStep == part = "stack" /\ Stack!Next /\ UNCHANGED all /\ Same
CountedStep == part = "counted" /\ Counted!Next /\ UNCHANGED <<nitems, ret>> /\ Same

NextLists ==
  \/ TableStep \/ LinkedStep \/ SimpleStep \/ SinglyStep \/ SortedStep \/ StackStep
  \/ CountedStep
SpecLists == InitLists /\ [][NextLists]_vars
\* The lists, and the values, differ in name only.
Symmetric == Permutations(Lists) \cup Permutations(Values)
\* ret says nothing about what comes next.
StructureLists == <<link, made, all, nitems, exists, part>>

-----------------------------------------------------------------------------
(* The four lists: every call is that of a sequence, whatever stale        *)
(* pointers the elements had before.                                       *)
Deques ==
  /\ part = "linked" => Linked!Sequences!Init
  /\ part = "simple" => Simple!Sequences!Init
  /\ part = "sorted" => Sorted!Sequences!Init
  /\ [][/\ part = "linked" => [Linked!Sequences!Next]_(Linked!Sequences!vars)
        /\ part = "simple" => [Simple!Sequences!Next]_(Simple!Sequences!vars)
        /\ part = "singly" => [Singly!Sequences!Next]_(Singly!Sequences!vars)
        /\ part = "sorted" => [Sorted!Sequences!Next]_(Sorted!Sequences!vars)]_vars

(* The four lists: the same forwards and backwards (or Tail the end of the *)
(* chain), as long as nitems says, no element in two lists, no item leaked *)
(* and none freed in a list; a SortedLinkList is sorted.                   *)
ChainsSound ==
  /\ part = "linked" => Linked!ChainsMirrored
  /\ part = "simple" => Simple!ItemsAccounted
  /\ part = "singly" => Singly!TailIsLast
  /\ part = "sorted" => Sorted!SortedBothWays

(* HashTable: the buckets hold the elements of the list of all elements,   *)
(* and a lookup finds the newest element of its key.                       *)
BucketsSound == part = "hash table" => Table!BucketsAgree /\ Table!NewestFound

(* HashTable: its list of all elements keeps the order of insertion.       *)
KeepsOrder == [][part = "hash table" => Table!InsertionOrderStep]_vars

(* StackArray: the last item pushed is the first popped, and a full array  *)
(* is replaced by a larger one.                                            *)
LastInFirstOut ==
  [][part = "stack" => Stack!GrowsWhenFull /\ [Stack!Sequences!Next]_(Stack!Sequences!vars)]_vars

(* Ptr: the counts are those of the references, less the steps that calls  *)
(* have left, and nothing is deleted that is referred to.                  *)
CountsRight == part = "counted" => Counted!CountsReferences
=============================================================================
