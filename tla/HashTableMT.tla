----------------------------- MODULE HashTableMT -----------------------------
(* HashTableMT of datastructmt.h: buckets that are skip lists, each behind  *)
(* a lock. The values are counted pointers (Ptr of datastruct.h), for which *)
(* lookup copies the value before it releases the lock. A skip list is the  *)
(* sequence of its nodes, oldest first, as far as equal keys can tell, each *)
(* with a tower of random height: which of several nodes with the key a     *)
(* call finds depends on both.                                              *)
EXTENDS Integers, FiniteSets, SequencesExt

CONSTANTS
  Threads, NoThread,
  Keys, Nbuckets, hash(_),
  UniqueKeys,        \* keys that the program inserts by lookupInsert only
  Objects, Null,
  NodeNames,
  MaxHeight          \* bound on the height of a tower (the code has none)

VARIABLES
  shared,            \* whether lockRead admits several readers (RWLock)
  Bucket_l, bucket,  \* per bucket its lock and its nodes
  node,              \* key, value and height of each node, Null if it is free
  refcount,
  pc, op, key, b,    \* per thread the call it is in and its bucket
  found,             \* per thread the node the search returned, or Null
  retval,            \* per thread the Ptr of its own that it passes by reference
  removedU,          \* per thread the temporary of remove
  before             \* ghost: per thread the nodes there when its clear began

vars == <<shared, Bucket_l, bucket, node, refcount, pc, op, key, b, found, retval, removedU, before>>
lookups == <<bucket, node, before>>
call == <<shared, op, key>>

L == INSTANCE RWLock
Buckets == 0 .. Nbuckets - 1
InTable == UNION {Range(bucket[i]) : i \in Buckets}

(* Assigning and destroying Ptrs: one object gains a reference, one loses   *)
(* one; an object without any is deleted.                                   *)
Counted(gains, loses) ==
  [o \in Objects |-> refcount[o] + (IF o = gains THEN 1 ELSE 0) - (IF o = loses THEN 1 ELSE 0)]

Init ==
  /\ shared \in BOOLEAN
  /\ Bucket_l = [i \in Buckets |-> L!Open] /\ bucket = [i \in Buckets |-> <<>>]
  /\ node = [n \in NodeNames |-> Null]
  /\ refcount = [o \in Objects |-> 0]
  /\ pc = [t \in Threads |-> "ready"] /\ op = [t \in Threads |-> "none"]
  /\ key = [t \in Threads |-> 0] /\ b = [t \in Threads |-> 0]
  /\ found = [t \in Threads |-> Null]
  /\ retval = [t \in Threads |-> Null] /\ removedU = [t \in Threads |-> Null]
  /\ before = [t \in Threads |-> {}]

\* The program makes an object, or drops what it has.
New(t) ==
  /\ pc[t] = "ready" /\ retval[t] = Null
  /\ \E o \in Objects :
       /\ refcount[o] = 0
       /\ refcount' = Counted(o, Null) /\ retval' = [retval EXCEPT ![t] = o]
  /\ UNCHANGED <<lookups, call, Bucket_l, pc, b, found, removedU>>
Drop(t) ==
  /\ pc[t] = "ready" /\ retval[t] # Null
  /\ refcount' = Counted(Null, retval[t]) /\ retval' = [retval EXCEPT ![t] = Null]
  /\ UNCHANGED <<lookups, call, Bucket_l, pc, b, found, removedU>>

Calls == {"insert", "lookup", "lookupApply", "lookupInsert", "remove", "lookupRemove"}
\* Bound: a node is left for every call that may add one.
Adding == {"insert", "lookupInsert"}
NodesLeft ==
  Cardinality({n \in NodeNames : node[n] = Null}) > Cardinality({t \in Threads : op[t] \in Adding})

Call(t) ==
  /\ pc[t] = "ready" /\ pc' = [pc EXCEPT ![t] = "lock"]
  /\ \E k \in Keys, o \in Calls :
       /\ o \in Adding => NodesLeft
       /\ o = "insert" => k \notin UniqueKeys
       /\ o \in {"insert", "lookupApply", "lookupInsert"} => retval[t] # Null
       /\ op' = [op EXCEPT ![t] = o] /\ key' = [key EXCEPT ![t] = k]
       /\ b' = [b EXCEPT ![t] = hash(k) % Nbuckets]
  /\ UNCHANGED <<lookups, shared, Bucket_l, refcount, found, retval, removedU>>
CallClear(t) ==
  /\ pc[t] = "ready" /\ pc' = [pc EXCEPT ![t] = "lock"]
  /\ op' = [op EXCEPT ![t] = "clear"] /\ b' = [b EXCEPT ![t] = 0]
  /\ before' = [before EXCEPT ![t] = InTable]
  /\ UNCHANGED <<shared, Bucket_l, bucket, node, refcount, key, found, retval, removedU>>

AcquireBlind(t) ==
  /\ pc[t] = "lock" /\ Bucket_l' = Bucket_l /\ pc' = [pc EXCEPT ![t] = "search"]
  /\ UNCHANGED <<lookups, call, refcount, b, found, retval, removedU>>
Acquire(t) ==
  LET l == Bucket_l[b[t]]
  IN /\ pc[t] = "lock"
     /\ \/ op[t] = "lookup" /\ L!CanLockRead(l, shared)
           /\ Bucket_l' = [Bucket_l EXCEPT ![b[t]] = L!LockedRead(l, t, shared)]
        \/ op[t] # "lookup" /\ L!CanLock(l)
           /\ Bucket_l' = [Bucket_l EXCEPT ![b[t]] = L!Locked(l, t)]
     /\ pc' = [pc EXCEPT ![t] = "search"]
     /\ UNCHANGED <<lookups, call, refcount, b, found, retval, removedU>>

(* Where the nodes with a key are in a skip list. The search of insertions  *)
(* and removals goes down to level 0 before the first of them. That of      *)
(* lookup stops at the first it meets on its way down: of those with the    *)
(* tallest towers the oldest, which need not be the oldest of all.          *)
Equal(s, k) == {i \in DOMAIN s : node[s[i]].key = k}
firstEqual(s, k) == Min(Equal(s, k))
seek(s, k) ==
  Min({i \in Equal(s, k) : \A j \in Equal(s, k) : node[s[j]].height <= node[s[i]].height})

(* The search of the skip list; insert does not look for the key.           *)
Search(t) ==
  /\ pc[t] = "search" /\ pc' = [pc EXCEPT ![t] = op[t]]
  /\ LET s == bucket[b[t]]
     IN found' = [found EXCEPT ![t] =
          IF op[t] \in {"insert", "clear"} \/ Equal(s, key[t]) = {} THEN Null
          ELSE IF op[t] \in {"lookup", "lookupApply"} THEN s[seek(s, key[t])]
          ELSE s[firstEqual(s, key[t])]]
  /\ UNCHANGED <<lookups, call, Bucket_l, refcount, b, retval, removedU>>

Done(t) == pc' = [pc EXCEPT ![t] = "unlock"]

(* A new node behind those of its key, with the program's value.            *)
Adds(t) ==
  \E n \in NodeNames, h \in 1 .. MaxHeight :
    /\ node[n] = Null
    /\ node' = [node EXCEPT ![n] = [key |-> key[t], value |-> retval[t], height |-> h]]
    /\ bucket' = [bucket EXCEPT ![b[t]] = Append(@, n)]
    /\ refcount' = Counted(retval[t], Null)
Deletes(t) ==
  /\ node' = [node EXCEPT ![found[t]] = Null]
  /\ bucket' = [bucket EXCEPT ![b[t]] = RemoveFirst(@, found[t])]
  /\ before' = [u \in Threads |-> before[u] \ {found[t]}]
Nothing == UNCHANGED <<lookups, refcount, retval, removedU>>

insert(t) ==
  /\ pc[t] = "insert" /\ Adds(t) /\ Done(t)
  /\ UNCHANGED <<call, Bucket_l, b, found, retval, removedU, before>>

\* retval = *retvalue.
lookup(t) ==
  /\ pc[t] = "lookup" /\ Done(t)
  /\ \/ found[t] = Null /\ Nothing
     \/ /\ found[t] # Null
        /\ LET v == node[found[t]].value
           IN refcount' = Counted(v, retval[t]) /\ retval' = [retval EXCEPT ![t] = v]
        /\ UNCHANGED <<lookups, removedU>>
  /\ UNCHANGED <<call, Bucket_l, b, found>>

(* f assigns the program's object to a value that was found.                *)
lookupApply(t) ==
  /\ pc[t] = "lookupApply" /\ Done(t)
  /\ \/ found[t] = Null /\ Nothing
     \/ /\ found[t] # Null
        /\ refcount' = Counted(retval[t], node[found[t]].value)
        /\ node' = [node EXCEPT ![found[t]].value = retval[t]]
        /\ UNCHANGED <<bucket, before, retval, removedU>>
  /\ UNCHANGED <<call, Bucket_l, b, found>>

(* f assigns to a new value only. The pointer to the value that the call    *)
(* returns is not followed after the lock is released.                      *)
lookupInsert(t) ==
  /\ pc[t] = "lookupInsert" /\ Done(t)
  /\ \/ found[t] = Null /\ Adds(t) /\ UNCHANGED <<before, retval, removedU>>
     \/ found[t] # Null /\ Nothing
  /\ UNCHANGED <<call, Bucket_l, b, found>>

\* removedU has the last reference to the value until remove returns.
remove(t) ==
  /\ pc[t] = "remove" /\ Done(t)
  /\ \/ found[t] = Null /\ Nothing
     \/ /\ found[t] # Null /\ Deletes(t)
        /\ removedU' = [removedU EXCEPT ![t] = node[found[t]].value]
        /\ UNCHANGED <<refcount, retval>>
  /\ UNCHANGED <<call, Bucket_l, b, found>>

lookupRemove(t) ==
  /\ pc[t] = "lookupRemove" /\ Done(t)
  /\ \/ found[t] = Null /\ Nothing
     \/ /\ found[t] # Null /\ Deletes(t)
        /\ refcount' = Counted(Null, retval[t])
        /\ retval' = [retval EXCEPT ![t] = node[found[t]].value]
        /\ UNCHANGED removedU
  /\ UNCHANGED <<call, Bucket_l, b, found>>

(* b->clear for one bucket.                                                 *)
clear(t) ==
  LET gone == Range(bucket[b[t]])
  IN /\ pc[t] = "clear" /\ Done(t)
     /\ node' = [n \in NodeNames |-> IF n \in gone THEN Null ELSE node[n]]
     /\ bucket' = [bucket EXCEPT ![b[t]] = <<>>]
     /\ before' = [u \in Threads |-> before[u] \ gone]
     /\ refcount' = [o \in Objects |-> refcount[o] - Cardinality({n \in gone : node[n].value = o})]
     /\ UNCHANGED <<call, Bucket_l, b, found, retval, removedU>>

(* The unlock, and the next bucket of a clear.                              *)
LastBucket(i) == i = Nbuckets - 1
Release(t) ==
  LET l == Bucket_l[b[t]]
      next == IF op[t] # "clear" \/ LastBucket(b[t]) THEN "return" ELSE "lock"
  IN /\ pc[t] = "unlock" /\ pc' = [pc EXCEPT ![t] = next]
     /\ b' = [b EXCEPT ![t] = IF next = "lock" THEN @ + 1 ELSE 0]
     /\ found' = [found EXCEPT ![t] = Null]
     /\ Bucket_l' = [Bucket_l EXCEPT ![b[t]] =
          IF op[t] = "lookup" THEN L!unlockRead(l, t, shared) ELSE L!unlock(l, t)]
     /\ UNCHANGED <<lookups, call, refcount, retval, removedU>>

Return(t) ==
  /\ pc[t] = "return" /\ pc' = [pc EXCEPT ![t] = "ready"]
  /\ refcount' = Counted(Null, removedU[t]) /\ removedU' = [removedU EXCEPT ![t] = Null]
  /\ op' = [op EXCEPT ![t] = "none"] /\ key' = [key EXCEPT ![t] = 0]
  /\ before' = [before EXCEPT ![t] = {}]
  /\ UNCHANGED <<shared, bucket, node, Bucket_l, b, found, retval>>

Step(t) ==
  \/ New(t) \/ Drop(t) \/ Call(t) \/ CallClear(t) \/ Acquire(t) \/ Search(t)
  \/ insert(t) \/ lookup(t) \/ lookupApply(t) \/ lookupInsert(t) \/ remove(t) \/ lookupRemove(t)
  \/ clear(t) \/ Release(t) \/ Return(t)
Next == \E t \in Threads : Step(t)
Spec == Init /\ [][Next]_vars
------------------------------------------------------------------------------
\* Threads between their search and the change it leads to.
Inside(t) == pc[t] \in {"lookup", "lookupApply", "lookupInsert", "remove", "lookupRemove"}

(* What a search found, or did not find, is still so when the call acts on  *)
(* it: no node is used after it was deleted.                                *)
SearchesHold ==
  \A t \in Threads :
    Inside(t) =>
      LET has == {n \in Range(bucket[b[t]]) : node[n].key = key[t]}
      IN IF found[t] = Null THEN has = {} ELSE found[t] \in has

(* An object lives as long as a value in the table, a program or a remove   *)
(* that has not returned refers to it.                                      *)
ObjectsCounted ==
  \A o \in Objects :
    refcount[o] = Cardinality({n \in InTable : node[n].value = o})
                + Cardinality({t \in Threads : retval[t] = o})
                + Cardinality({t \in Threads : removedU[t] = o})

(* Keys that only lookupInsert inserts are there once; clear, which locks   *)
(* one bucket at a time, has removed what was there when it began.          *)
KeysUnique ==
  \A m, n \in InTable : m # n /\ node[m].key = node[n].key => node[m].key \notin UniqueKeys
ClearSweeps ==
  \A t \in Threads : pc[t] = "return" /\ op[t] = "clear" => before[t] = {}
------------------------------------------------------------------------------
(* The inductive invariant: what a thread knows while it has the lock of    *)
(* its bucket, and that two have it only to look.                           *)
Types ==
  /\ shared \in BOOLEAN
  /\ Bucket_l \in [Buckets -> [writer : Threads \cup {NoThread}, readers : SUBSET Threads]]
  /\ bucket \in [Buckets -> Seq(NodeNames)]
  /\ node \in [NodeNames -> [key : Keys, value : Objects, height : 1 .. MaxHeight] \cup {Null}]
  /\ refcount \in [Objects -> Int]
  /\ pc \in [Threads -> {"ready", "lock", "search", "unlock", "return", "clear"} \cup Calls]
  /\ op \in [Threads -> {"none", "clear"} \cup Calls]
  /\ key \in [Threads -> Keys \cup {0}] /\ b \in [Threads -> Buckets]
  /\ found \in [Threads -> NodeNames \cup {Null}]
  /\ retval \in [Threads -> Objects \cup {Null}] /\ removedU \in [Threads -> Objects \cup {Null}]
  /\ before \in [Threads -> SUBSET NodeNames]

BucketOf(k) == hash(k) % Nbuckets
Holding(t) == pc[t] \in {"search", "unlock", "clear"} \cup Calls
HasLock(t) ==
  IF op[t] = "lookup" /\ shared THEN t \in Bucket_l[b[t]].readers ELSE Bucket_l[b[t]].writer = t

CallsRight ==
  \A t \in Threads :
    /\ pc[t] \in Calls \cup {"clear"} => op[t] = pc[t]
    /\ pc[t] = "ready" <=> op[t] = "none"
    /\ op[t] \in Calls => key[t] \in Keys /\ (pc[t] # "return" => b[t] = BucketOf(key[t]))
    /\ op[t] = "insert" => key[t] \notin UniqueKeys
    /\ op[t] \in {"insert", "lookupApply", "lookupInsert"} => retval[t] # Null
    /\ removedU[t] # Null => op[t] = "remove" /\ pc[t] \in {"unlock", "return"}
    /\ op[t] # "clear" => before[t] = {}

LocksHeld ==
  /\ \A t \in Threads : Holding(t) => HasLock(t)
  /\ \A i \in Buckets : Bucket_l[i].writer # NoThread => Bucket_l[i].readers = {}

NodesPlaced ==
  \A i \in Buckets :
    /\ IsInjective(bucket[i])
    /\ \A n \in NodeNames : n \in Range(bucket[i]) <=> node[n] # Null /\ BucketOf(node[n].key) = i

FoundStays ==
  \A t \in Threads :
    Inside(t) =>
      IF found[t] = Null THEN \A n \in NodeNames : node[n] # Null => node[n].key # key[t]
      ELSE node[found[t]] # Null /\ node[found[t]].key = key[t]

UniqueStays ==
  \A m, n \in NodeNames :
    m # n /\ node[m] # Null /\ node[n] # Null /\ node[m].key = node[n].key => node[m].key \notin UniqueKeys

\* A clear has before it what is left of the nodes that were there.
ClearsAhead ==
  \A t \in Threads : \A n \in before[t] :
    /\ node[n] # Null /\ BucketOf(node[n].key) >= b[t]
    /\ pc[t] = "unlock" => BucketOf(node[n].key) # b[t]
    /\ pc[t] # "return"

IInv ==
  Types /\ CallsRight /\ LocksHeld /\ NodesPlaced /\ FoundStays /\ UniqueStays /\ ClearsAhead
==============================================================================
