-------------------------------- MODULE Ptr --------------------------------
(* Ptr of datastruct.h: pointers that count the references to an object in *)
(* the object. A Ptr is changed by one thread, and not while another one   *)
(* copies it; several threads have Ptrs to one object, whose counter alone *)
(* is changed atomically.                                                  *)
EXTENDS Integers, FiniteSets, SequencesExt

CONSTANTS
  Threads,
  Owner(_),   \* the thread of a Ptr
  Ptrs,
  Objects,
  Unset,      \* of a Ptr that does not exist
  Null        \* the null pointer

VARIABLES
  ptr,        \* the field of each Ptr
  refcount,   \* of each object allocated; Unset for others
  todo        \* per thread the increments and decrements left of its call

vars == <<ptr, refcount, todo>>

Allocated(o) == refcount[o] # Unset
Idle(t) == todo[t] = <<>>
\* What is left to do for the Ptr to, which takes its object from another.
Step(change, o, from, to) ==
  IF o = Null THEN <<>> ELSE <<[change |-> change, object |-> o, from |-> from, to |-> to]>>
Copied(p) == \E t \in Threads : \E i \in DOMAIN todo[t] : todo[t][i].from = p

Init ==
  /\ ptr = [p \in Ptrs |-> Unset]
  /\ refcount = [o \in Objects |-> Unset]
  /\ todo = [t \in Threads |-> <<>>]

Starts(p, value, steps) ==
  /\ Idle(Owner(p)) /\ ~Copied(p)
  /\ ptr' = [ptr EXCEPT ![p] = value]
  /\ todo' = [todo EXCEPT ![Owner(p)] = steps]
  /\ UNCHANGED refcount

(* A new object: Ptr(new T).                                               *)
Construct(p) ==
  /\ ptr[p] = Unset /\ Idle(Owner(p))
  /\ \E o \in Objects :
       /\ ~Allocated(o)
       /\ ptr' = [ptr EXCEPT ![p] = o] /\ refcount' = [refcount EXCEPT ![o] = 0]
       /\ todo' = [todo EXCEPT ![Owner(p)] = Step(1, o, p, p)]
ConstructNull(p) == ptr[p] = Unset /\ Starts(p, Null, <<>>)

Readable(q) == ptr[q] # Unset /\ Idle(Owner(q))
CopyConstruct(p, q) == ptr[p] = Unset /\ Readable(q) /\ Starts(p, ptr[q], Step(1, ptr[q], q, p))

Destroy(p) ==
  /\ ptr[p] # Unset
  /\ Starts(p, Unset, Step(-1, ptr[p], p, p))

(* operator=: the new object is counted before the old one is released, so *)
(* that a Ptr may be assigned to itself.                                   *)
ReleaseFirst(p, q) == Step(-1, ptr[p], p, p) \o Step(1, ptr[q], q, p)
CountFirst(p, q) == Step(1, ptr[q], q, p) \o Step(-1, ptr[p], p, p)
Assign(p, q) ==
  /\ ptr[p] # Unset /\ Readable(q)
  /\ Starts(p, ptr[q], CountFirst(p, q))

Freed(count) == count = 0

(* AtomicInc32; AtomicDec32 and, at zero, delete.                          *)
Count(t) ==
  /\ ~Idle(t)
  /\ LET s == Head(todo[t])
         n == refcount[s.object] + s.change
     IN refcount' = [refcount EXCEPT ![s.object] =
                       IF s.change = -1 /\ Freed(n) THEN Unset ELSE n]
  /\ todo' = [todo EXCEPT ![t] = Tail(@)] /\ UNCHANGED ptr

Call(p) ==
  \/ Construct(p) \/ ConstructNull(p) \/ Destroy(p)
  \/ \E q \in Ptrs : CopyConstruct(p, q) \/ Assign(p, q)
Next == (\E p \in Ptrs : Call(p)) \/ (\E t \in Threads : Count(t))
Spec == Init /\ [][Next]_vars

-----------------------------------------------------------------------------
(* An object that a Ptr points to, or that a call has still to count or    *)
(* release, is not deleted, and its count is the number of Ptrs to it but  *)
(* for the steps that calls have left (one increment and one decrement at  *)
(* most): one that nobody points to is deleted, once.                      *)
Pending == UNION {{todo[t][i] : i \in DOMAIN todo[t]} : t \in Threads}
Left(change, o) == {s \in Pending : s.change = change /\ s.object = o}
Refer(o) == {p \in Ptrs : ptr[p] = o}
CountsReferences ==
  \A o \in Objects :
    /\ Allocated(o) <=> Refer(o) # {} \/ Left(1, o) # {} \/ Left(-1, o) # {}
    /\ Allocated(o) =>
         refcount[o] = Cardinality(Refer(o)) - Cardinality(Left(1, o)) + Cardinality(Left(-1, o))
-----------------------------------------------------------------------------
(* The inductive invariant: while an increment is left, the Ptr that it is *)
(* for and the one that its object comes from both point to the object,    *)
(* and the latter is counted, unless the object is new or the Ptr assigned *)
(* to itself.                                                              *)
Steps == [change : {1, -1}, object : Objects, from : Ptrs, to : Ptrs]
Types ==
  /\ ptr \in [Ptrs -> Objects \cup {Unset, Null}]
  /\ refcount \in [Objects -> Int \cup {Unset}]
  /\ todo \in [Threads -> Seq(Steps)]
CallsRight ==
  \A t \in Threads :
    /\ Len(todo[t]) <= 2
    /\ Len(todo[t]) = 2 => todo[t][1].change = 1 /\ todo[t][2].change = -1
    /\ \A i \in DOMAIN todo[t] : Owner(todo[t][i].to) = t
Sourced ==
  \A s \in Pending : s.change = 1 =>
    /\ ptr[s.to] = s.object /\ ptr[s.from] = s.object
    /\ s.from # s.to => \A r \in Pending : r.change = 1 => r.to # s.from
    /\ s.from = s.to =>
         \/ \E r \in Pending : r.change = -1 /\ r.object = s.object /\ r.to = s.to
         \/ Refer(s.object) = {s.to} /\ \A r \in Pending : r.object = s.object => r = s
IInv == Types /\ CallsRight /\ Sourced /\ CountsReferences
=============================================================================
