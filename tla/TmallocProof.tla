---------------------------- MODULE TmallocProof -----------------------------
(***************************************************************************)
(* The invariant of TmallocInv, and what the steps of Tmalloc may do: the  *)
(* list of a thread changes by a push only, a superbuffer in a list is     *)
(* frozen, and every step is a step of the heap of ThreadHeap.             *)
(***************************************************************************)
EXTENDS TmallocInv, TmallocRefinement, SequenceTheorems, FiniteSetTheorems, TLAPS

-----------------------------------------------------------------------------
(* What a step leaves alone.                                               *)

\* The step does not change what thread u is sending.
Frame(u) ==
  /\ Sending(u)' <=> Sending(u)
  /\ Sending(u) => Item(u)' = Item(u) /\ (HasItem(u)' <=> HasItem(u))
  /\ \A e \in Threads : Sent(u, e)' <=> Sent(u, e)
  /\ \A n \in Buffers : Linking(u, n)' <=> Linking(u, n)

\* destMap finds the same item while the map, the buffer and its tag stay.
LEMMA ItemFrame ==
  ASSUME NEW u \in Threads, super'[u] = super[u], buf'[u] = buf[u],
         tag'[buf[u]] = tag[buf[u]]
  PROVE  Item(u)' = Item(u) /\ (HasItem(u)' <=> HasItem(u))
<1>1. Dest(u)' = Dest(u)
  BY DEF Dest
<1>2. ItemsFor(u, Dest(u))' = ItemsFor(u, Dest(u))
  BY <1>1 DEF ItemsFor
<1>3. QED
  BY <1>2 DEF Item, HasItem

\* A thread whose own variables stay sends what it sent before.
LEMMA FrameSame ==
  ASSUME NEW u \in Threads, pc'[u] = pc[u], super'[u] = super[u], buf'[u] = buf[u],
         Sending(u) => tag'[buf[u]] = tag[buf[u]]
  PROVE  Frame(u)
<1>1. Sending(u)' <=> Sending(u)
  BY DEF Sending
<1>2. Sending(u) => Item(u)' = Item(u) /\ (HasItem(u)' <=> HasItem(u))
  BY ItemFrame
<1>3. \A e \in Threads : Sent(u, e)' <=> Sent(u, e)
  BY <1>2 DEF Sent, Sending
<1>4. \A n \in Buffers : Linking(u, n)' <=> Linking(u, n)
  BY <1>2 DEF Linking, Sending
<1>5. QED
  BY <1>1, <1>2, <1>3, <1>4 DEF Frame

\* The frame of a thread that sends neither before nor after the step.
LEMMA FrameNotSending ==
  ASSUME NEW u \in Threads, ~Sending(u), ~Sending(u)'
  PROVE  Frame(u)
BY DEF Frame, Sending, Sent, Linking

\* The frame of an action of t that is not about sending.
LEMMA Frames ==
  ASSUME NEW t \in Threads, ~Sending(t), ~Sending(t)',
         \A u \in Threads \ {t} :
           /\ pc'[u] = pc[u] /\ super'[u] = super[u] /\ buf'[u] = buf[u]
           /\ Sending(u) => tag'[buf[u]] = tag[buf[u]]
  PROVE  \A u \in Threads : Frame(u)
<1> SUFFICES ASSUME NEW u \in Threads PROVE Frame(u)
  OBVIOUS
<1>1. CASE u = t
  BY <1>1, FrameNotSending
<1>2. CASE u # t
  BY <1>2, FrameSame
<1>3. QED
  BY <1>1, <1>2

-----------------------------------------------------------------------------
(* Calls of the application.                                               *)

\* CallMalloc: _tmalloc begins with the list of superbuffers.
LEMMA CallMallocStep ==
  ASSUME NEW k, NEW o, NEW i, NEW l, Inv(k, o, i, l), NEW t \in Threads,
         CallMalloc(t), UNCHANGED aborted
  PROVE  \E k2, o2, i2, l2 : Inv(k2, o2, i2, l2)'
<1>0. TypeOK /\ Items /\ Control /\ GhostType(k, o, i, l) /\ Shape(k, o, i, l)
  BY DEF Inv
<1>a. pc[t] = "idle" /\ op' = [op EXCEPT ![t] = "malloc"] /\ pc' = [pc EXCEPT ![t] = "readhead"]
  BY DEF CallMalloc
<1>b. UNCHANGED <<tag, status, pool, super, pos, bufs, next, head, held, arg, buf, curr, stack, aborted>>
  BY DEF CallMalloc, heapVars, mapVars
<1>1. TypeOK'
  BY <1>0, <1>a, <1>b DEF TypeOK, PCs
<1>2. \A u \in Threads : Frame(u)
  BY <1>0, Frames, <1>a, <1>b DEF TypeOK, Sending
<1>3. Items'
  BY <1>0, <1>2, <1>a, <1>b DEF Items, TypeOK, Frame
<1>4. Control'
  BY <1>0, <1>2, <1>a, <1>b DEF Control, TypeOK, Frame
<1>5. FreshAt(k)'
  BY <1>0, <1>a, <1>b DEF Shape, FreshAt, TypeOK, GhostType
<1>6. HeldAt(k)'
  BY <1>0, <1>a, <1>b DEF Shape, HeldAt, TypeOK, GhostType
<1>7. PoolAt(k, o)'
  BY <1>0, <1>a, <1>b DEF Shape, PoolAt, TypeOK, GhostType
<1>8. ArgAt(k, o)'
  BY <1>0, <1>a, <1>b DEF Shape, ArgAt, TypeOK, GhostType
<1>9. BufAt(k, o)'
  BY <1>0, <1>a, <1>b DEF Shape, BufAt, TypeOK, GhostType
<1>10. SuperAt(k, o, i)'
  BY <1>0, <1>2, <1>a, <1>b DEF Shape, SuperAt, TypeOK, GhostType, Frame
<1>11. SlotAt(k, o, i)'
  BY <1>0, <1>a, <1>b DEF Shape, SlotAt, TypeOK, GhostType
<1>12. HeadAt(k, o)'
  BY <1>0, <1>a, <1>b DEF Shape, HeadAt, TypeOK, GhostType
<1>13. NextAt(k, o)'
  BY <1>0, <1>2, <1>a, <1>b DEF Shape, NextAt, TypeOK, GhostType, Frame
<1>14. CurrAt(k, o)'
  BY <1>0, <1>a, <1>b DEF Shape, CurrAt, TypeOK, GhostType
<1>15. StackAt(k, o, i)'
  BY <1>0, <1>a, <1>b DEF Shape, StackAt, TypeOK, GhostType
<1>16. Filled(k, o, i)'
  BY <1>0, <1>2, <1>a, <1>b DEF Shape, Filled, PlaceType, TypeOK, GhostType, Listed, Frame
<1>17. ListIds(k, o, l)'
  BY <1>0, <1>a, <1>b DEF Shape, ListIds, GhostType, PlaceType, Listed
<1>18. Detaching(k, l)'
  BY <1>0, <1>a, <1>b DEF Shape, Detaching, TypeOK, GhostType
<1>19. Statuses(k, o)'
  BY <1>0, <1>a, <1>b DEF Shape, Statuses, BufAt, TypeOK, GhostType, PlaceType, Listed
<1>20. DistinctAddresses' => Homes(k, o, i, l)'
  BY <1>0, <1>a, <1>b DEF Shape, Homes, TypeOK, GhostType, PlaceType, DistinctAddresses, Listed
<1>21. PlaceType(k, o, i)'
  BY <1>0, <1>a, <1>b DEF Shape, PlaceType, GhostType
<1>22. GhostType(k, o, i, l)'
  BY <1>0, <1>a, <1>b DEF GhostType, Kinds
<1>23. Inv(k, o, i, l)'
  BY <1>1, <1>3, <1>4, <1>5, <1>6, <1>7, <1>8, <1>9, <1>10, <1>11, <1>12, <1>13, <1>14,
     <1>15, <1>16, <1>17, <1>18, <1>19, <1>20, <1>21, <1>22
  DEF Inv, Shape
<1>24. QED
  BY <1>23

\* CallFree: the buffer leaves the hands of the application for those of _tfree.
LEMMA CallFreeStep ==
  ASSUME NEW k, NEW o, NEW i, NEW l, Inv(k, o, i, l), NEW t \in Threads,
         CallFree(t), UNCHANGED aborted
  PROVE  \E k2, o2, i2, l2 : Inv(k2, o2, i2, l2)'
<1>0. TypeOK /\ Items /\ Control /\ GhostType(k, o, i, l) /\ Shape(k, o, i, l)
  BY DEF Inv
<1>1a. PICK b \in held : held' = held \ {b} /\ buf' = [buf EXCEPT ![t] = b]
  BY DEF CallFree
<1> DEFINE k2 == [k EXCEPT ![b] = "buf"]
           o2 == [o EXCEPT ![b] = t]
<1> HIDE DEF k2, o2
<1>a. pc[t] = "idle" /\ op' = [op EXCEPT ![t] = "free"] /\ pc' = [pc EXCEPT ![t] = "tfree"]
  BY DEF CallFree
<1>b. UNCHANGED <<tag, status, pool, super, pos, bufs, next, head, arg, curr, stack, aborted>>
  BY DEF CallFree, heapVars, mapVars
<1>c1. b \in Buffers /\ b # Null
  BY <1>0, NullAssumption DEF TypeOK
<1>c2. k[b] = "held"
  BY <1>0, <1>c1 DEF Shape, HeldAt
<1>c3. arg[t] = Null
  BY <1>0, <1>a DEF Control
<1>d. k2 = [k EXCEPT ![b] = "buf"] /\ o2 = [o EXCEPT ![b] = t]
  BY DEF k2, o2
<1>e. held' = held \ {b} /\ buf' = [buf EXCEPT ![t] = b]
  BY <1>1a
<1>1. TypeOK'
  BY <1>0, <1>a, <1>b, <1>c1, <1>c2, <1>d, <1>e DEF TypeOK, PCs
<1>2. \A u \in Threads : Frame(u)
  BY <1>0, Frames, <1>a, <1>b, <1>c1, <1>c2, <1>d, <1>e DEF TypeOK, Sending
<1>3. Items'
  BY <1>0, <1>2, <1>a, <1>b, <1>c1, <1>c2, <1>d DEF Items, TypeOK, Frame
<1>4. Control'
  BY <1>0, <1>2, <1>a, <1>b, <1>c1, <1>c2, <1>d, <1>e, NullAssumption
  DEF Control, TypeOK, Frame, Shape, FreshAt
<1>5. FreshAt(k2)'
  BY <1>0, <1>a, <1>b, <1>c1, <1>c2, <1>d DEF Shape, FreshAt, TypeOK, GhostType
<1>6. HeldAt(k2)'
  BY <1>0, <1>a, <1>b, <1>c1, <1>c2, <1>d, <1>e DEF Shape, HeldAt, TypeOK, GhostType
<1>7. PoolAt(k2, o2)'
  BY <1>0, <1>a, <1>b, <1>c1, <1>c2, <1>d DEF Shape, PoolAt, TypeOK, GhostType
<1>8. ArgAt(k2, o2)'
  BY <1>0, <1>a, <1>b, <1>c1, <1>c2, <1>c3, <1>d, <1>e DEF Shape, ArgAt, TypeOK, GhostType
<1>9. BufAt(k2, o2)'
  BY <1>0, <1>a, <1>b, <1>c1, <1>c2, <1>d, <1>e DEF Shape, BufAt, TypeOK, GhostType
<1>10. SuperAt(k2, o2, i)'
  BY <1>0, <1>2, <1>a, <1>b, <1>c1, <1>c2, <1>d DEF Shape, SuperAt, TypeOK, GhostType, Frame
<1>11. SlotAt(k2, o2, i)'
  BY <1>0, <1>a, <1>b, <1>c1, <1>c2, <1>d DEF Shape, SlotAt, TypeOK, GhostType
<1>12. HeadAt(k2, o2)'
  BY <1>0, <1>a, <1>b, <1>c1, <1>c2, <1>d DEF Shape, HeadAt, TypeOK, GhostType
<1>13. NextAt(k2, o2)'
  BY <1>0, <1>2, <1>a, <1>b, <1>c1, <1>c2, <1>d DEF Shape, NextAt, TypeOK, GhostType, Frame
<1>14. CurrAt(k2, o2)'
  BY <1>0, <1>a, <1>b, <1>c1, <1>c2, <1>d DEF Shape, CurrAt, TypeOK, GhostType
<1>15. StackAt(k2, o2, i)'
  BY <1>0, <1>a, <1>b, <1>c1, <1>c2, <1>d DEF Shape, StackAt, TypeOK, GhostType
<1>16. Filled(k2, o2, i)'
  BY <1>0, <1>2, <1>a, <1>b, <1>c1, <1>c2, <1>d DEF Shape, Filled, PlaceType, TypeOK, GhostType, Listed, Frame
<1>17. ListIds(k2, o2, l)'
  BY <1>0, <1>a, <1>b, <1>c1, <1>c2, <1>d DEF Shape, ListIds, GhostType, PlaceType, Listed
<1>18. Detaching(k2, l)'
  BY <1>0, <1>a, <1>b, <1>c1, <1>c2, <1>d DEF Shape, Detaching, TypeOK, GhostType
<1>19. Statuses(k2, o2)'
  BY <1>0, <1>a, <1>b, <1>c1, <1>c2, <1>d DEF Shape, Statuses, BufAt, TypeOK, GhostType, PlaceType, Listed
<1>20. DistinctAddresses' => Homes(k2, o2, i, l)'
  BY <1>0, <1>a, <1>b, <1>c1, <1>c2, <1>d
  DEF Shape, Homes, TypeOK, GhostType, PlaceType, DistinctAddresses, Listed
<1>21. PlaceType(k2, o2, i)'
  BY <1>0, <1>a, <1>b, <1>c1, <1>c2, <1>d DEF Shape, PlaceType, GhostType
<1>22. GhostType(k2, o2, i, l)'
  BY <1>0, <1>a, <1>b, <1>c1, <1>c2, <1>d DEF GhostType, Kinds
<1>23. Inv(k2, o2, i, l)'
  BY <1>1, <1>3, <1>4, <1>5, <1>6, <1>7, <1>8, <1>9, <1>10, <1>11, <1>12, <1>13, <1>14,
     <1>15, <1>16, <1>17, <1>18, <1>19, <1>20, <1>21, <1>22
  DEF Inv, Shape
<1>24. QED
  BY <1>23

\* CallRealloc: the old buffer is kept while a new one is allocated.
LEMMA CallReallocStep ==
  ASSUME NEW k, NEW o, NEW i, NEW l, Inv(k, o, i, l), NEW t \in Threads,
         CallRealloc(t), UNCHANGED aborted
  PROVE  \E k2, o2, i2, l2 : Inv(k2, o2, i2, l2)'
<1>0. TypeOK /\ Items /\ Control /\ GhostType(k, o, i, l) /\ Shape(k, o, i, l)
  BY DEF Inv
<1>1a. PICK b \in held : held' = held \ {b} /\ arg' = [arg EXCEPT ![t] = b]
  BY DEF CallRealloc
<1> DEFINE k2 == [k EXCEPT ![b] = "arg"]
           o2 == [o EXCEPT ![b] = t]
<1> HIDE DEF k2, o2
<1>a. pc[t] = "idle" /\ op' = [op EXCEPT ![t] = "realloc"] /\ pc' = [pc EXCEPT ![t] = "readhead"]
  BY DEF CallRealloc
<1>b. UNCHANGED <<tag, status, pool, super, pos, bufs, next, head, buf, curr, stack, aborted>>
  BY DEF CallRealloc, heapVars, mapVars
<1>c1. b \in Buffers /\ b # Null
  BY <1>0, NullAssumption DEF TypeOK
<1>c2. k[b] = "held"
  BY <1>0, <1>c1 DEF Shape, HeldAt
<1>c3. arg[t] = Null
  BY <1>0, <1>a DEF Control
<1>d. k2 = [k EXCEPT ![b] = "arg"] /\ o2 = [o EXCEPT ![b] = t]
  BY DEF k2, o2
<1>e. held' = held \ {b} /\ arg' = [arg EXCEPT ![t] = b]
  BY <1>1a
<1>1. TypeOK'
  BY <1>0, <1>a, <1>b, <1>c1, <1>c2, <1>d, <1>e DEF TypeOK, PCs
<1>2. \A u \in Threads : Frame(u)
  BY <1>0, Frames, <1>a, <1>b, <1>c1, <1>c2, <1>d DEF TypeOK, Sending
<1>3. Items'
  BY <1>0, <1>2, <1>a, <1>b, <1>c1, <1>c2, <1>d DEF Items, TypeOK, Frame
<1>4. Control'
  BY <1>0, <1>2, <1>a, <1>b, <1>c1, <1>c2, <1>d, <1>e DEF Control, TypeOK, Frame
<1>5. FreshAt(k2)'
  BY <1>0, <1>a, <1>b, <1>c1, <1>c2, <1>d DEF Shape, FreshAt, TypeOK, GhostType
<1>6. HeldAt(k2)'
  BY <1>0, <1>a, <1>b, <1>c1, <1>c2, <1>d, <1>e DEF Shape, HeldAt, TypeOK, GhostType
<1>7. PoolAt(k2, o2)'
  BY <1>0, <1>a, <1>b, <1>c1, <1>c2, <1>d DEF Shape, PoolAt, TypeOK, GhostType
<1>8. ArgAt(k2, o2)'
  BY <1>0, <1>a, <1>b, <1>c1, <1>c2, <1>c3, <1>d, <1>e, NullAssumption DEF Shape, ArgAt, TypeOK, GhostType
<1>9. BufAt(k2, o2)'
  BY <1>0, <1>a, <1>b, <1>c1, <1>c2, <1>d, <1>e DEF Shape, BufAt, TypeOK, GhostType
<1>10. SuperAt(k2, o2, i)'
  BY <1>0, <1>2, <1>a, <1>b, <1>c1, <1>c2, <1>d DEF Shape, SuperAt, TypeOK, GhostType, Frame
<1>11. SlotAt(k2, o2, i)'
  BY <1>0, <1>a, <1>b, <1>c1, <1>c2, <1>d DEF Shape, SlotAt, TypeOK, GhostType
<1>12. HeadAt(k2, o2)'
  BY <1>0, <1>a, <1>b, <1>c1, <1>c2, <1>d DEF Shape, HeadAt, TypeOK, GhostType
<1>13. NextAt(k2, o2)'
  BY <1>0, <1>2, <1>a, <1>b, <1>c1, <1>c2, <1>d DEF Shape, NextAt, TypeOK, GhostType, Frame
<1>14. CurrAt(k2, o2)'
  BY <1>0, <1>a, <1>b, <1>c1, <1>c2, <1>d DEF Shape, CurrAt, TypeOK, GhostType
<1>15. StackAt(k2, o2, i)'
  BY <1>0, <1>a, <1>b, <1>c1, <1>c2, <1>d DEF Shape, StackAt, TypeOK, GhostType
<1>16. Filled(k2, o2, i)'
  BY <1>0, <1>2, <1>a, <1>b, <1>c1, <1>c2, <1>d DEF Shape, Filled, PlaceType, TypeOK, GhostType, Listed, Frame
<1>17. ListIds(k2, o2, l)'
  BY <1>0, <1>a, <1>b, <1>c1, <1>c2, <1>d DEF Shape, ListIds, GhostType, PlaceType, Listed
<1>18. Detaching(k2, l)'
  BY <1>0, <1>a, <1>b, <1>c1, <1>c2, <1>d DEF Shape, Detaching, TypeOK, GhostType
<1>19. Statuses(k2, o2)'
  BY <1>0, <1>a, <1>b, <1>c1, <1>c2, <1>d DEF Shape, Statuses, BufAt, TypeOK, GhostType, PlaceType, Listed
<1>20. DistinctAddresses' => Homes(k2, o2, i, l)'
  BY <1>0, <1>a, <1>b, <1>c1, <1>c2, <1>d
  DEF Shape, Homes, TypeOK, GhostType, PlaceType, DistinctAddresses, Listed
<1>21. PlaceType(k2, o2, i)'
  BY <1>0, <1>a, <1>b, <1>c1, <1>c2, <1>d DEF Shape, PlaceType, GhostType
<1>22. GhostType(k2, o2, i, l)'
  BY <1>0, <1>a, <1>b, <1>c1, <1>c2, <1>d DEF GhostType, Kinds
<1>23. Inv(k2, o2, i, l)'
  BY <1>1, <1>3, <1>4, <1>5, <1>6, <1>7, <1>8, <1>9, <1>10, <1>11, <1>12, <1>13, <1>14,
     <1>15, <1>16, <1>17, <1>18, <1>19, <1>20, <1>21, <1>22
  DEF Inv, Shape
<1>24. QED
  BY <1>23

\* What TakeUnit finds and does: g is fresh, b is one of them or of the pool.
LEMMA TakeUnitFacts ==
  ASSUME NEW k, NEW o, NEW i, NEW l, Inv(k, o, i, l), NEW t \in Threads,
         NEW g, NEW b, TakeUnit(t, g, b)
  PROVE  /\ g \subseteq Buffers /\ b \in Buffers /\ b # Null
         /\ \A x \in g : k[x] = "fresh" /\ tag[x] = Null /\ status[x] = 0
         /\ b \in g \/ (k[b] = "pool" /\ o[b] = t /\ tag[b] # Null)
         /\ tag' = [x \in Buffers |-> IF x \in g THEN t ELSE tag[x]]
         /\ status' = [status EXCEPT ![b] = 2]
         /\ pool' = [pool EXCEPT ![t] = (@ \cup g) \ {b}]
         /\ \A x \in Buffers : tag[x] # Null => tag'[x] = tag[x] /\ tag'[x] # Null
         /\ tag' \in [Buffers -> Threads \cup {Null}]
         /\ status' \in [Buffers -> 0..2]
         /\ pool' \in [Threads -> SUBSET Buffers]
         /\ next[b] = Null /\ \A j \in Slots : bufs[b][j] = Null
<1>0. TypeOK /\ Shape(k, o, i, l)
  BY DEF Inv
<1>1. tag' = [x \in Buffers |-> IF x \in g THEN t ELSE tag[x]] /\ status' = [status EXCEPT ![b] = 2]
      /\ pool' = [pool EXCEPT ![t] = (@ \cup g) \ {b}]
  BY DEF TakeUnit
<1>2. g \subseteq Fresh /\ b \in pool[t] \cup g
  BY DEF TakeUnit, Carvable
<1>3. g \subseteq Buffers /\ b \in Buffers /\ b # Null
  BY <1>0, <1>2, NullAssumption DEF Fresh, TypeOK
<1>4. \A x \in g : k[x] = "fresh" /\ tag[x] = Null /\ status[x] = 0
  BY <1>0, <1>2 DEF Fresh, Shape, FreshAt, Statuses
<1>5. b \in g \/ (k[b] = "pool" /\ o[b] = t /\ tag[b] # Null)
  BY <1>0, <1>2, <1>3 DEF Shape, FreshAt, PoolAt
<1>6. \A x \in Buffers : tag[x] # Null => tag'[x] = tag[x] /\ tag'[x] # Null
  BY <1>1, <1>4
<1>7. next[b] = Null /\ \A j \in Slots : bufs[b][j] = Null
  BY <1>0, <1>3, <1>4, <1>5 DEF Shape, Filled, Listed
<1>8. tag' \in [Buffers -> Threads \cup {Null}]
  BY <1>0, <1>1 DEF TypeOK
<1>9. status' \in [Buffers -> 0..2]
  BY <1>0, <1>1, <1>3 DEF TypeOK
<1>10. pool' \in [Threads -> SUBSET Buffers]
  BY <1>0, <1>1, <1>3 DEF TypeOK
<1>11. QED
  BY <1>1, <1>3, <1>4, <1>5, <1>6, <1>7, <1>8, <1>9, <1>10

\* Alloc in _tmalloc: a unit of the pool, or a fresh one, goes to the caller.
LEMMA AllocMallocStep ==
  ASSUME NEW k, NEW o, NEW i, NEW l, Inv(k, o, i, l), NEW t \in Threads,
         Alloc(t), op[t] = "malloc", UNCHANGED aborted
  PROVE  \E k2, o2, i2, l2 : Inv(k2, o2, i2, l2)'
<1>0. TypeOK /\ Items /\ Control /\ GhostType(k, o, i, l) /\ Shape(k, o, i, l)
  BY DEF Inv
<1>1a. PICK g, b : TakeUnit(t, g, b) /\ held' = held \cup {b}
  BY DEF Alloc
<1> DEFINE k2 == [x \in Buffers |-> IF x = b THEN "held" ELSE IF x \in g THEN "pool" ELSE k[x]]
           o2 == [x \in Buffers |-> IF x = b \/ x \in g THEN t ELSE o[x]]
<1> HIDE DEF k2, o2
<1>t1. g \subseteq Buffers /\ b \in Buffers /\ b # Null
  BY <1>1a, TakeUnitFacts
<1>t2. \A x \in g : k[x] = "fresh" /\ tag[x] = Null /\ status[x] = 0
  BY <1>1a, TakeUnitFacts
<1>t3. b \in g \/ (k[b] = "pool" /\ o[b] = t /\ tag[b] # Null)
  BY <1>1a, TakeUnitFacts
<1>t4. tag' = [x \in Buffers |-> IF x \in g THEN t ELSE tag[x]]
  BY <1>1a, TakeUnitFacts
<1>t5. status' = [status EXCEPT ![b] = 2]
  BY <1>1a, TakeUnitFacts
<1>t6. pool' = [pool EXCEPT ![t] = (@ \cup g) \ {b}]
  BY <1>1a, TakeUnitFacts
<1>t7. \A x \in Buffers : tag[x] # Null => tag'[x] = tag[x] /\ tag'[x] # Null
  BY <1>1a, TakeUnitFacts
<1>t8. tag' \in [Buffers -> Threads \cup {Null}] /\ status' \in [Buffers -> 0..2]
       /\ pool' \in [Threads -> SUBSET Buffers]
  BY <1>1a, TakeUnitFacts
<1>t9. next[b] = Null /\ \A j \in Slots : bufs[b][j] = Null
  BY <1>1a, TakeUnitFacts
<1>a. pc[t] = "alloc" /\ op' = [op EXCEPT ![t] = "none"] /\ pc' = [pc EXCEPT ![t] = "idle"]
  BY DEF Alloc
<1>b. UNCHANGED <<super, pos, bufs, next, head, arg, buf, curr, stack, aborted>>
  BY DEF Alloc, mapVars
<1>c. /\ k2 = [x \in Buffers |-> IF x = b THEN "held" ELSE IF x \in g THEN "pool" ELSE k[x]]
      /\ o2 = [x \in Buffers |-> IF x = b \/ x \in g THEN t ELSE o[x]]
  BY DEF k2, o2
<1>e. held' = held \cup {b}
  BY <1>1a
<1>f. \A x \in Buffers : k[x] \in {"super", "slot", "head", "next", "curr", "stack"} \/ k2[x] \in {"super", "slot", "head", "next", "curr", "stack"}
      => k2[x] = k[x] /\ o2[x] = o[x]
  BY <1>t1, <1>t2, <1>t3, <1>c
<1>f2. \A u \in Threads : Sending(u) => tag'[buf[u]] = tag[buf[u]]
  BY <1>0, <1>t7, NullAssumption DEF Control
<1>1. TypeOK'
  BY <1>0, <1>t1, <1>t8, <1>a, <1>b, <1>e DEF TypeOK, PCs
<1>2. \A u \in Threads : Frame(u)
  BY <1>0, Frames, <1>a, <1>b, <1>f2 DEF TypeOK, Sending
<1>3. Items'
  BY <1>0, <1>2, <1>a, <1>b DEF Items, TypeOK, Frame
<1>4. Control'
  BY <1>0, <1>2, <1>t7, <1>t8, <1>a, <1>b, NullAssumption DEF Control, TypeOK, Frame
<1>5. FreshAt(k2)'
  BY <1>0, <1>t1, <1>t2, <1>t3, <1>t4, <1>a, <1>b, <1>c, NullAssumption DEF Shape, FreshAt, TypeOK, GhostType
<1>6. HeldAt(k2)'
  BY <1>0, <1>t1, <1>t2, <1>t3, <1>a, <1>b, <1>c, <1>e DEF Shape, HeldAt, TypeOK, GhostType
<1>7. PoolAt(k2, o2)'
  BY <1>0, <1>t1, <1>t2, <1>t3, <1>t6, <1>a, <1>b, <1>c DEF Shape, PoolAt, TypeOK, GhostType
<1>8. ArgAt(k2, o2)'
  BY <1>0, <1>t1, <1>t2, <1>t3, <1>a, <1>b, <1>c DEF Shape, ArgAt, TypeOK, GhostType
<1>9. BufAt(k2, o2)'
  BY <1>0, <1>t1, <1>t2, <1>t3, <1>a, <1>b, <1>c DEF Shape, BufAt, TypeOK, GhostType
<1>10. SuperAt(k2, o2, i)'
  BY <1>0, <1>2, <1>a, <1>b, <1>f DEF Shape, SuperAt, TypeOK, GhostType, Frame
<1>11. SlotAt(k2, o2, i)'
  BY <1>0, <1>a, <1>b, <1>f DEF Shape, SlotAt, TypeOK, GhostType
<1>12. HeadAt(k2, o2)'
  BY <1>0, <1>a, <1>b, <1>f DEF Shape, HeadAt, TypeOK, GhostType
<1>13. NextAt(k2, o2)'
  BY <1>0, <1>2, <1>a, <1>b, <1>f DEF Shape, NextAt, TypeOK, GhostType, Frame
<1>14. CurrAt(k2, o2)'
  BY <1>0, <1>a, <1>b, <1>f DEF Shape, CurrAt, TypeOK, GhostType
<1>15. StackAt(k2, o2, i)'
  BY <1>0, <1>a, <1>b, <1>f DEF Shape, StackAt, TypeOK, GhostType
<1>16. Filled(k2, o2, i)'
  BY <1>0, <1>2, <1>t9, <1>a, <1>b, <1>f DEF Shape, Filled, PlaceType, TypeOK, GhostType, Listed, Frame
<1>17. ListIds(k2, o2, l)'
  BY <1>0, <1>a, <1>b, <1>f DEF Shape, ListIds, GhostType, PlaceType, Listed
<1>18. Detaching(k2, l)'
  BY <1>0, <1>a, <1>b, <1>f DEF Shape, Detaching, TypeOK, GhostType
<1>19. Statuses(k2, o2)'
  BY <1>0, <1>t1, <1>t2, <1>t3, <1>t5, <1>a, <1>b, <1>c
  DEF Shape, Statuses, BufAt, TypeOK, GhostType, PlaceType, Listed
<1>20. DistinctAddresses' => Homes(k2, o2, i, l)'
  BY <1>0, <1>t1, <1>t2, <1>t3, <1>t4, <1>a, <1>b, <1>c, <1>f
  DEF Shape, Homes, TypeOK, GhostType, PlaceType, DistinctAddresses, Listed
<1>21. PlaceType(k2, o2, i)'
  BY <1>0, <1>t1, <1>t2, <1>t3, <1>a, <1>b, <1>c DEF Shape, PlaceType, GhostType
<1>22. GhostType(k2, o2, i, l)'
  BY <1>0, <1>t1, <1>t2, <1>t3, <1>a, <1>b, <1>c DEF GhostType, Kinds
<1>23. Inv(k2, o2, i, l)'
  BY <1>1, <1>3, <1>4, <1>5, <1>6, <1>7, <1>8, <1>9, <1>10, <1>11, <1>12, <1>13, <1>14,
     <1>15, <1>16, <1>17, <1>18, <1>19, <1>20, <1>21, <1>22
  DEF Inv, Shape
<1>24. QED
  BY <1>23

\* Alloc in _trealloc: the new unit is kept for the caller, the old one goes to
\* _tfree.
LEMMA AllocReallocStep ==
  ASSUME NEW k, NEW o, NEW i, NEW l, Inv(k, o, i, l), NEW t \in Threads,
         Alloc(t), op[t] = "realloc", UNCHANGED aborted
  PROVE  \E k2, o2, i2, l2 : Inv(k2, o2, i2, l2)'
<1>0. TypeOK /\ Items /\ Control /\ GhostType(k, o, i, l) /\ Shape(k, o, i, l)
  BY DEF Inv
<1>1a. PICK g, b : TakeUnit(t, g, b) /\ arg' = [arg EXCEPT ![t] = b]
  BY DEF Alloc
<1>1b. PICK a : a = arg[t]
  OBVIOUS
<1> DEFINE k2 == [x \in Buffers |-> IF x = b THEN "arg" ELSE IF x = a THEN "buf"
                                    ELSE IF x \in g THEN "pool" ELSE k[x]]
           o2 == [x \in Buffers |-> IF x = b \/ x = a \/ x \in g THEN t ELSE o[x]]
<1> HIDE DEF k2, o2
<1>t1. g \subseteq Buffers /\ b \in Buffers /\ b # Null
  BY <1>1a, TakeUnitFacts
<1>t2. \A x \in g : k[x] = "fresh" /\ tag[x] = Null /\ status[x] = 0
  BY <1>1a, TakeUnitFacts
<1>t3. b \in g \/ (k[b] = "pool" /\ o[b] = t /\ tag[b] # Null)
  BY <1>1a, TakeUnitFacts
<1>t4. tag' = [x \in Buffers |-> IF x \in g THEN t ELSE tag[x]]
  BY <1>1a, TakeUnitFacts
<1>t5. status' = [status EXCEPT ![b] = 2]
  BY <1>1a, TakeUnitFacts
<1>t6. pool' = [pool EXCEPT ![t] = (@ \cup g) \ {b}]
  BY <1>1a, TakeUnitFacts
<1>t7. \A x \in Buffers : tag[x] # Null => tag'[x] = tag[x] /\ tag'[x] # Null
  BY <1>1a, TakeUnitFacts
<1>t8. tag' \in [Buffers -> Threads \cup {Null}] /\ status' \in [Buffers -> 0..2]
       /\ pool' \in [Threads -> SUBSET Buffers]
  BY <1>1a, TakeUnitFacts
<1>t9. next[b] = Null /\ \A j \in Slots : bufs[b][j] = Null
  BY <1>1a, TakeUnitFacts
<1>a. pc[t] = "alloc" /\ op' = [op EXCEPT ![t] = "free"] /\ pc' = [pc EXCEPT ![t] = "tfree"]
  BY DEF Alloc
<1>b. UNCHANGED <<super, pos, bufs, next, head, held, curr, stack, aborted>>
  BY DEF Alloc, mapVars
<1>c. /\ k2 = [x \in Buffers |-> IF x = b THEN "arg" ELSE IF x = a THEN "buf"
                                    ELSE IF x \in g THEN "pool" ELSE k[x]]
      /\ o2 = [x \in Buffers |-> IF x = b \/ x = a \/ x \in g THEN t ELSE o[x]]
  BY DEF k2, o2
<1>d. arg' = [arg EXCEPT ![t] = b] /\ buf' = [buf EXCEPT ![t] = a]
  BY <1>1a, <1>1b DEF Alloc
<1>e1. a \in Buffers
  BY <1>0, <1>1b DEF Control, TypeOK
<1>e2. k[a] = "arg" /\ o[a] = t
  BY <1>0, <1>1b, <1>e1 DEF Shape, ArgAt
<1>e3. a # b /\ a \notin g
  BY <1>e2, <1>t2, <1>t3
<1>e4. tag[a] # Null /\ tag[a] \in Threads /\ tag'[a] \in Threads /\ status[a] = 2
  BY <1>0, <1>e1, <1>e2, <1>e3, <1>t4 DEF Shape, FreshAt, TypeOK, Statuses
<1>f. \A x \in Buffers : k[x] \in {"held", "super", "slot", "head", "next", "curr", "stack"} \/ k2[x] \in {"held", "super", "slot", "head", "next", "curr", "stack"}
      => k2[x] = k[x] /\ o2[x] = o[x]
  BY <1>t1, <1>t2, <1>t3, <1>e1, <1>e2, <1>c
<1>f2. \A u \in Threads : Sending(u) => tag'[buf[u]] = tag[buf[u]]
  BY <1>0, <1>t7, NullAssumption DEF Control
<1>1. TypeOK'
  BY <1>0, <1>t1, <1>t8, <1>a, <1>b, <1>d, <1>e1 DEF TypeOK, PCs
<1>2. \A u \in Threads : Frame(u)
  BY <1>0, Frames, <1>a, <1>b, <1>d, <1>f2 DEF TypeOK, Sending
<1>3. Items'
  BY <1>0, <1>2, <1>a, <1>b DEF Items, TypeOK, Frame
<1>4. Control'
  BY <1>0, <1>2, <1>t7, <1>t8, <1>a, <1>b, <1>d, <1>e1, <1>e4, NullAssumption DEF Control, TypeOK, Frame
<1>5. FreshAt(k2)'
  BY <1>0, <1>t1, <1>t2, <1>t3, <1>t4, <1>a, <1>b, <1>c, <1>e1, <1>e2, <1>e3, <1>e4, NullAssumption
  DEF Shape, FreshAt, TypeOK, GhostType
<1>6. HeldAt(k2)'
  BY <1>0, <1>t1, <1>t2, <1>t3, <1>a, <1>b, <1>c, <1>e1, <1>e2, <1>e3 DEF Shape, HeldAt, TypeOK, GhostType
<1>7. PoolAt(k2, o2)'
  BY <1>0, <1>t1, <1>t2, <1>t3, <1>t6, <1>a, <1>b, <1>c, <1>e1, <1>e2, <1>e3
  DEF Shape, PoolAt, TypeOK, GhostType
<1>8. ArgAt(k2, o2)'
  BY <1>0, <1>t1, <1>t2, <1>t3, <1>a, <1>b, <1>c, <1>d, <1>e1, <1>e2, <1>e3, <1>1b
  DEF Shape, ArgAt, TypeOK, GhostType
<1>9. BufAt(k2, o2)'
  BY <1>0, <1>t1, <1>t2, <1>t3, <1>a, <1>b, <1>c, <1>d, <1>e1, <1>e2, <1>e3
  DEF Shape, BufAt, TypeOK, GhostType
<1>10. SuperAt(k2, o2, i)'
  BY <1>0, <1>2, <1>a, <1>b, <1>f DEF Shape, SuperAt, TypeOK, GhostType, Frame
<1>11. SlotAt(k2, o2, i)'
  BY <1>0, <1>a, <1>b, <1>f DEF Shape, SlotAt, TypeOK, GhostType
<1>12. HeadAt(k2, o2)'
  BY <1>0, <1>a, <1>b, <1>f DEF Shape, HeadAt, TypeOK, GhostType
<1>13. NextAt(k2, o2)'
  BY <1>0, <1>2, <1>a, <1>b, <1>f DEF Shape, NextAt, TypeOK, GhostType, Frame
<1>14. CurrAt(k2, o2)'
  BY <1>0, <1>a, <1>b, <1>f DEF Shape, CurrAt, TypeOK, GhostType
<1>15. StackAt(k2, o2, i)'
  BY <1>0, <1>a, <1>b, <1>f DEF Shape, StackAt, TypeOK, GhostType
<1>16. Filled(k2, o2, i)'
  BY <1>0, <1>2, <1>t9, <1>a, <1>b, <1>e1, <1>e2, <1>e3, <1>f
  DEF Shape, Filled, PlaceType, TypeOK, GhostType, Listed, Frame
<1>17. ListIds(k2, o2, l)'
  BY <1>0, <1>a, <1>b, <1>f DEF Shape, ListIds, GhostType, PlaceType, Listed
<1>18. Detaching(k2, l)'
  BY <1>0, <1>a, <1>b, <1>f DEF Shape, Detaching, TypeOK, GhostType
<1>19. Statuses(k2, o2)'
  BY <1>0, <1>t1, <1>t2, <1>t3, <1>t5, <1>a, <1>b, <1>c, <1>e1, <1>e2, <1>e3, <1>e4
  DEF Shape, Statuses, BufAt, TypeOK, GhostType, PlaceType, Listed
<1>20. DistinctAddresses' => Homes(k2, o2, i, l)'
  BY <1>0, <1>t1, <1>t2, <1>t3, <1>t4, <1>a, <1>b, <1>c, <1>e1, <1>e2, <1>e3, <1>f
  DEF Shape, Homes, TypeOK, GhostType, PlaceType, DistinctAddresses, Listed
<1>21. PlaceType(k2, o2, i)'
  BY <1>0, <1>t1, <1>t2, <1>t3, <1>a, <1>b, <1>c, <1>e1, <1>e2, <1>e3 DEF Shape, PlaceType, GhostType
<1>22. GhostType(k2, o2, i, l)'
  BY <1>0, <1>t1, <1>t2, <1>t3, <1>a, <1>b, <1>c, <1>e1 DEF GhostType, Kinds
<1>23. Inv(k2, o2, i, l)'
  BY <1>1, <1>3, <1>4, <1>5, <1>6, <1>7, <1>8, <1>9, <1>10, <1>11, <1>12, <1>13, <1>14,
     <1>15, <1>16, <1>17, <1>18, <1>19, <1>20, <1>21, <1>22
  DEF Inv, Shape
<1>24. QED
  BY <1>23

\* ResumeMalloc: drained and no superbuffer suspended, _tmalloc goes on to its unit.
LEMMA ResumeMallocStep ==
  ASSUME NEW k, NEW o, NEW i, NEW l, Inv(k, o, i, l), NEW t \in Threads,
         ResumeMalloc(t), UNCHANGED aborted
  PROVE  \E k2, o2, i2, l2 : Inv(k2, o2, i2, l2)'
<1>0. TypeOK /\ Items /\ Control /\ GhostType(k, o, i, l) /\ Shape(k, o, i, l)
  BY DEF Inv
<1>a. pc[t] = "return" /\ pc' = [pc EXCEPT ![t] = "alloc"]
  BY DEF ResumeMalloc
<1>b. UNCHANGED <<tag, status, pool, super, pos, bufs, next, head, held, op, arg, buf, curr, stack, aborted>>
  BY DEF ResumeMalloc, heapVars, mapVars, callVars
<1>e. op[t] \in {"malloc", "realloc"}
  BY DEF ResumeMalloc
<1>1. TypeOK'
  BY <1>0, <1>a, <1>b DEF TypeOK, PCs
<1>2. \A u \in Threads : Frame(u)
  BY <1>0, Frames, <1>a, <1>b DEF TypeOK, Sending
<1>3. Items'
  BY <1>0, <1>2, <1>a, <1>b DEF Items, TypeOK, Frame
<1>4. Control'
  BY <1>0, <1>2, <1>a, <1>b, <1>e DEF Control, TypeOK, Frame
<1>5. FreshAt(k)'
  BY <1>0, <1>a, <1>b DEF Shape, FreshAt, TypeOK, GhostType
<1>6. HeldAt(k)'
  BY <1>0, <1>a, <1>b DEF Shape, HeldAt, TypeOK, GhostType
<1>7. PoolAt(k, o)'
  BY <1>0, <1>a, <1>b DEF Shape, PoolAt, TypeOK, GhostType
<1>8. ArgAt(k, o)'
  BY <1>0, <1>a, <1>b DEF Shape, ArgAt, TypeOK, GhostType
<1>9. BufAt(k, o)'
  BY <1>0, <1>a, <1>b DEF Shape, BufAt, TypeOK, GhostType
<1>10. SuperAt(k, o, i)'
  BY <1>0, <1>2, <1>a, <1>b DEF Shape, SuperAt, TypeOK, GhostType, Frame
<1>11. SlotAt(k, o, i)'
  BY <1>0, <1>a, <1>b DEF Shape, SlotAt, TypeOK, GhostType
<1>12. HeadAt(k, o)'
  BY <1>0, <1>a, <1>b DEF Shape, HeadAt, TypeOK, GhostType
<1>13. NextAt(k, o)'
  BY <1>0, <1>2, <1>a, <1>b DEF Shape, NextAt, TypeOK, GhostType, Frame
<1>14. CurrAt(k, o)'
  BY <1>0, <1>a, <1>b DEF Shape, CurrAt, TypeOK, GhostType
<1>15. StackAt(k, o, i)'
  BY <1>0, <1>a, <1>b DEF Shape, StackAt, TypeOK, GhostType
<1>16. Filled(k, o, i)'
  BY <1>0, <1>2, <1>a, <1>b DEF Shape, Filled, PlaceType, TypeOK, GhostType, Listed, Frame
<1>17. ListIds(k, o, l)'
  BY <1>0, <1>a, <1>b DEF Shape, ListIds, GhostType, PlaceType, Listed
<1>18. Detaching(k, l)'
  BY <1>0, <1>a, <1>b DEF Shape, Detaching, TypeOK, GhostType
<1>19. Statuses(k, o)'
  BY <1>0, <1>a, <1>b DEF Shape, Statuses, BufAt, TypeOK, GhostType, PlaceType, Listed
<1>20. DistinctAddresses' => Homes(k, o, i, l)'
  BY <1>0, <1>a, <1>b DEF Shape, Homes, TypeOK, GhostType, PlaceType, DistinctAddresses, Listed
<1>21. PlaceType(k, o, i)'
  BY <1>0, <1>a, <1>b DEF Shape, PlaceType, GhostType
<1>22. GhostType(k, o, i, l)'
  BY <1>0, <1>a, <1>b DEF GhostType, Kinds
<1>23. Inv(k, o, i, l)'
  BY <1>1, <1>3, <1>4, <1>5, <1>6, <1>7, <1>8, <1>9, <1>10, <1>11, <1>12, <1>13, <1>14,
     <1>15, <1>16, <1>17, <1>18, <1>19, <1>20, <1>21, <1>22
  DEF Inv, Shape
<1>24. QED
  BY <1>23

\* ReadHead: the thread knows the head of its list.
LEMMA ReadHeadStep ==
  ASSUME NEW k, NEW o, NEW i, NEW l, Inv(k, o, i, l), NEW t \in Threads,
         ReadHead(t), UNCHANGED aborted
  PROVE  \E k2, o2, i2, l2 : Inv(k2, o2, i2, l2)'
<1>0. TypeOK /\ Items /\ Control /\ GhostType(k, o, i, l) /\ Shape(k, o, i, l)
  BY DEF Inv
<1>a. pc[t] = "readhead"
  BY DEF ReadHead
<1>b. UNCHANGED <<tag, status, pool, super, pos, bufs, next, head, held, op, arg, buf, stack, aborted>>
  BY DEF ReadHead, heapVars, mapVars, callVars
<1>c. pc' = [pc EXCEPT ![t] = IF head[t] = Null THEN "return" ELSE "detach"]
      /\ curr' = [curr EXCEPT ![t] = head[t]]
  BY DEF ReadHead
<1>d1. head[t] # Null => head[t] \in Buffers
  BY <1>0 DEF TypeOK
<1>d2. head[t] # Null => k[head[t]] = "head" /\ o[head[t]] = t
  BY <1>0, <1>d1 DEF Shape, HeadAt
<1>d3. head[t] # Null => k[head[t]] = "head" /\ l[head[t]] = t
  BY <1>0, <1>d1, <1>d2 DEF Shape, ListIds
<1>1. TypeOK'
  BY <1>0, <1>a, <1>b, <1>c DEF TypeOK, PCs
<1>2. \A u \in Threads : Frame(u)
  BY <1>0, Frames, <1>a, <1>b, <1>c DEF TypeOK, Sending
<1>3. Items'
  BY <1>0, <1>2, <1>a, <1>b, <1>c DEF Items, TypeOK, Frame
<1>4. Control'
  BY <1>0, <1>2, <1>a, <1>b, <1>c DEF Control, TypeOK, Frame
<1>5. FreshAt(k)'
  BY <1>0, <1>a, <1>b, <1>c DEF Shape, FreshAt, TypeOK, GhostType
<1>6. HeldAt(k)'
  BY <1>0, <1>a, <1>b, <1>c DEF Shape, HeldAt, TypeOK, GhostType
<1>7. PoolAt(k, o)'
  BY <1>0, <1>a, <1>b, <1>c DEF Shape, PoolAt, TypeOK, GhostType
<1>8. ArgAt(k, o)'
  BY <1>0, <1>a, <1>b, <1>c DEF Shape, ArgAt, TypeOK, GhostType
<1>9. BufAt(k, o)'
  BY <1>0, <1>a, <1>b, <1>c DEF Shape, BufAt, TypeOK, GhostType
<1>10. SuperAt(k, o, i)'
  BY <1>0, <1>2, <1>a, <1>b, <1>c DEF Shape, SuperAt, TypeOK, GhostType, Frame
<1>11. SlotAt(k, o, i)'
  BY <1>0, <1>a, <1>b, <1>c DEF Shape, SlotAt, TypeOK, GhostType
<1>12. HeadAt(k, o)'
  BY <1>0, <1>a, <1>b, <1>c DEF Shape, HeadAt, TypeOK, GhostType
<1>13. NextAt(k, o)'
  BY <1>0, <1>2, <1>a, <1>b, <1>c DEF Shape, NextAt, TypeOK, GhostType, Frame
<1>14. CurrAt(k, o)'
  BY <1>0, <1>a, <1>b, <1>c DEF Shape, CurrAt, TypeOK, GhostType
<1>15. StackAt(k, o, i)'
  BY <1>0, <1>a, <1>b, <1>c DEF Shape, StackAt, TypeOK, GhostType
<1>16. Filled(k, o, i)'
  BY <1>0, <1>2, <1>a, <1>b, <1>c DEF Shape, Filled, PlaceType, TypeOK, GhostType, Listed, Frame
<1>17. ListIds(k, o, l)'
  BY <1>0, <1>a, <1>b, <1>c DEF Shape, ListIds, GhostType, PlaceType, Listed
<1>18. Detaching(k, l)'
  BY <1>0, <1>a, <1>b, <1>c, <1>d1, <1>d3 DEF Shape, Detaching, TypeOK, GhostType
<1>19. Statuses(k, o)'
  BY <1>0, <1>a, <1>b, <1>c DEF Shape, Statuses, BufAt, TypeOK, GhostType, PlaceType, Listed
<1>20. DistinctAddresses' => Homes(k, o, i, l)'
  BY <1>0, <1>a, <1>b, <1>c DEF Shape, Homes, TypeOK, GhostType, PlaceType, DistinctAddresses, Listed
<1>21. PlaceType(k, o, i)'
  BY <1>0, <1>a, <1>b, <1>c DEF Shape, PlaceType, GhostType
<1>22. GhostType(k, o, i, l)'
  BY <1>0, <1>a, <1>b, <1>c DEF GhostType, Kinds
<1>23. Inv(k, o, i, l)'
  BY <1>1, <1>3, <1>4, <1>5, <1>6, <1>7, <1>8, <1>9, <1>10, <1>11, <1>12, <1>13, <1>14,
     <1>15, <1>16, <1>17, <1>18, <1>19, <1>20, <1>21, <1>22
  DEF Inv, Shape
<1>24. QED
  BY <1>23

\* DrainDone: no superbuffer is left, and _TMfreelist returns.
LEMMA DrainDoneStep ==
  ASSUME NEW k, NEW o, NEW i, NEW l, Inv(k, o, i, l), NEW t \in Threads,
         DrainDone(t), UNCHANGED aborted
  PROVE  \E k2, o2, i2, l2 : Inv(k2, o2, i2, l2)'
<1>0. TypeOK /\ Items /\ Control /\ GhostType(k, o, i, l) /\ Shape(k, o, i, l)
  BY DEF Inv
<1>a. pc[t] = "drain" /\ pc' = [pc EXCEPT ![t] = "return"]
  BY DEF DrainDone
<1>b. UNCHANGED <<tag, status, pool, super, pos, bufs, next, head, held, op, arg, buf, curr, stack, aborted>>
  BY DEF DrainDone, heapVars, mapVars, callVars
<1>e. curr[t] = Null
  BY DEF DrainDone
<1>1. TypeOK'
  BY <1>0, <1>a, <1>b DEF TypeOK, PCs
<1>2. \A u \in Threads : Frame(u)
  BY <1>0, Frames, <1>a, <1>b DEF TypeOK, Sending
<1>3. Items'
  BY <1>0, <1>2, <1>a, <1>b DEF Items, TypeOK, Frame
<1>4. Control'
  BY <1>0, <1>2, <1>a, <1>b DEF Control, TypeOK, Frame
<1>5. FreshAt(k)'
  BY <1>0, <1>a, <1>b DEF Shape, FreshAt, TypeOK, GhostType
<1>6. HeldAt(k)'
  BY <1>0, <1>a, <1>b DEF Shape, HeldAt, TypeOK, GhostType
<1>7. PoolAt(k, o)'
  BY <1>0, <1>a, <1>b DEF Shape, PoolAt, TypeOK, GhostType
<1>8. ArgAt(k, o)'
  BY <1>0, <1>a, <1>b DEF Shape, ArgAt, TypeOK, GhostType
<1>9. BufAt(k, o)'
  BY <1>0, <1>a, <1>b DEF Shape, BufAt, TypeOK, GhostType
<1>10. SuperAt(k, o, i)'
  BY <1>0, <1>2, <1>a, <1>b DEF Shape, SuperAt, TypeOK, GhostType, Frame
<1>11. SlotAt(k, o, i)'
  BY <1>0, <1>a, <1>b DEF Shape, SlotAt, TypeOK, GhostType
<1>12. HeadAt(k, o)'
  BY <1>0, <1>a, <1>b DEF Shape, HeadAt, TypeOK, GhostType
<1>13. NextAt(k, o)'
  BY <1>0, <1>2, <1>a, <1>b DEF Shape, NextAt, TypeOK, GhostType, Frame
<1>14. CurrAt(k, o)'
  BY <1>0, <1>a, <1>b, NullAssumption, <1>e DEF Shape, CurrAt, TypeOK, GhostType
<1>15. StackAt(k, o, i)'
  BY <1>0, <1>a, <1>b DEF Shape, StackAt, TypeOK, GhostType
<1>16. Filled(k, o, i)'
  BY <1>0, <1>2, <1>a, <1>b DEF Shape, Filled, PlaceType, TypeOK, GhostType, Listed, Frame
<1>17. ListIds(k, o, l)'
  BY <1>0, <1>a, <1>b DEF Shape, ListIds, GhostType, PlaceType, Listed
<1>18. Detaching(k, l)'
  BY <1>0, <1>a, <1>b DEF Shape, Detaching, TypeOK, GhostType
<1>19. Statuses(k, o)'
  BY <1>0, <1>a, <1>b DEF Shape, Statuses, BufAt, TypeOK, GhostType, PlaceType, Listed
<1>20. DistinctAddresses' => Homes(k, o, i, l)'
  BY <1>0, <1>a, <1>b DEF Shape, Homes, TypeOK, GhostType, PlaceType, DistinctAddresses, Listed
<1>21. PlaceType(k, o, i)'
  BY <1>0, <1>a, <1>b DEF Shape, PlaceType, GhostType
<1>22. GhostType(k, o, i, l)'
  BY <1>0, <1>a, <1>b DEF GhostType, Kinds
<1>23. Inv(k, o, i, l)'
  BY <1>1, <1>3, <1>4, <1>5, <1>6, <1>7, <1>8, <1>9, <1>10, <1>11, <1>12, <1>13, <1>14,
     <1>15, <1>16, <1>17, <1>18, <1>19, <1>20, <1>21, <1>22
  DEF Inv, Shape
<1>24. QED
  BY <1>23

\* ReturnToCaller: the call ends, and what it was asked for is held.
LEMMA ReturnToCallerStep ==
  ASSUME NEW k, NEW o, NEW i, NEW l, Inv(k, o, i, l), NEW t \in Threads,
         ReturnToCaller(t), UNCHANGED aborted
  PROVE  \E k2, o2, i2, l2 : Inv(k2, o2, i2, l2)'
<1>0. TypeOK /\ Items /\ Control /\ GhostType(k, o, i, l) /\ Shape(k, o, i, l)
  BY DEF Inv
<1>1a. PICK a : a = arg[t]
  OBVIOUS
<1> DEFINE k2 == [x \in Buffers |-> IF x = a THEN "held" ELSE k[x]]
<1> HIDE DEF k2
<1>a. pc[t] = "return" /\ op' = [op EXCEPT ![t] = "none"] /\ pc' = [pc EXCEPT ![t] = "idle"]
  BY DEF ReturnToCaller
<1>b. UNCHANGED <<tag, status, pool, super, pos, bufs, next, head, buf, curr, stack, aborted>>
  BY DEF ReturnToCaller, heapVars, mapVars
<1>c. k2 = [x \in Buffers |-> IF x = a THEN "held" ELSE k[x]]
  BY DEF k2
<1>d. held' = held \cup ({a} \ {Null}) /\ arg' = [arg EXCEPT ![t] = Null]
  BY <1>1a DEF ReturnToCaller
<1>e. a \in Buffers => k[a] = "arg" /\ o[a] = t
  BY <1>0, <1>1a DEF Shape, ArgAt
<1>e2. a \in Buffers \cup {Null}
  BY <1>0, <1>1a DEF TypeOK
<1>f. \A x \in Buffers : k[x] \in {"super", "slot", "head", "next", "curr", "stack"}
      \/ k2[x] \in {"super", "slot", "head", "next", "curr", "stack"} => k2[x] = k[x]
  BY <1>c, <1>e
<1>1. TypeOK'
  BY <1>0, <1>a, <1>b, <1>d, <1>e2 DEF TypeOK, PCs
<1>2. \A u \in Threads : Frame(u)
  BY <1>0, Frames, <1>a, <1>b DEF TypeOK, Sending
<1>3. Items'
  BY <1>0, <1>2, <1>a, <1>b DEF Items, TypeOK, Frame
<1>4. Control'
  BY <1>0, <1>2, <1>a, <1>b, <1>d DEF Control, TypeOK, Frame
<1>5. FreshAt(k2)'
  BY <1>0, <1>a, <1>b, <1>c, <1>e DEF Shape, FreshAt, TypeOK, GhostType
<1>6. HeldAt(k2)'
  BY <1>0, <1>a, <1>b, <1>c, <1>d, <1>e, <1>e2, NullAssumption DEF Shape, HeldAt, TypeOK, GhostType
<1>7. PoolAt(k2, o)'
  BY <1>0, <1>a, <1>b, <1>c, <1>e DEF Shape, PoolAt, TypeOK, GhostType
<1>8. ArgAt(k2, o)'
  BY <1>0, <1>a, <1>b, <1>c, <1>d, <1>e, <1>e2, NullAssumption, <1>1a DEF Shape, ArgAt, TypeOK, GhostType
<1>9. BufAt(k2, o)'
  BY <1>0, <1>a, <1>b, <1>c, <1>e DEF Shape, BufAt, TypeOK, GhostType
<1>10. SuperAt(k2, o, i)'
  BY <1>0, <1>2, <1>a, <1>b, <1>f DEF Shape, SuperAt, TypeOK, GhostType, Frame
<1>11. SlotAt(k2, o, i)'
  BY <1>0, <1>a, <1>b, <1>f DEF Shape, SlotAt, TypeOK, GhostType
<1>12. HeadAt(k2, o)'
  BY <1>0, <1>a, <1>b, <1>f DEF Shape, HeadAt, TypeOK, GhostType
<1>13. NextAt(k2, o)'
  BY <1>0, <1>2, <1>a, <1>b, <1>f DEF Shape, NextAt, TypeOK, GhostType, Frame
<1>14. CurrAt(k2, o)'
  BY <1>0, <1>a, <1>b, <1>f DEF Shape, CurrAt, TypeOK, GhostType
<1>15. StackAt(k2, o, i)'
  BY <1>0, <1>a, <1>b, <1>f DEF Shape, StackAt, TypeOK, GhostType
<1>16. Filled(k2, o, i)'
  BY <1>0, <1>2, <1>a, <1>b, <1>f DEF Shape, Filled, PlaceType, TypeOK, GhostType, Listed, Frame
<1>17. ListIds(k2, o, l)'
  BY <1>0, <1>a, <1>b, <1>f DEF Shape, ListIds, GhostType, PlaceType, Listed
<1>18. Detaching(k2, l)'
  <2>1. \A u \in Threads : pc'[u] = "detach" => pc[u] = "detach" /\ curr'[u] = curr[u]
    BY <1>0, <1>a, <1>b DEF TypeOK
  <2>2. QED
    BY <2>1, <1>0, <1>f DEF Shape, Detaching
<1>19. Statuses(k2, o)'
  BY <1>0, <1>a, <1>b, <1>c, <1>e DEF Shape, Statuses, BufAt, TypeOK, GhostType, PlaceType, Listed
<1>20. DistinctAddresses' => Homes(k2, o, i, l)'
  BY <1>0, <1>a, <1>b, <1>c, <1>e, <1>f
  DEF Shape, Homes, TypeOK, GhostType, PlaceType, DistinctAddresses, Listed
<1>21. PlaceType(k2, o, i)'
  BY <1>0, <1>a, <1>b, <1>c, <1>e DEF Shape, PlaceType, GhostType
<1>22. GhostType(k2, o, i, l)'
  BY <1>0, <1>a, <1>b, <1>c, <1>e DEF GhostType, Kinds
<1>23. Inv(k2, o, i, l)'
  BY <1>1, <1>3, <1>4, <1>5, <1>6, <1>7, <1>8, <1>9, <1>10, <1>11, <1>12, <1>13, <1>14,
     <1>15, <1>16, <1>17, <1>18, <1>19, <1>20, <1>21, <1>22
  DEF Inv, Shape
<1>24. QED
  BY <1>23

-----------------------------------------------------------------------------
(* Lists.                                                                  *)

\* What destMap finds for a thread that sends is an item of some thread.
LEMMA ItemIsThread ==
  ASSUME NEW u \in Threads, HasItem(u)
  PROVE  Item(u) \in Threads /\ super[u][Item(u)] # Null /\ Low32[Item(u)] = Low32[Dest(u)]
<1>1. ItemsFor(u, Dest(u)) # {}
  BY DEF HasItem
<1>2. Item(u) \in ItemsFor(u, Dest(u))
  BY <1>1 DEF Item, TheItem
<1>3. QED
  BY <1>2 DEF ItemsFor

\* Only a superbuffer that is no list's yet is being linked.
LEMMA LinkingSuper ==
  ASSUME NEW k, NEW o, NEW i, NEW l, Inv(k, o, i, l), NEW n \in Buffers,
         NEW u \in Threads, Linking(u, n)
  PROVE  k[n] = "super" /\ o[n] = u /\ i[n] = Item(u)
<1>1. pc[u] = "addcas" /\ n = super[u][Item(u)]
  BY DEF Linking
<1>2. Item(u) \in Threads
  BY <1>1, ItemIsThread DEF Inv, Items, Sending
<1>3. ~Sent(u, Item(u))
  BY <1>1 DEF Sent
<1>4. SuperAt(k, o, i)
  BY DEF Inv, Shape
<1>5. QED
  BY <1>1, <1>2, <1>3, <1>4 DEF SuperAt

\* Detach of a list of at most one superbuffer: nothing is drained.
LEMMA DetachNoneStep ==
  ASSUME NEW k, NEW o, NEW i, NEW l, Inv(k, o, i, l), NEW t \in Threads,
         Detach(t), next[curr[t]] = Null, UNCHANGED aborted
  PROVE  \E k2, o2, i2, l2 : Inv(k2, o2, i2, l2)'
<1>0. TypeOK /\ Items /\ Control /\ GhostType(k, o, i, l) /\ Shape(k, o, i, l)
  BY DEF Inv
<1>a. pc[t] = "detach" /\ pc' = [pc EXCEPT ![t] = "return"]
  BY DEF Detach
<1>b. UNCHANGED <<tag, status, pool, super, pos, bufs, next, head, held, op, arg, buf, stack, aborted>>
  BY DEF Detach, heapVars, mapVars, callVars
<1>c. curr' = [curr EXCEPT ![t] = Null]
  BY DEF Detach
<1>1. TypeOK'
  BY <1>0, <1>a, <1>b, <1>c DEF TypeOK, PCs
<1>2. \A u \in Threads : Frame(u)
  BY <1>0, Frames, <1>a, <1>b, <1>c DEF TypeOK, Sending
<1>3. Items'
  BY <1>0, <1>2, <1>a, <1>b, <1>c DEF Items, TypeOK, Frame
<1>4. Control'
  BY <1>0, <1>2, <1>a, <1>b, <1>c DEF Control, TypeOK, Frame
<1>5. FreshAt(k)'
  BY <1>0, <1>a, <1>b, <1>c DEF Shape, FreshAt, TypeOK, GhostType
<1>6. HeldAt(k)'
  BY <1>0, <1>a, <1>b, <1>c DEF Shape, HeldAt, TypeOK, GhostType
<1>7. PoolAt(k, o)'
  BY <1>0, <1>a, <1>b, <1>c DEF Shape, PoolAt, TypeOK, GhostType
<1>8. ArgAt(k, o)'
  BY <1>0, <1>a, <1>b, <1>c DEF Shape, ArgAt, TypeOK, GhostType
<1>9. BufAt(k, o)'
  BY <1>0, <1>a, <1>b, <1>c DEF Shape, BufAt, TypeOK, GhostType
<1>10. SuperAt(k, o, i)'
  BY <1>0, <1>2, <1>a, <1>b, <1>c DEF Shape, SuperAt, TypeOK, GhostType, Frame
<1>11. SlotAt(k, o, i)'
  BY <1>0, <1>a, <1>b, <1>c DEF Shape, SlotAt, TypeOK, GhostType
<1>12. HeadAt(k, o)'
  BY <1>0, <1>a, <1>b, <1>c DEF Shape, HeadAt, TypeOK, GhostType
<1>13. NextAt(k, o)'
  BY <1>0, <1>2, <1>a, <1>b, <1>c DEF Shape, NextAt, TypeOK, GhostType, Frame
<1>14. CurrAt(k, o)'
  BY <1>0, <1>a, <1>b, <1>c DEF Shape, CurrAt, TypeOK, GhostType
<1>15. StackAt(k, o, i)'
  BY <1>0, <1>a, <1>b, <1>c DEF Shape, StackAt, TypeOK, GhostType
<1>16. Filled(k, o, i)'
  BY <1>0, <1>2, <1>a, <1>b, <1>c DEF Shape, Filled, PlaceType, TypeOK, GhostType, Listed, Frame
<1>17. ListIds(k, o, l)'
  BY <1>0, <1>a, <1>b, <1>c DEF Shape, ListIds, GhostType, PlaceType, Listed
<1>18. Detaching(k, l)'
  BY <1>0, <1>a, <1>b, <1>c DEF Shape, Detaching, TypeOK, GhostType
<1>19. Statuses(k, o)'
  BY <1>0, <1>a, <1>b, <1>c DEF Shape, Statuses, BufAt, TypeOK, GhostType, PlaceType, Listed
<1>20. DistinctAddresses' => Homes(k, o, i, l)'
  BY <1>0, <1>a, <1>b, <1>c DEF Shape, Homes, TypeOK, GhostType, PlaceType, DistinctAddresses, Listed
<1>21. PlaceType(k, o, i)'
  BY <1>0, <1>a, <1>b, <1>c DEF Shape, PlaceType, GhostType
<1>22. GhostType(k, o, i, l)'
  BY <1>0, <1>a, <1>b, <1>c DEF GhostType, Kinds
<1>23. Inv(k, o, i, l)'
  BY <1>1, <1>3, <1>4, <1>5, <1>6, <1>7, <1>8, <1>9, <1>10, <1>11, <1>12, <1>13, <1>14,
     <1>15, <1>16, <1>17, <1>18, <1>19, <1>20, <1>21, <1>22
  DEF Inv, Shape
<1>24. QED
  BY <1>23

\* Detach: all but the head of the list now belongs to the draining thread.
LEMMA DetachRestStep ==
  ASSUME NEW k, NEW o, NEW i, NEW l, Inv(k, o, i, l), NEW t \in Threads,
         Detach(t), next[curr[t]] # Null, UNCHANGED aborted
  PROVE  \E k2, o2, i2, l2 : Inv(k2, o2, i2, l2)'
<1>0. TypeOK /\ Items /\ Control /\ GhostType(k, o, i, l) /\ Shape(k, o, i, l)
  BY DEF Inv
<1>1a. PICK c : c = curr[t]
  OBVIOUS
<1>1b. PICK x : x = next[c]
  OBVIOUS
<1> DEFINE k2 == [k EXCEPT ![x] = "curr"]
           o2 == [o EXCEPT ![x] = t]
<1> HIDE DEF k2, o2
<1>a. pc[t] = "detach" /\ pc' = [pc EXCEPT ![t] = "drain"] /\ curr' = [curr EXCEPT ![t] = x]
      /\ next' = [next EXCEPT ![c] = Null]
  BY <1>1a, <1>1b DEF Detach, Unlink
<1>b. UNCHANGED <<tag, status, pool, super, pos, bufs, head, held, op, arg, buf, stack, aborted>>
  BY DEF Detach, heapVars, mapVars, callVars
<1>c. k2 = [k EXCEPT ![x] = "curr"] /\ o2 = [o EXCEPT ![x] = t]
  BY DEF k2, o2
<1>d1. c \in Buffers /\ k[c] \in {"head", "next"} /\ l[c] = t
  BY <1>0, <1>1a, <1>a DEF Shape, Detaching
<1>d2. x \in Buffers
  BY <1>0, <1>1a, <1>1b, <1>d1 DEF TypeOK
<1>d3. \A u \in Threads : ~Linking(u, c)
  BY <1>d1, LinkingSuper
<1>d4. k[x] = "next" /\ o[x] = c
  BY <1>0, <1>1b, <1>d1, <1>d2, <1>d3 DEF Shape, NextAt
<1>d5. l[x] = t
  BY <1>0, <1>d1, <1>d2, <1>d4 DEF Shape, ListIds
<1>1. TypeOK'
  BY <1>0, <1>a, <1>b, <1>c, <1>d1, <1>d2, <1>d4 DEF TypeOK, PCs
<1>2. \A u \in Threads : Frame(u)
  BY <1>0, Frames, <1>a, <1>b, <1>c, <1>d2, <1>d4 DEF TypeOK, Sending
<1>3. Items'
  BY <1>0, <1>2, <1>a, <1>b, <1>c, <1>d2, <1>d4 DEF Items, TypeOK, Frame
<1>4. Control'
  BY <1>0, <1>2, <1>a, <1>b, <1>c, <1>d2, <1>d4 DEF Control, TypeOK, Frame
<1>5. FreshAt(k2)'
  BY <1>0, <1>a, <1>b, <1>c, <1>d2, <1>d4 DEF Shape, FreshAt, TypeOK, GhostType
<1>6. HeldAt(k2)'
  BY <1>0, <1>a, <1>b, <1>c, <1>d2, <1>d4 DEF Shape, HeldAt, TypeOK, GhostType
<1>7. PoolAt(k2, o2)'
  BY <1>0, <1>a, <1>b, <1>c, <1>d2, <1>d4 DEF Shape, PoolAt, TypeOK, GhostType
<1>8. ArgAt(k2, o2)'
  BY <1>0, <1>a, <1>b, <1>c, <1>d2, <1>d4 DEF Shape, ArgAt, TypeOK, GhostType
<1>9. BufAt(k2, o2)'
  BY <1>0, <1>a, <1>b, <1>c, <1>d2, <1>d4 DEF Shape, BufAt, TypeOK, GhostType
<1>10. SuperAt(k2, o2, i)'
  BY SMTT(40), <1>0, <1>2, <1>a, <1>b, <1>c, <1>d2, <1>d4 DEF Shape, SuperAt, TypeOK, GhostType, Frame
<1>11. SlotAt(k2, o2, i)'
  BY <1>0, <1>a, <1>b, <1>c, <1>d2, <1>d4 DEF Shape, SlotAt, TypeOK, GhostType
<1>12. HeadAt(k2, o2)'
  BY <1>0, <1>a, <1>b, <1>c, <1>d2, <1>d4 DEF Shape, HeadAt, TypeOK, GhostType
<1>13. NextAt(k2, o2)'
  BY <1>0, <1>2, <1>a, <1>b, <1>c, <1>d1, <1>d2, <1>d3, <1>d4, <1>1b, NullAssumption
  DEF Shape, NextAt, TypeOK, GhostType, Frame
<1>14. CurrAt(k2, o2)'
  BY <1>0, <1>a, <1>b, <1>c, <1>d2, <1>d4 DEF Shape, CurrAt, TypeOK, GhostType
<1>15. StackAt(k2, o2, i)'
  BY <1>0, <1>a, <1>b, <1>c, <1>d2, <1>d4 DEF Shape, StackAt, TypeOK, GhostType
<1>16. Filled(k2, o2, i)'
  BY <1>0, <1>2, <1>a, <1>b, <1>c, <1>d1, <1>d2, <1>d4, NullAssumption
  DEF Shape, Filled, PlaceType, TypeOK, GhostType, Listed, Frame
<1>17. ListIds(k2, o2, l)'
  BY <1>0, <1>a, <1>b, <1>c, <1>d1, <1>d2, <1>d4, <1>d5 DEF Shape, ListIds, GhostType, PlaceType, Listed
<1>18. Detaching(k2, l)'
  BY <1>0, <1>a, <1>b, <1>c, <1>d1, <1>d2, <1>d4, <1>d5 DEF Shape, Detaching, TypeOK, GhostType
<1>19. Statuses(k2, o2)'
  BY <1>0, <1>a, <1>b, <1>c, <1>d2, <1>d4 DEF Shape, Statuses, BufAt, TypeOK, GhostType, PlaceType, Listed
<1>20. DistinctAddresses' => Homes(k2, o2, i, l)'
  BY <1>0, <1>a, <1>b, <1>c, <1>d1, <1>d2, <1>d4, <1>d5
  DEF Shape, Homes, TypeOK, GhostType, PlaceType, DistinctAddresses, Listed
<1>21. PlaceType(k2, o2, i)'
  BY <1>0, <1>a, <1>b, <1>c, <1>d2, <1>d4 DEF Shape, PlaceType, GhostType
<1>22. GhostType(k2, o2, i, l)'
  BY <1>0, <1>a, <1>b, <1>c, <1>d2, <1>d4 DEF GhostType, Kinds
<1>23. Inv(k2, o2, i, l)'
  BY <1>1, <1>3, <1>4, <1>5, <1>6, <1>7, <1>8, <1>9, <1>10, <1>11, <1>12, <1>13, <1>14,
     <1>15, <1>16, <1>17, <1>18, <1>19, <1>20, <1>21, <1>22
  DEF Inv, Shape
<1>24. QED
  BY <1>23

\* ResumeLoop: the list that a _tfree interrupted is drained on.
LEMMA ResumeLoopStep ==
  ASSUME NEW k, NEW o, NEW i, NEW l, Inv(k, o, i, l), NEW t \in Threads,
         ResumeLoop(t), UNCHANGED aborted
  PROVE  \E k2, o2, i2, l2 : Inv(k2, o2, i2, l2)'
<1>0. TypeOK /\ Items /\ Control /\ GhostType(k, o, i, l) /\ Shape(k, o, i, l)
  BY DEF Inv
<1>1a. PICK x : x = stack[t][Len(stack[t])]
  OBVIOUS
<1> DEFINE k2 == [y \in Buffers |-> IF y = x THEN "curr" ELSE k[y]]
<1> HIDE DEF k2
<1>a. pc[t] = "return" /\ pc' = [pc EXCEPT ![t] = "drain"] /\ curr' = [curr EXCEPT ![t] = x]
  BY <1>1a DEF ResumeLoop
<1>b. UNCHANGED <<tag, status, pool, super, pos, bufs, next, head, held, op, arg, buf, aborted>>
  BY DEF ResumeLoop, heapVars, mapVars, callVars
<1>c. k2 = [y \in Buffers |-> IF y = x THEN "curr" ELSE k[y]]
  BY DEF k2
<1>d1. stack' = [stack EXCEPT ![t] = SubSeq(@, 1, Len(@) - 1)] /\ stack[t] # <<>>
  BY DEF ResumeLoop
<1>d2. stack[t] \in Seq(Buffers \cup {Null}) /\ Len(stack[t]) \in Nat \ {0} /\ x \in Buffers \cup {Null}
  BY <1>0, <1>1a, <1>d1 DEF TypeOK
<1>d0. stack'[t] = SubSeq(stack[t], 1, Len(stack[t]) - 1)
  BY <1>0, <1>d1 DEF TypeOK
<1>d6. \A j \in 1..Len(stack[t]) - 1 : stack[t][j] \in Buffers \cup {Null}
  BY <1>d2
<1>d3. stack'[t] \in Seq(Buffers \cup {Null}) /\ Len(stack'[t]) = Len(stack[t]) - 1
       /\ \A j \in 1..Len(stack'[t]) : stack'[t][j] = stack[t][j]
  BY <1>d0, <1>d2, <1>d6, SubSeqProperties
<1>d4. x \in Buffers => k[x] = "stack" /\ o[x] = t /\ i[x] = Len(stack[t])
  BY <1>0, <1>1a, <1>d2 DEF Shape, StackAt
<1>d5. \A u \in Threads \ {t} : stack'[u] = stack[u]
  BY <1>0, <1>d1 DEF TypeOK
<1>1. TypeOK'
  BY <1>0, <1>a, <1>b, <1>c, <1>d1, <1>d2, <1>d3, <1>d4 DEF TypeOK, PCs
<1>2. \A u \in Threads : Frame(u)
  BY <1>0, Frames, <1>a, <1>b, <1>c, <1>d2, <1>d4 DEF TypeOK, Sending
<1>3. Items'
  BY <1>0, <1>2, <1>a, <1>b, <1>c, <1>d2, <1>d4 DEF Items, TypeOK, Frame
<1>4. Control'
  BY <1>0, <1>2, <1>a, <1>b, <1>c, <1>d2, <1>d4 DEF Control, TypeOK, Frame
<1>5. FreshAt(k2)'
  BY <1>0, <1>a, <1>b, <1>c, <1>d2, <1>d4 DEF Shape, FreshAt, TypeOK, GhostType
<1>6. HeldAt(k2)'
  BY <1>0, <1>a, <1>b, <1>c, <1>d2, <1>d4 DEF Shape, HeldAt, TypeOK, GhostType
<1>7. PoolAt(k2, o)'
  BY <1>0, <1>a, <1>b, <1>c, <1>d2, <1>d4 DEF Shape, PoolAt, TypeOK, GhostType
<1>8. ArgAt(k2, o)'
  BY <1>0, <1>a, <1>b, <1>c, <1>d2, <1>d4 DEF Shape, ArgAt, TypeOK, GhostType
<1>9. BufAt(k2, o)'
  BY <1>0, <1>a, <1>b, <1>c, <1>d2, <1>d4 DEF Shape, BufAt, TypeOK, GhostType
<1>10. SuperAt(k2, o, i)'
  BY <1>0, <1>2, <1>a, <1>b, <1>c, <1>d2, <1>d4 DEF Shape, SuperAt, TypeOK, GhostType, Frame
<1>11. SlotAt(k2, o, i)'
  BY <1>0, <1>a, <1>b, <1>c, <1>d2, <1>d4 DEF Shape, SlotAt, TypeOK, GhostType
<1>12. HeadAt(k2, o)'
  BY <1>0, <1>a, <1>b, <1>c, <1>d2, <1>d4 DEF Shape, HeadAt, TypeOK, GhostType
<1>13. NextAt(k2, o)'
  BY <1>0, <1>2, <1>a, <1>b, <1>c, <1>d2, <1>d4 DEF Shape, NextAt, TypeOK, GhostType, Frame
<1>14. CurrAt(k2, o)'
  BY <1>0, <1>a, <1>b, <1>c, <1>d2, <1>d4, NullAssumption DEF Shape, CurrAt, TypeOK, GhostType
<1>15. StackAt(k2, o, i)'
  <2> SUFFICES ASSUME NEW u \in Threads, NEW y \in Buffers, NEW j \in Nat
               PROVE  (j \in 1..Len(stack'[u]) /\ y = stack'[u][j])
                        <=> k2[y] = "stack" /\ o[y] = u /\ i[y] = j
    BY <1>b DEF StackAt
  <2>1. (j \in 1..Len(stack[u]) /\ y = stack[u][j]) <=> k[y] = "stack" /\ o[y] = u /\ i[y] = j
    BY <1>0 DEF Shape, StackAt
  <2>2. CASE u # t
    BY <2>1, <2>2, <1>c, <1>d4, <1>d5
  <2>3. CASE u = t /\ y = x
    BY <2>1, <2>3, <1>c, <1>d2, <1>d3, <1>d4
  <2>4. CASE u = t /\ y # x
    <3>1. j \in 1..Len(stack[t]) /\ y = stack[t][j] => j \in 1..Len(stack'[t])
      BY <2>4, <1>1a, <1>d2, <1>d3
    <3>2. QED
      BY <3>1, <2>1, <2>4, <1>c, <1>d2, <1>d3
  <2>5. QED
    BY <2>2, <2>3, <2>4
<1>16. Filled(k2, o, i)'
  BY <1>0, <1>2, <1>a, <1>b, <1>c, <1>d2, <1>d4 DEF Shape, Filled, PlaceType, TypeOK, GhostType, Listed, Frame
<1>17. ListIds(k2, o, l)'
  BY <1>0, <1>a, <1>b, <1>c, <1>d2, <1>d4 DEF Shape, ListIds, GhostType, PlaceType, Listed
<1>18. Detaching(k2, l)'
  BY <1>0, <1>a, <1>b, <1>c, <1>d2, <1>d4 DEF Shape, Detaching, TypeOK, GhostType
<1>19. Statuses(k2, o)'
  BY <1>0, <1>a, <1>b, <1>c, <1>d2, <1>d4 DEF Shape, Statuses, BufAt, TypeOK, GhostType, PlaceType, Listed
<1>20. DistinctAddresses' => Homes(k2, o, i, l)'
  BY <1>0, <1>a, <1>b, <1>c, <1>d2, <1>d4
  DEF Shape, Homes, TypeOK, GhostType, PlaceType, DistinctAddresses, Listed
<1>21. PlaceType(k2, o, i)'
  BY <1>0, <1>a, <1>b, <1>c, <1>d2, <1>d4 DEF Shape, PlaceType, GhostType
<1>22. GhostType(k2, o, i, l)'
  BY <1>0, <1>a, <1>b, <1>c, <1>d2, <1>d4 DEF GhostType, Kinds
<1>23. Inv(k2, o, i, l)'
  BY <1>1, <1>3, <1>4, <1>5, <1>6, <1>7, <1>8, <1>9, <1>10, <1>11, <1>12, <1>13, <1>14,
     <1>15, <1>16, <1>17, <1>18, <1>19, <1>20, <1>21, <1>22
  DEF Inv, Shape
<1>24. QED
  BY <1>23

-----------------------------------------------------------------------------
(* _tfree.                                                                 *)

\* Tfree of a buffer of the thread itself: the unit goes to its pool.
LEMMA TfreeLocalStep ==
  ASSUME NEW k, NEW o, NEW i, NEW l, Inv(k, o, i, l), NEW t \in Threads,
         Tfree(t), IsLocal(t), UNCHANGED aborted
  PROVE  \E k2, o2, i2, l2 : Inv(k2, o2, i2, l2)'
<1>0. TypeOK /\ Items /\ Control /\ GhostType(k, o, i, l) /\ Shape(k, o, i, l)
  BY DEF Inv
<1>1a. PICK b : b = buf[t]
  OBVIOUS
<1> DEFINE k2 == [k EXCEPT ![b] = "pool"]
<1> HIDE DEF k2
<1>a. pc[t] = "tfree" /\ pc' = [pc EXCEPT ![t] = "return"] /\ buf' = [buf EXCEPT ![t] = Null]
  BY DEF Tfree
<1>a2. status' = [status EXCEPT ![b] = 0] /\ pool' = [pool EXCEPT ![t] = @ \cup {b}]
  BY <1>1a DEF Tfree
<1>b. UNCHANGED <<tag, super, pos, bufs, next, head, held, op, arg, curr, stack, aborted>>
  BY DEF Tfree, mapVars, callVars
<1>c. k2 = [k EXCEPT ![b] = "pool"]
  BY DEF k2
<1>d1. b \in Buffers /\ b # Null /\ tag[b] = t
  BY <1>0, <1>1a, <1>a, NullAssumption DEF Control, IsLocal, Dest
<1>d2. k[b] = "buf" /\ o[b] = t
  BY <1>0, <1>1a, <1>a, <1>d1 DEF Shape, BufAt
<1>f. \A x \in Buffers : k[x] \in {"held", "super", "slot", "head", "next", "curr", "stack"}
      \/ k2[x] \in {"held", "super", "slot", "head", "next", "curr", "stack"} => k2[x] = k[x]
  BY <1>c, <1>d1, <1>d2
<1>1. TypeOK'
  BY <1>0, <1>a, <1>a2, <1>b, <1>d1 DEF TypeOK, PCs
<1>2. \A u \in Threads : Frame(u)
  BY <1>0, Frames, <1>a, <1>b DEF TypeOK, Sending
<1>3. Items'
  BY <1>0, <1>2, <1>a, <1>b DEF Items, TypeOK, Frame
<1>4. Control'
  BY <1>0, <1>2, <1>a, <1>b DEF Control, TypeOK, Frame, Sending
<1>5. FreshAt(k2)'
  BY <1>0, <1>b, <1>c, <1>d1, <1>d2, NullAssumption DEF Shape, FreshAt, TypeOK, GhostType
<1>6. HeldAt(k2)'
  BY <1>0, <1>b, <1>c, <1>d1, <1>d2, <1>f DEF Shape, HeldAt, TypeOK, GhostType
<1>7. PoolAt(k2, o)'
  BY <1>0, <1>a2, <1>b, <1>c, <1>d1, <1>d2 DEF Shape, PoolAt, TypeOK, GhostType
<1>8. ArgAt(k2, o)'
  BY <1>0, <1>b, <1>c, <1>d1, <1>d2 DEF Shape, ArgAt, TypeOK, GhostType
<1>9. BufAt(k2, o)'
  BY <1>0, <1>a, <1>b, <1>c, <1>d1, <1>d2, NullAssumption, <1>1a DEF Shape, BufAt, TypeOK, GhostType
<1>10. SuperAt(k2, o, i)'
  BY <1>0, <1>2, <1>a, <1>b, <1>f DEF Shape, SuperAt, TypeOK, GhostType, Frame
<1>11. SlotAt(k2, o, i)'
  BY <1>0, <1>b, <1>f DEF Shape, SlotAt, TypeOK, GhostType
<1>12. HeadAt(k2, o)'
  BY <1>0, <1>b, <1>f DEF Shape, HeadAt, TypeOK, GhostType
<1>13. NextAt(k2, o)'
  BY <1>0, <1>2, <1>a, <1>b, <1>f DEF Shape, NextAt, TypeOK, GhostType, Frame
<1>14. CurrAt(k2, o)'
  BY <1>0, <1>a, <1>b, <1>f DEF Shape, CurrAt, TypeOK, GhostType
<1>15. StackAt(k2, o, i)'
  BY <1>0, <1>b, <1>f DEF Shape, StackAt, TypeOK, GhostType
<1>16. Filled(k2, o, i)'
  BY <1>0, <1>2, <1>a, <1>b, <1>c, <1>d1, <1>d2, <1>f
  DEF Shape, Filled, PlaceType, TypeOK, GhostType, Listed, Frame
<1>17. ListIds(k2, o, l)'
  BY <1>0, <1>b, <1>f DEF Shape, ListIds, GhostType, PlaceType, Listed
<1>18. Detaching(k2, l)'
  <2>1. \A u \in Threads : pc'[u] = "detach" => pc[u] = "detach" /\ curr'[u] = curr[u]
    BY <1>0, <1>a, <1>b DEF TypeOK
  <2>2. QED
    BY <2>1, <1>0, <1>f DEF Shape, Detaching
<1>19. Statuses(k2, o)'
  BY <1>0, <1>a, <1>a2, <1>b, <1>c, <1>d1, <1>d2
  DEF Shape, Statuses, BufAt, TypeOK, GhostType, PlaceType, Listed
<1>20. DistinctAddresses' => Homes(k2, o, i, l)'
  BY <1>0, <1>b, <1>c, <1>d1, <1>d2, <1>f
  DEF Shape, Homes, TypeOK, GhostType, PlaceType, DistinctAddresses, Listed
<1>21. PlaceType(k2, o, i)'
  BY <1>0, <1>b, <1>c, <1>d1, <1>d2 DEF Shape, PlaceType, GhostType
<1>22. GhostType(k2, o, i, l)'
  BY <1>0, <1>b, <1>c, <1>d1, <1>d2 DEF GhostType, Kinds
<1>23. Inv(k2, o, i, l)'
  BY <1>1, <1>3, <1>4, <1>5, <1>6, <1>7, <1>8, <1>9, <1>10, <1>11, <1>12, <1>13, <1>14,
     <1>15, <1>16, <1>17, <1>18, <1>19, <1>20, <1>21, <1>22
  DEF Inv, Shape
<1>24. QED
  BY <1>23

\* Tfree of another thread's buffer: the thread begins to send it.
LEMMA TfreeRemoteStep ==
  ASSUME NEW k, NEW o, NEW i, NEW l, Inv(k, o, i, l), NEW t \in Threads,
         Tfree(t), ~IsLocal(t), UNCHANGED aborted
  PROVE  \E k2, o2, i2, l2 : Inv(k2, o2, i2, l2)'
<1>0. TypeOK /\ Items /\ Control /\ GhostType(k, o, i, l) /\ Shape(k, o, i, l)
  BY DEF Inv
<1>1a. PICK b : b = buf[t]
  OBVIOUS
<1>a. pc[t] = "tfree" /\ pc' = [pc EXCEPT ![t] = "send"]
  BY DEF Tfree
<1>a2. status' = [status EXCEPT ![b] = 1]
  BY <1>1a DEF Tfree
<1>b. UNCHANGED <<tag, pool, super, pos, bufs, next, head, held, op, arg, buf, curr, stack, aborted>>
  BY DEF Tfree, mapVars, callVars
<1>d1. b \in Buffers /\ b # Null
  BY <1>0, <1>1a, <1>a, NullAssumption DEF Control
<1>d2. k[b] = "buf" /\ o[b] = t
  BY <1>0, <1>1a, <1>a, <1>d1 DEF Shape, BufAt
<1>1. TypeOK'
  BY <1>0, <1>a, <1>a2, <1>b, <1>d1 DEF TypeOK, PCs
<1>2. \A u \in Threads : Frame(u)
  BY <1>0, Frames, <1>a, <1>b DEF TypeOK, Sending
<1>3. Items'
  BY <1>0, <1>2, <1>a, <1>b DEF Items, TypeOK, Frame
<1>4. Control'
  BY <1>0, <1>2, <1>a, <1>b DEF Control, TypeOK, Frame
<1>5. FreshAt(k)'
  BY <1>0, <1>b DEF Shape, FreshAt, TypeOK, GhostType
<1>6. HeldAt(k)'
  BY <1>0, <1>b DEF Shape, HeldAt, TypeOK, GhostType
<1>7. PoolAt(k, o)'
  BY <1>0, <1>b DEF Shape, PoolAt, TypeOK, GhostType
<1>8. ArgAt(k, o)'
  BY <1>0, <1>b DEF Shape, ArgAt, TypeOK, GhostType
<1>9. BufAt(k, o)'
  BY <1>0, <1>a, <1>b DEF Shape, BufAt, TypeOK, GhostType
<1>10. SuperAt(k, o, i)'
  BY <1>0, <1>2, <1>a, <1>b DEF Shape, SuperAt, TypeOK, GhostType, Frame
<1>11. SlotAt(k, o, i)'
  BY <1>0, <1>b DEF Shape, SlotAt, TypeOK, GhostType
<1>12. HeadAt(k, o)'
  BY <1>0, <1>b DEF Shape, HeadAt, TypeOK, GhostType
<1>13. NextAt(k, o)'
  BY <1>0, <1>2, <1>a, <1>b DEF Shape, NextAt, TypeOK, GhostType, Frame
<1>14. CurrAt(k, o)'
  BY <1>0, <1>a, <1>b DEF Shape, CurrAt, TypeOK, GhostType
<1>15. StackAt(k, o, i)'
  BY <1>0, <1>b DEF Shape, StackAt, TypeOK, GhostType
<1>16. Filled(k, o, i)'
  BY <1>0, <1>2, <1>a, <1>b DEF Shape, Filled, PlaceType, TypeOK, GhostType, Listed, Frame
<1>17. ListIds(k, o, l)'
  BY <1>0, <1>b DEF Shape, ListIds, GhostType, PlaceType, Listed
<1>18. Detaching(k, l)'
  BY <1>0, <1>a, <1>b DEF Shape, Detaching, TypeOK, GhostType
<1>19. Statuses(k, o)'
  BY <1>0, <1>a, <1>a2, <1>b, <1>d1, <1>d2, <1>1a
  DEF Shape, Statuses, BufAt, TypeOK, GhostType, PlaceType, Listed
<1>20. DistinctAddresses' => Homes(k, o, i, l)'
  BY <1>0, <1>b DEF Shape, Homes, TypeOK, GhostType, PlaceType, DistinctAddresses, Listed
<1>21. PlaceType(k, o, i)'
  BY <1>0, <1>b DEF Shape, PlaceType, GhostType
<1>22. GhostType(k, o, i, l)'
  BY <1>0, <1>b DEF GhostType, Kinds
<1>23. Inv(k, o, i, l)'
  BY <1>1, <1>3, <1>4, <1>5, <1>6, <1>7, <1>8, <1>9, <1>10, <1>11, <1>12, <1>13, <1>14,
     <1>15, <1>16, <1>17, <1>18, <1>19, <1>20, <1>21, <1>22
  DEF Inv, Shape
<1>24. QED
  BY <1>23

\* DrainNode: the buffers go to the pool and the superbuffer itself to _tfree,
\* while the rest of the list waits on the stack.
LEMMA DrainNodeStep ==
  ASSUME NEW k, NEW o, NEW i, NEW l, Inv(k, o, i, l), NEW t \in Threads,
         DrainNode(t), UNCHANGED aborted
  PROVE  \E k2, o2, i2, l2 : Inv(k2, o2, i2, l2)'
<1>0. TypeOK /\ Items /\ Control /\ GhostType(k, o, i, l) /\ Shape(k, o, i, l)
  BY DEF Inv
<1>1a. PICK c : c = curr[t]
  OBVIOUS
<1>1b. PICK x : x = next[c]
  OBVIOUS
<1>1c. PICK S : S = Content(c)
  OBVIOUS
<1>1d. PICK m : m = Len(stack[t]) + 1
  OBVIOUS
<1> DEFINE k2 == [y \in Buffers |-> IF y \in S THEN "pool" ELSE IF y = c THEN "buf"
                                    ELSE IF y = x THEN "stack" ELSE k[y]]
           o2 == [y \in Buffers |-> IF y \in S \/ y = x THEN t ELSE o[y]]
           i2 == [y \in Buffers |-> IF y = x THEN m ELSE i[y]]
<1> HIDE DEF k2, o2, i2
<1>a. pc[t] = "drain" /\ pc' = [pc EXCEPT ![t] = "tfree"] /\ c # Null
  BY <1>1a DEF DrainNode
<1>a1. curr' = [curr EXCEPT ![t] = Null] /\ buf' = [buf EXCEPT ![t] = c]
  BY <1>1a DEF DrainNode
<1>a2. status' = [y \in Buffers |-> IF y \in S THEN 0 ELSE status[y]]
       /\ pool' = [pool EXCEPT ![t] = @ \cup S]
  BY <1>1a, <1>1c DEF DrainNode
<1>a3. bufs' = [bufs EXCEPT ![c] = [j \in Slots |-> Null]] /\ next' = [next EXCEPT ![c] = Null]
  BY <1>1a DEF DrainNode
<1>a4. stack' = [stack EXCEPT ![t] = Append(@, x)]
  BY <1>1a, <1>1b DEF DrainNode, Suspend
<1>b. UNCHANGED <<tag, super, pos, head, held, op, arg, aborted>>
  BY DEF DrainNode, mapVars, callVars
<1>c. /\ k2 = [y \in Buffers |-> IF y \in S THEN "pool" ELSE IF y = c THEN "buf"
                                    ELSE IF y = x THEN "stack" ELSE k[y]]
      /\ o2 = [y \in Buffers |-> IF y \in S \/ y = x THEN t ELSE o[y]]
      /\ i2 = [y \in Buffers |-> IF y = x THEN m ELSE i[y]]
  BY DEF k2, o2, i2
<1>d1. c \in Buffers /\ c # Null
  BY <1>0, <1>1a, <1>a DEF TypeOK
<1>d2. k[c] = "curr" /\ o[c] = t
  BY <1>0, <1>1a, <1>a, <1>d1 DEF Shape, CurrAt
<1>d3. l[c] = t
  BY <1>0, <1>d1, <1>d2 DEF Shape, ListIds
<1>d4. \A y \in Buffers : y \in S <=> k[y] = "slot" /\ o[y] = c
  BY <1>0, <1>1c, <1>d1 DEF Shape, SlotAt, Content, PlaceType
<1>d5. S \subseteq Buffers
  <2>1. \A j \in Slots : bufs[c][j] # Null
    BY <1>0, <1>d1, <1>d2 DEF Shape, Filled, Listed
  <2>2. \A j \in Slots : bufs[c][j] \in Buffers \cup {Null}
    BY <1>0, <1>d1 DEF TypeOK
  <2>3. QED
    BY <2>1, <2>2, <1>1c DEF Content
<1>d6. x \in Buffers \cup {Null}
  BY <1>0, <1>1b, <1>d1 DEF TypeOK
<1>d7. \A y \in Buffers : y = x <=> k[y] = "next" /\ o[y] = c
  <2>1. \A u \in Threads : ~Linking(u, c)
    BY <1>d1, <1>d2, LinkingSuper
  <2>2. QED
    BY <2>1, <1>0, <1>1b, <1>d1 DEF Shape, NextAt
<1>d8. \A y \in Buffers : y = x => l[y] = t
  BY <1>0, <1>d2, <1>d3, <1>d7 DEF Shape, ListIds
<1>d9. tag[c] # Null
  BY <1>0, <1>d1, <1>d2 DEF Shape, FreshAt
<1>f. \A y \in Buffers : k[y] \in {"fresh", "held", "arg", "super", "head"}
      \/ k2[y] \in {"fresh", "held", "arg", "super", "head"}
      => k2[y] = k[y] /\ o2[y] = o[y] /\ i2[y] = i[y]
  BY <1>c, <1>d2, <1>d4, <1>d7
<1>f1. \A y \in Buffers, u \in Threads, e \in Threads :
       k2[y] = "super" /\ o2[y] = u /\ i2[y] = e <=> k[y] = "super" /\ o[y] = u /\ i[y] = e
  BY <1>f
<1>f2. \A y, n \in Buffers, j \in Slots :
       k2[y] = "slot" /\ o2[y] = n /\ i2[y] = j <=> n # c /\ k[y] = "slot" /\ o[y] = n /\ i[y] = j
  BY <1>c, <1>d1, <1>d2, <1>d4, <1>d7
<1>f3. \A n \in Buffers : n # c => next'[n] = next[n] /\ bufs'[n] = bufs[n]
  BY <1>0, <1>a3 DEF TypeOK
<1>f4. next'[c] = Null /\ \A j \in Slots : bufs'[c][j] = Null
  BY <1>0, <1>a3, <1>d1 DEF TypeOK
<1>f5. k2[c] = "buf"
  BY <1>c, <1>d1, <1>d2, <1>d4
<1>f6. \A n \in Buffers : n # c => (k2[n] \in Listed <=> k[n] \in Listed)
       /\ (k2[n] = "super" <=> k[n] = "super")
  BY <1>c, <1>d4, <1>d7 DEF Listed
<1>f7. \A n \in Buffers : k[n] = "super" => o2[n] = o[n] /\ i2[n] = i[n] /\ n # c
  BY <1>f, <1>d2
<1>1. TypeOK'
  BY <1>0, <1>a, <1>a1, <1>a2, <1>a3, <1>a4, <1>b, <1>d1, <1>d5, <1>d6, NullAssumption DEF TypeOK, PCs
<1>2. \A u \in Threads : Frame(u)
  BY <1>0, Frames, <1>a, <1>a1, <1>b DEF TypeOK, Sending
<1>3. Items'
  BY <1>0, <1>2, <1>a, <1>b DEF Items, TypeOK, Frame
<1>4. Control'
  BY <1>0, <1>2, <1>a, <1>a1, <1>b, <1>d1, <1>d9 DEF Control, TypeOK, Frame
<1>5. FreshAt(k2)'
  BY <1>0, <1>b, <1>f DEF Shape, FreshAt, TypeOK, GhostType
<1>6. HeldAt(k2)'
  BY <1>0, <1>b, <1>f DEF Shape, HeldAt, TypeOK, GhostType
<1>7. PoolAt(k2, o2)'
  BY <1>0, <1>a2, <1>b, <1>c, <1>d1, <1>d2, <1>d4, <1>d5, <1>d7 DEF Shape, PoolAt, TypeOK, GhostType
<1>8. ArgAt(k2, o2)'
  BY <1>0, <1>b, <1>f DEF Shape, ArgAt, TypeOK, GhostType
<1>9. BufAt(k2, o2)'
  BY <1>0, <1>a, <1>a1, <1>b, <1>c, <1>d1, <1>d2, <1>d4, <1>d7, NullAssumption
  DEF Shape, BufAt, TypeOK, GhostType
<1>10. SuperAt(k2, o2, i2)'
  BY <1>0, <1>2, <1>a, <1>b, <1>f1 DEF Shape, SuperAt, TypeOK, GhostType, Frame
<1>11. SlotAt(k2, o2, i2)'
  BY <1>0, <1>a3, <1>b, <1>c, <1>d1, <1>d4, <1>d7, <1>f2, NullAssumption DEF Shape, SlotAt, TypeOK, GhostType
<1>12. HeadAt(k2, o2)'
  BY <1>0, <1>b, <1>f DEF Shape, HeadAt, TypeOK, GhostType
<1>13. NextAt(k2, o2)'
  BY <1>0, <1>2, <1>a, <1>a3, <1>b, <1>c, <1>d1, <1>d2, <1>d4, <1>d7, NullAssumption
  DEF Shape, NextAt, TypeOK, GhostType, Frame
<1>14. CurrAt(k2, o2)'
  BY <1>0, <1>a, <1>a1, <1>b, <1>c, <1>d1, <1>d2, <1>d4, <1>d7, NullAssumption, <1>1a
  DEF Shape, CurrAt, TypeOK, GhostType
<1>15. StackAt(k2, o2, i2)'
  <2> SUFFICES ASSUME NEW u \in Threads, NEW y \in Buffers, NEW j \in Nat
               PROVE  (j \in 1..Len(stack'[u]) /\ y = stack'[u][j])
                        <=> k2[y] = "stack" /\ o2[y] = u /\ i2[y] = j
    BY DEF StackAt
  <2>1. (j \in 1..Len(stack[u]) /\ y = stack[u][j]) <=> k[y] = "stack" /\ o[y] = u /\ i[y] = j
    BY <1>0 DEF Shape, StackAt
  <2>2. stack[t] \in Seq(Buffers \cup {Null}) /\ stack'[t] = Append(stack[t], x)
    BY <1>0, <1>a4 DEF TypeOK
  <2>3. CASE u # t
    <3>1. stack'[u] = stack[u]
      BY <1>0, <1>a4, <2>3 DEF TypeOK
    <3>2. QED
      BY <3>1, <2>1, <2>3, <1>c, <1>d2, <1>d4, <1>d7
  <2>4. CASE u = t
    <3>1. Len(stack'[t]) = Len(stack[t]) + 1 /\ stack'[t][Len(stack[t]) + 1] = x
          /\ \A q \in 1..Len(stack[t]) : stack'[t][q] = stack[t][q]
      BY <2>2, <1>d6, AppendProperties
    <3>2. CASE y = x
      <4>1. k[y] = "next" /\ k2[y] = "stack" /\ o2[y] = t /\ i2[y] = m
        BY <3>2, <1>c, <1>d2, <1>d4, <1>d7
      <4>2. QED
        BY <4>1, <3>1, <3>2, <2>1, <2>2, <2>4, <1>1d
    <3>3. CASE y # x
      <4>1. k2[y] = "stack" /\ o2[y] = t /\ i2[y] = j <=> k[y] = "stack" /\ o[y] = t /\ i[y] = j
        BY <3>3, <1>c, <1>d2, <1>d4
      <4>2. QED
        BY SMTT(40), <4>1, <3>1, <3>3, <2>1, <2>2, <2>4
    <3>4. QED
      BY <3>2, <3>3
  <2>5. QED
    BY <2>3, <2>4
<1>16. Filled(k2, o2, i2)'
  <2> SUFFICES ASSUME NEW n \in Buffers
               PROVE  /\ k2[n] \in Listed => \A j \in Slots : bufs'[n][j] # Null
                      /\ k2[n] = "super" =>
                           /\ \A j \in Slots : bufs'[n][j] # Null <=> j <= pos[o2[n]][i2[n]]
                           /\ next'[n] # Null => Linking(o2[n], n)'
                      /\ k2[n] \notin Listed \cup {"super"} =>
                           next'[n] = Null /\ \A j \in Slots : bufs'[n][j] = Null
    BY <1>b DEF Filled, Listed
  <2>1. CASE n = c
    BY <2>1, <1>f4, <1>f5 DEF Listed
  <2>2. CASE n # c
    <3>1. /\ k[n] \in Listed => \A j \in Slots : bufs[n][j] # Null
          /\ k[n] = "super" =>
                /\ \A j \in Slots : bufs[n][j] # Null <=> j <= pos[o[n]][i[n]]
                /\ next[n] # Null => Linking(o[n], n)
          /\ k[n] \notin Listed \cup {"super"} =>
                next[n] = Null /\ \A j \in Slots : bufs[n][j] = Null
      BY <1>0 DEF Shape, Filled
    <3>2. k[n] = "super" => (Linking(o[n], n)' <=> Linking(o[n], n))
      BY <1>0, <1>2 DEF Shape, PlaceType, Frame
    <3>3. QED
      BY <3>1, <3>2, <2>2, <1>f3, <1>f6, <1>f7
  <2>3. QED
    BY <2>1, <2>2
<1>17. ListIds(k2, o2, l)'
  BY <1>0, <1>b, <1>c, <1>d1, <1>d2, <1>d4, <1>d7, <1>d8 DEF Shape, ListIds, GhostType, PlaceType, Listed
<1>18. Detaching(k2, l)'
  <2> SUFFICES ASSUME NEW u \in Threads, pc'[u] = "detach"
               PROVE  curr'[u] \in Buffers /\ k2[curr'[u]] \in {"head", "next"} /\ l[curr'[u]] = u
    BY DEF Detaching
  <2>1. u # t /\ pc[u] = "detach" /\ curr'[u] = curr[u]
    BY <1>0, <1>a, <1>a1 DEF TypeOK
  <2>2. curr[u] \in Buffers /\ k[curr[u]] \in {"head", "next"} /\ l[curr[u]] = u
    BY <1>0, <2>1 DEF Shape, Detaching
  <2>3. curr[u] # x
    BY <2>1, <2>2, <1>d8
  <2>4. QED
    BY <2>1, <2>2, <2>3, <1>c, <1>d2, <1>d4
<1>19. Statuses(k2, o2)'
  BY <1>0, <1>a, <1>a2, <1>b, <1>c, <1>d1, <1>d2, <1>d4, <1>d5, <1>d7
  DEF Shape, Statuses, BufAt, TypeOK, GhostType, PlaceType, Listed
<1>20. DistinctAddresses' => Homes(k2, o2, i2, l)'
  <2> SUFFICES ASSUME DistinctAddresses, NEW y \in Buffers
               PROVE  /\ k2[y] = "pool" => tag[y] = o2[y]
                      /\ k2[y] = "slot" /\ k2[o2[y]] = "super" => tag[y] = i2[o2[y]]
                      /\ k2[y] = "slot" /\ k2[o2[y]] \in Listed => tag[y] = l[o2[y]]
    BY <1>b DEF Homes, DistinctAddresses, Listed
  <2>1. /\ k[y] = "pool" => tag[y] = o[y]
        /\ k[y] = "slot" /\ k[o[y]] = "super" => tag[y] = i[o[y]]
        /\ k[y] = "slot" /\ k[o[y]] \in Listed => tag[y] = l[o[y]]
    BY <1>0 DEF Shape, Homes
  <2>2. k2[y] = "pool" => tag[y] = o2[y]
    BY <2>1, <1>c, <1>d2, <1>d3, <1>d4 DEF Listed
  <2>3. k2[y] = "slot" => k[y] = "slot" /\ o2[y] = o[y] /\ o[y] \in Buffers /\ o[y] # c
    BY <1>0, <1>c, <1>d4, <1>d7 DEF Shape, PlaceType
  <2>4. QED
    BY <2>1, <2>2, <2>3, <1>f6, <1>f7
<1>21. PlaceType(k2, o2, i2)'
  <2>1. m \in Nat
    BY <1>0, <1>1d DEF TypeOK
  <2>2. QED
    BY <2>1, <1>0, <1>c, <1>d2, <1>d4, <1>d7 DEF Shape, PlaceType, GhostType
<1>22. GhostType(k2, o2, i2, l)'
  <2>1. m \in Nat
    BY <1>0, <1>1d DEF TypeOK
  <2>2. k2 \in [Buffers -> Kinds]
    BY <1>0, <1>c DEF GhostType, Kinds
  <2>3. o2 \in [Buffers -> Threads \cup Buffers]
    BY <1>0, <1>c DEF GhostType
  <2>4. i2 \in [Buffers -> Threads \cup Nat]
    BY <2>1, <1>0, <1>c DEF GhostType
  <2>5. QED
    BY <2>2, <2>3, <2>4, <1>0 DEF GhostType
<1>23. Inv(k2, o2, i2, l)'
  BY <1>1, <1>3, <1>4, <1>5, <1>6, <1>7, <1>8, <1>9, <1>10, <1>11, <1>12, <1>13, <1>14,
     <1>15, <1>16, <1>17, <1>18, <1>19, <1>20, <1>21, <1>22
  DEF Inv, Shape
<1>24. QED
  BY <1>23

\* NewItem: the superbuffer of a new destination comes from the pool.
LEMMA NewItemStep ==
  ASSUME NEW k, NEW o, NEW i, NEW l, Inv(k, o, i, l), NEW t \in Threads,
         NewItem(t), UNCHANGED aborted
  PROVE  \E k2, o2, i2, l2 : Inv(k2, o2, i2, l2)'
<1>0. TypeOK /\ Items /\ Control /\ GhostType(k, o, i, l) /\ Shape(k, o, i, l)
  BY DEF Inv
<1>1a. PICK d : d = Dest(t)
  OBVIOUS
<1>1b. PICK g, m : TakeUnit(t, g, m) /\ super' = [super EXCEPT ![t][d] = m] /\ next' = [next EXCEPT ![m] = Null]
  BY <1>1a DEF NewItem
<1> DEFINE k2 == [x \in Buffers |-> IF x = m THEN "super" ELSE IF x \in g THEN "pool" ELSE k[x]]
           o2 == [x \in Buffers |-> IF x = m \/ x \in g THEN t ELSE o[x]]
           i2 == [x \in Buffers |-> IF x = m THEN d ELSE i[x]]
<1> HIDE DEF k2, o2, i2
<1>t1. g \subseteq Buffers /\ m \in Buffers /\ m # Null
  BY <1>1b, TakeUnitFacts
<1>t2. \A x \in g : k[x] = "fresh" /\ tag[x] = Null /\ status[x] = 0
  BY <1>1b, TakeUnitFacts
<1>t3. m \in g \/ (k[m] = "pool" /\ o[m] = t /\ tag[m] # Null)
  BY <1>1b, TakeUnitFacts
<1>t4. tag' = [x \in Buffers |-> IF x \in g THEN t ELSE tag[x]]
  BY <1>1b, TakeUnitFacts
<1>t5. status' = [status EXCEPT ![m] = 2]
  BY <1>1b, TakeUnitFacts
<1>t6. pool' = [pool EXCEPT ![t] = (@ \cup g) \ {m}]
  BY <1>1b, TakeUnitFacts
<1>t7. \A x \in Buffers : tag[x] # Null => tag'[x] = tag[x] /\ tag'[x] # Null
  BY <1>1b, TakeUnitFacts
<1>t8. tag' \in [Buffers -> Threads \cup {Null}] /\ status' \in [Buffers -> 0..2]
       /\ pool' \in [Threads -> SUBSET Buffers]
  BY <1>1b, TakeUnitFacts
<1>t9. next[m] = Null /\ \A j \in Slots : bufs[m][j] = Null
  BY <1>1b, TakeUnitFacts
<1>a. pc[t] = "send" /\ ~HasItem(t)
  BY DEF NewItem
<1>b. UNCHANGED <<bufs, head, held, op, pc, arg, buf, curr, stack, aborted>>
  BY DEF NewItem, callVars
<1>s1. d \in Threads
  BY <1>0, <1>1a, <1>a DEF Control, Dest
<1>s2. super' = [super EXCEPT ![t][d] = m]
  BY <1>1b
<1>s3. next' = next
  BY <1>0, <1>1b, <1>t1, <1>t9 DEF TypeOK
<1>s4. pos' = [pos EXCEPT ![t][d] = 0]
  BY <1>1a DEF NewItem
<1>s6. super' \in [Threads -> [Threads -> Buffers \cup {Null}]] /\ pos' \in [Threads -> [Threads -> 0..SuperSize]]
  BY <1>0, <1>s1, <1>s2, <1>s4, <1>t1, SizeAssumption DEF TypeOK
<1>s7. \A u, e \in Threads :
       /\ super'[u][e] = IF u = t /\ e = d THEN m ELSE super[u][e]
       /\ pos'[u][e] = IF u = t /\ e = d THEN 0 ELSE pos[u][e]
  BY <1>0, <1>s1, <1>s2, <1>s4 DEF TypeOK
<1>s5. super[t][d] = Null
  BY <1>a, <1>s1, <1>1a DEF HasItem, ItemsFor
<1>c. /\ k2 = [x \in Buffers |-> IF x = m THEN "super" ELSE IF x \in g THEN "pool" ELSE k[x]]
      /\ o2 = [x \in Buffers |-> IF x = m \/ x \in g THEN t ELSE o[x]]
      /\ i2 = [x \in Buffers |-> IF x = m THEN d ELSE i[x]]
  BY DEF k2, o2, i2
<1>f. \A x \in Buffers : k[x] \in {"held", "arg", "buf", "slot", "head", "next", "curr", "stack"}
      \/ k2[x] \in {"held", "arg", "buf", "slot", "head", "next", "curr", "stack"}
      => k2[x] = k[x] /\ o2[x] = o[x] /\ i2[x] = i[x]
  BY <1>t1, <1>t2, <1>t3, <1>c
<1>g1. \A y \in Buffers, n \in Buffers, j \in Slots :
       k2[y] = "slot" /\ o2[y] = n /\ i2[y] = j <=> k[y] = "slot" /\ o[y] = n /\ i[y] = j
  BY <1>f
<1>g2. \A y \in Buffers, u \in Threads, j \in Nat :
       k2[y] = "stack" /\ o2[y] = u /\ i2[y] = j <=> k[y] = "stack" /\ o[y] = u /\ i[y] = j
  BY <1>f
<1>g3. \A y \in Buffers : k[y] = "slot" => tag'[y] = tag[y] /\ o[y] \in Buffers /\ o[y] # m
  <2>1. \A y \in Buffers : k[y] = "slot" => o[y] \in Buffers /\ i[y] \in Slots /\ y = bufs[o[y]][i[y]]
    BY <1>0 DEF Shape, PlaceType, SlotAt
  <2>2. \A y \in Buffers : k[y] = "slot" => tag[y] # Null
    BY <1>0 DEF Shape, FreshAt
  <2>3. QED
    BY <2>1, <2>2, <1>t7, <1>t9, NullAssumption
<1>g4. \A y \in Buffers : (k2[y] \in Listed <=> k[y] \in Listed)
       /\ (k2[y] = "super" <=> y = m \/ k[y] = "super")
  BY <1>t1, <1>t2, <1>t3, <1>c DEF Listed
<1>g5. \A y \in Buffers : k[y] = "super" => y # m /\ o2[y] = o[y] /\ i2[y] = i[y]
       /\ o[y] \in Threads /\ i[y] \in Threads
  BY <1>0, <1>t1, <1>t2, <1>t3, <1>c DEF Shape, PlaceType
<1>f2. \A u \in Threads : Sending(u) => tag'[buf[u]] = tag[buf[u]]
  BY <1>0, <1>t7, NullAssumption DEF Control
<1>1. TypeOK'
  BY <1>0, <1>t1, <1>t8, <1>a, <1>b, <1>s1, <1>s3, <1>s6 DEF TypeOK, PCs
<1>2. \A u \in Threads : Frame(u)
  BY <1>0, Frames, <1>a, <1>b, <1>s2, <1>f2, <1>s2 DEF TypeOK, Sending
<1>3. Items'
  <2>1. ASSUME NEW u \in Threads, NEW e \in Threads,
               super'[u][e] # Null, ~(Sending(u)' /\ e = Item(u)')
        PROVE  pos'[u][e] < SuperSize
    <3>1. CASE u = t /\ e = d
      BY <3>1, <1>s7, <1>s1, SizeAssumption
    <3>2. CASE ~(u = t /\ e = d)
      <4>1. super[u][e] # Null /\ pos'[u][e] = pos[u][e]
        BY <2>1, <3>2, <1>s7
      <4>2. ~(Sending(u) /\ e = Item(u))
        BY <2>1, <1>2 DEF Frame
      <4>3. QED
        BY <4>1, <4>2, <1>0 DEF Items
    <3>3. QED
      BY <3>1, <3>2
  <2>2. ASSUME NEW u \in Threads, Sending(u)'
        PROVE  HasItem(u)' /\ pos'[u][Item(u)'] = SuperSize
    <3>1. Sending(u) /\ Item(u)' = Item(u) /\ (HasItem(u)' <=> HasItem(u))
      BY <2>2, <1>2 DEF Frame
    <3>2. HasItem(u) /\ pos[u][Item(u)] = SuperSize
      BY <3>1, <1>0 DEF Items
    <3>3. u # t
      BY <3>1, <1>a DEF Sending
    <3>4. QED
      BY <3>1, <3>2, <3>3, <1>s7, ItemIsThread
  <2>3. QED
    BY <2>1, <2>2 DEF Items
<1>4. Control'
  BY <1>0, <1>2, <1>t7, <1>t8, <1>a, <1>b, NullAssumption DEF Control, TypeOK, Frame, Sending
<1>5. FreshAt(k2)'
  BY <1>0, <1>t1, <1>t2, <1>t3, <1>t4, <1>b, <1>c, NullAssumption DEF Shape, FreshAt, TypeOK, GhostType
<1>6. HeldAt(k2)'
  BY <1>0, <1>t1, <1>t2, <1>t3, <1>b, <1>f DEF Shape, HeldAt, TypeOK, GhostType
<1>7. PoolAt(k2, o2)'
  BY <1>0, <1>t1, <1>t2, <1>t3, <1>t6, <1>b, <1>c DEF Shape, PoolAt, TypeOK, GhostType
<1>8. ArgAt(k2, o2)'
  BY <1>0, <1>t1, <1>t2, <1>t3, <1>b, <1>f DEF Shape, ArgAt, TypeOK, GhostType
<1>9. BufAt(k2, o2)'
  BY <1>0, <1>t1, <1>t2, <1>t3, <1>a, <1>b, <1>f DEF Shape, BufAt, TypeOK, GhostType
<1>10. SuperAt(k2, o2, i2)'
  <2> SUFFICES ASSUME NEW u \in Threads, NEW e \in Threads, NEW y \in Buffers
               PROVE  (y = super'[u][e] /\ ~Sent(u, e)')
                        <=> k2[y] = "super" /\ o2[y] = u /\ i2[y] = e
    BY DEF SuperAt
  <2>1. (y = super[u][e] /\ ~Sent(u, e)) <=> k[y] = "super" /\ o[y] = u /\ i[y] = e
    BY <1>0 DEF Shape, SuperAt
  <2>2. CASE u = t /\ e = d
    <3>1. super'[u][e] = m /\ ~Sent(u, e)'
      BY <2>2, <1>s7, <1>s1, <1>a, <1>b DEF Sent
    <3>2. ~(k[y] = "super" /\ o[y] = u /\ i[y] = e)
      BY <2>1, <2>2, <1>s5, NullAssumption
    <3>3. QED
      BY <3>1, <3>2, <2>2, <1>t1, <1>c, <1>g4, <1>g5
  <2>3. CASE ~(u = t /\ e = d)
    <3>1. super'[u][e] = super[u][e] /\ (Sent(u, e)' <=> Sent(u, e))
      BY <2>3, <1>2, <1>s7 DEF Frame
    <3>2. k2[y] = "super" /\ o2[y] = u /\ i2[y] = e <=> k[y] = "super" /\ o[y] = u /\ i[y] = e
      BY <2>3, <1>c, <1>g4, <1>g5
    <3>3. QED
      BY <3>1, <3>2, <2>1
  <2>4. QED
    BY <2>2, <2>3
<1>11. SlotAt(k2, o2, i2)'
  BY <1>0, <1>b, <1>f, <1>g1, NullAssumption DEF Shape, SlotAt, TypeOK, GhostType
<1>12. HeadAt(k2, o2)'
  BY <1>0, <1>b, <1>f DEF Shape, HeadAt, TypeOK, GhostType
<1>13. NextAt(k2, o2)'
  BY <1>0, <1>2, <1>a, <1>b, <1>f, <1>s3 DEF Shape, NextAt, TypeOK, GhostType, Frame
<1>14. CurrAt(k2, o2)'
  BY <1>0, <1>b, <1>f DEF Shape, CurrAt, TypeOK, GhostType
<1>15. StackAt(k2, o2, i2)'
  BY <1>0, <1>b, <1>f, <1>g2 DEF Shape, StackAt, TypeOK, GhostType
<1>16. Filled(k2, o2, i2)'
  <2> SUFFICES ASSUME NEW n \in Buffers
               PROVE  /\ k2[n] \in Listed => \A j \in Slots : bufs[n][j] # Null
                      /\ k2[n] = "super" =>
                           /\ \A j \in Slots : bufs[n][j] # Null <=> j <= pos'[o2[n]][i2[n]]
                           /\ next'[n] # Null => Linking(o2[n], n)'
                      /\ k2[n] \notin Listed \cup {"super"} =>
                           next'[n] = Null /\ \A j \in Slots : bufs[n][j] = Null
    BY <1>b DEF Filled, Listed
  <2>1. next'[n] = next[n]
    BY <1>s3
  <2>2. CASE n = m
    <3>1. pos'[t][d] = 0 /\ k2[m] = "super" /\ o2[m] = t /\ i2[m] = d
      BY <1>s1, <1>s7, <1>c, <1>t1
    <3>2. QED
      BY <3>1, <2>1, <2>2, <1>t9 DEF Listed, Slots
  <2>3. CASE n # m
    <3>1. /\ k[n] \in Listed => \A j \in Slots : bufs[n][j] # Null
          /\ k[n] = "super" =>
                /\ \A j \in Slots : bufs[n][j] # Null <=> j <= pos[o[n]][i[n]]
                /\ next[n] # Null => Linking(o[n], n)
          /\ k[n] \notin Listed \cup {"super"} =>
                next[n] = Null /\ \A j \in Slots : bufs[n][j] = Null
      BY <1>0 DEF Shape, Filled
    <3>2. k[n] = "super" => (Linking(o[n], n) => Linking(o[n], n)')
      BY <1>0, <1>2, <1>g5 DEF Frame
    <3>3. k[n] = "super" => pos'[o[n]][i[n]] = pos[o[n]][i[n]]
      <4>1. k[n] = "super" => n = super[o[n]][i[n]]
        BY <1>0, <1>g5 DEF Shape, SuperAt
      <4>2. QED
        BY <4>1, <1>s1, <1>s5, <1>s7, <1>g5, NullAssumption
    <3>4. QED
      BY <3>1, <3>2, <3>3, <2>1, <2>3, <1>g4, <1>g5 DEF Listed
  <2>4. QED
    BY <2>2, <2>3
<1>17. ListIds(k2, o2, l)'
  BY <1>0, <1>b, <1>f DEF Shape, ListIds, GhostType, PlaceType, Listed
<1>18. Detaching(k2, l)'
  BY <1>0, <1>b, <1>f DEF Shape, Detaching, TypeOK, GhostType
<1>19. Statuses(k2, o2)'
  BY <1>0, <1>t1, <1>t2, <1>t3, <1>t5, <1>b, <1>c, <1>f
  DEF Shape, Statuses, BufAt, TypeOK, GhostType, PlaceType, Listed
<1>20. DistinctAddresses' => Homes(k2, o2, i2, l)'
  <2> SUFFICES ASSUME DistinctAddresses, NEW y \in Buffers
               PROVE  /\ k2[y] = "pool" => tag'[y] = o2[y]
                      /\ k2[y] = "slot" /\ k2[o2[y]] = "super" => tag'[y] = i2[o2[y]]
                      /\ k2[y] = "slot" /\ k2[o2[y]] \in Listed => tag'[y] = l[o2[y]]
    BY <1>b DEF Homes, DistinctAddresses, Listed
  <2>1. /\ k[y] = "pool" => tag[y] = o[y]
        /\ k[y] = "slot" /\ k[o[y]] = "super" => tag[y] = i[o[y]]
        /\ k[y] = "slot" /\ k[o[y]] \in Listed => tag[y] = l[o[y]]
    BY <1>0 DEF Shape, Homes
  <2>2. k2[y] = "pool" => tag'[y] = o2[y]
    <3>1. k[y] = "pool" => tag[y] # Null
      BY <1>0 DEF Shape, FreshAt
    <3>2. QED
      BY <3>1, <2>1, <1>t1, <1>t4, <1>t7, <1>c
  <2>3. k2[y] = "slot" => k[y] = "slot" /\ o2[y] = o[y]
    BY <1>f
  <2>4. QED
    BY <2>1, <2>2, <2>3, <1>g3, <1>g4, <1>g5
<1>21. PlaceType(k2, o2, i2)'
  BY <1>0, <1>t1, <1>t2, <1>t3, <1>b, <1>c, <1>s1 DEF Shape, PlaceType, GhostType
<1>22. GhostType(k2, o2, i2, l)'
  <2>2. k2 \in [Buffers -> Kinds]
    BY <1>0, <1>c DEF GhostType, Kinds
  <2>3. o2 \in [Buffers -> Threads \cup Buffers]
    BY <1>0, <1>c DEF GhostType
  <2>4. i2 \in [Buffers -> Threads \cup Nat]
    BY <1>0, <1>c, <1>s1 DEF GhostType
  <2>5. QED
    BY <2>2, <2>3, <2>4, <1>0 DEF GhostType
<1>23. Inv(k2, o2, i2, l)'
  BY <1>1, <1>3, <1>4, <1>5, <1>6, <1>7, <1>8, <1>9, <1>10, <1>11, <1>12, <1>13, <1>14,
     <1>15, <1>16, <1>17, <1>18, <1>19, <1>20, <1>21, <1>22
  DEF Inv, Shape
<1>24. QED
  BY <1>23

\* Refill: a new superbuffer replaces the one that was sent.
LEMMA RefillStep ==
  ASSUME NEW k, NEW o, NEW i, NEW l, Inv(k, o, i, l), NEW t \in Threads,
         Refill(t), UNCHANGED aborted
  PROVE  \E k2, o2, i2, l2 : Inv(k2, o2, i2, l2)'
<1>0. TypeOK /\ Items /\ Control /\ GhostType(k, o, i, l) /\ Shape(k, o, i, l)
  BY DEF Inv
<1>1a. PICK d : d = Item(t)
  OBVIOUS
<1>1b. PICK g, m : TakeUnit(t, g, m) /\ super' = [super EXCEPT ![t][d] = m] /\ next' = [next EXCEPT ![m] = Null]
  BY <1>1a DEF Refill
<1> DEFINE k2 == [x \in Buffers |-> IF x = m THEN "super" ELSE IF x \in g THEN "pool" ELSE k[x]]
           o2 == [x \in Buffers |-> IF x = m \/ x \in g THEN t ELSE o[x]]
           i2 == [x \in Buffers |-> IF x = m THEN d ELSE i[x]]
<1> HIDE DEF k2, o2, i2
<1>t1. g \subseteq Buffers /\ m \in Buffers /\ m # Null
  BY <1>1b, TakeUnitFacts
<1>t2. \A x \in g : k[x] = "fresh" /\ tag[x] = Null /\ status[x] = 0
  BY <1>1b, TakeUnitFacts
<1>t3. m \in g \/ (k[m] = "pool" /\ o[m] = t /\ tag[m] # Null)
  BY <1>1b, TakeUnitFacts
<1>t4. tag' = [x \in Buffers |-> IF x \in g THEN t ELSE tag[x]]
  BY <1>1b, TakeUnitFacts
<1>t5. status' = [status EXCEPT ![m] = 2]
  BY <1>1b, TakeUnitFacts
<1>t6. pool' = [pool EXCEPT ![t] = (@ \cup g) \ {m}]
  BY <1>1b, TakeUnitFacts
<1>t7. \A x \in Buffers : tag[x] # Null => tag'[x] = tag[x] /\ tag'[x] # Null
  BY <1>1b, TakeUnitFacts
<1>t8. tag' \in [Buffers -> Threads \cup {Null}] /\ status' \in [Buffers -> 0..2]
       /\ pool' \in [Threads -> SUBSET Buffers]
  BY <1>1b, TakeUnitFacts
<1>t9. next[m] = Null /\ \A j \in Slots : bufs[m][j] = Null
  BY <1>1b, TakeUnitFacts
<1>a. pc[t] = "refill" /\ pc' = [pc EXCEPT ![t] = "readhead"]
  BY DEF Refill
<1>s0. buf' = [buf EXCEPT ![t] = Null]
  BY DEF Refill
<1>b. UNCHANGED <<bufs, head, held, op, arg, curr, stack, aborted>>
  BY DEF Refill, callVars
<1>s1. d \in Threads
  BY <1>0, <1>1a, <1>a, ItemIsThread DEF Items, Sending
<1>s2. super' = [super EXCEPT ![t][d] = m]
  BY <1>1b
<1>s3. next' = next
  BY <1>0, <1>1b, <1>t1, <1>t9 DEF TypeOK
<1>s4. pos' = [pos EXCEPT ![t][d] = 0]
  BY <1>1a DEF Refill
<1>s6. super' \in [Threads -> [Threads -> Buffers \cup {Null}]] /\ pos' \in [Threads -> [Threads -> 0..SuperSize]]
  BY <1>0, <1>s1, <1>s2, <1>s4, <1>t1, SizeAssumption DEF TypeOK
<1>s7. \A u, e \in Threads :
       /\ super'[u][e] = IF u = t /\ e = d THEN m ELSE super[u][e]
       /\ pos'[u][e] = IF u = t /\ e = d THEN 0 ELSE pos[u][e]
  BY <1>0, <1>s1, <1>s2, <1>s4 DEF TypeOK
<1>s5. \A y \in Buffers : ~(k[y] = "super" /\ o[y] = t /\ i[y] = d)
  BY <1>0, <1>1a, <1>a, <1>s1 DEF Shape, SuperAt, Sent
<1>s8. /\ ~Sending(t)' /\ Sending(t)
       /\ \A n \in Buffers : ~Linking(t, n) /\ ~Linking(t, n)'
  BY <1>0, <1>a DEF TypeOK, Sending, Linking
<1>c. /\ k2 = [x \in Buffers |-> IF x = m THEN "super" ELSE IF x \in g THEN "pool" ELSE k[x]]
      /\ o2 = [x \in Buffers |-> IF x = m \/ x \in g THEN t ELSE o[x]]
      /\ i2 = [x \in Buffers |-> IF x = m THEN d ELSE i[x]]
  BY DEF k2, o2, i2
<1>f. \A x \in Buffers : k[x] \in {"held", "arg", "buf", "slot", "head", "next", "curr", "stack"}
      \/ k2[x] \in {"held", "arg", "buf", "slot", "head", "next", "curr", "stack"}
      => k2[x] = k[x] /\ o2[x] = o[x] /\ i2[x] = i[x]
  BY <1>t1, <1>t2, <1>t3, <1>c
<1>g1. \A y \in Buffers, n \in Buffers, j \in Slots :
       k2[y] = "slot" /\ o2[y] = n /\ i2[y] = j <=> k[y] = "slot" /\ o[y] = n /\ i[y] = j
  BY <1>f
<1>g2. \A y \in Buffers, u \in Threads, j \in Nat :
       k2[y] = "stack" /\ o2[y] = u /\ i2[y] = j <=> k[y] = "stack" /\ o[y] = u /\ i[y] = j
  BY <1>f
<1>g3. \A y \in Buffers : k[y] = "slot" => tag'[y] = tag[y] /\ o[y] \in Buffers /\ o[y] # m
  <2>1. \A y \in Buffers : k[y] = "slot" => o[y] \in Buffers /\ i[y] \in Slots /\ y = bufs[o[y]][i[y]]
    BY <1>0 DEF Shape, PlaceType, SlotAt
  <2>2. \A y \in Buffers : k[y] = "slot" => tag[y] # Null
    BY <1>0 DEF Shape, FreshAt
  <2>3. QED
    BY <2>1, <2>2, <1>t7, <1>t9, NullAssumption
<1>g4. \A y \in Buffers : (k2[y] \in Listed <=> k[y] \in Listed)
       /\ (k2[y] = "super" <=> y = m \/ k[y] = "super")
  BY <1>t1, <1>t2, <1>t3, <1>c DEF Listed
<1>g5. \A y \in Buffers : k[y] = "super" => y # m /\ o2[y] = o[y] /\ i2[y] = i[y]
       /\ o[y] \in Threads /\ i[y] \in Threads
  BY <1>0, <1>t1, <1>t2, <1>t3, <1>c DEF Shape, PlaceType
<1>1. TypeOK'
  BY <1>0, <1>t1, <1>t8, <1>a, <1>s0, <1>b, <1>s1, <1>s3, <1>s6 DEF TypeOK, PCs
<1>2. \A u \in Threads \ {t} : Frame(u)
  <2>1. \A u \in Threads \ {t} : pc'[u] = pc[u] /\ super'[u] = super[u] /\ buf'[u] = buf[u]
    BY <1>0, <1>a, <1>s0, <1>s2 DEF TypeOK
  <2>2. \A u \in Threads \ {t} : Sending(u) => tag'[buf[u]] = tag[buf[u]]
    BY <1>0, <1>t7, NullAssumption DEF Control
  <2>3. QED
    BY <2>1, <2>2, FrameSame
<1>3. Items'
  <2>1. ASSUME NEW u \in Threads, NEW e \in Threads,
               super'[u][e] # Null, ~(Sending(u)' /\ e = Item(u)')
        PROVE  pos'[u][e] < SuperSize
    <3>1. CASE u = t /\ e = d
      BY <3>1, <1>s7, <1>s1, SizeAssumption
    <3>2. CASE ~(u = t /\ e = d)
      <4>1. super[u][e] # Null /\ pos'[u][e] = pos[u][e]
        BY <2>1, <3>2, <1>s7
      <4>2. ~(Sending(u) /\ e = Item(u))
        BY <2>1, <3>2, <1>1a, <1>2, <1>s8 DEF Frame
      <4>3. QED
        BY <4>1, <4>2, <1>0 DEF Items
    <3>3. QED
      BY <3>1, <3>2
  <2>2. ASSUME NEW u \in Threads, Sending(u)'
        PROVE  HasItem(u)' /\ pos'[u][Item(u)'] = SuperSize
    <3>0. u # t
      BY <2>2, <1>s8
    <3>1. Sending(u) /\ Item(u)' = Item(u) /\ (HasItem(u)' <=> HasItem(u))
      BY <2>2, <3>0, <1>2 DEF Frame
    <3>2. HasItem(u) /\ pos[u][Item(u)] = SuperSize
      BY <3>1, <1>0 DEF Items
    <3>4. QED
      BY <3>0, <3>1, <3>2, <1>s7, ItemIsThread
  <2>3. QED
    BY <2>1, <2>2 DEF Items
<1>4. Control'
  BY <1>0, <1>2, <1>t7, <1>t8, <1>a, <1>s0, <1>b, NullAssumption DEF Control, TypeOK, Frame, Sending
<1>5. FreshAt(k2)'
  BY <1>0, <1>t1, <1>t2, <1>t3, <1>t4, <1>b, <1>c, NullAssumption DEF Shape, FreshAt, TypeOK, GhostType
<1>6. HeldAt(k2)'
  BY <1>0, <1>t1, <1>t2, <1>t3, <1>b, <1>f DEF Shape, HeldAt, TypeOK, GhostType
<1>7. PoolAt(k2, o2)'
  BY <1>0, <1>t1, <1>t2, <1>t3, <1>t6, <1>b, <1>c DEF Shape, PoolAt, TypeOK, GhostType
<1>8. ArgAt(k2, o2)'
  BY <1>0, <1>t1, <1>t2, <1>t3, <1>b, <1>f DEF Shape, ArgAt, TypeOK, GhostType
<1>9. BufAt(k2, o2)'
  BY <1>0, <1>t1, <1>t2, <1>t3, <1>a, <1>b, <1>f, <1>s0 DEF Shape, BufAt, TypeOK, GhostType
<1>10. SuperAt(k2, o2, i2)'
  <2> SUFFICES ASSUME NEW u \in Threads, NEW e \in Threads, NEW y \in Buffers
               PROVE  (y = super'[u][e] /\ ~Sent(u, e)')
                        <=> k2[y] = "super" /\ o2[y] = u /\ i2[y] = e
    BY DEF SuperAt
  <2>1. (y = super[u][e] /\ ~Sent(u, e)) <=> k[y] = "super" /\ o[y] = u /\ i[y] = e
    BY <1>0 DEF Shape, SuperAt
  <2>2. CASE u = t /\ e = d
    <3>1. super'[u][e] = m /\ ~Sent(u, e)'
      BY <2>2, <1>s7, <1>s1, <1>s8 DEF Sent, Sending
    <3>2. ~(k[y] = "super" /\ o[y] = u /\ i[y] = e)
      BY <2>1, <2>2, <1>s5
    <3>3. QED
      BY <3>1, <3>2, <2>2, <1>t1, <1>c, <1>g4, <1>g5
  <2>3. CASE ~(u = t /\ e = d)
    <3>1. super'[u][e] = super[u][e] /\ (Sent(u, e)' <=> Sent(u, e))
      BY <2>3, <1>2, <1>1a, <1>s7, <1>s8 DEF Frame, Sent, Sending
    <3>2. k2[y] = "super" /\ o2[y] = u /\ i2[y] = e <=> k[y] = "super" /\ o[y] = u /\ i[y] = e
      BY <2>3, <1>c, <1>g4, <1>g5
    <3>3. QED
      BY <3>1, <3>2, <2>1
  <2>4. QED
    BY <2>2, <2>3
<1>11. SlotAt(k2, o2, i2)'
  BY <1>0, <1>b, <1>f, <1>g1, NullAssumption DEF Shape, SlotAt, TypeOK, GhostType
<1>12. HeadAt(k2, o2)'
  BY <1>0, <1>b, <1>f DEF Shape, HeadAt, TypeOK, GhostType
<1>13. NextAt(k2, o2)'
  <2>1. \A n \in Buffers : (\A u \in Threads : ~Linking(u, n)') <=> \A u \in Threads : ~Linking(u, n)
    BY <1>2, <1>s8 DEF Frame
  <2>2. QED
    BY <2>1, <1>0, <1>s3, <1>f DEF Shape, NextAt
<1>14. CurrAt(k2, o2)'
  BY <1>0, <1>a, <1>b, <1>f DEF Shape, CurrAt, TypeOK, GhostType
<1>15. StackAt(k2, o2, i2)'
  BY <1>0, <1>b, <1>f, <1>g2 DEF Shape, StackAt, TypeOK, GhostType
<1>16. Filled(k2, o2, i2)'
  <2> SUFFICES ASSUME NEW n \in Buffers
               PROVE  /\ k2[n] \in Listed => \A j \in Slots : bufs[n][j] # Null
                      /\ k2[n] = "super" =>
                           /\ \A j \in Slots : bufs[n][j] # Null <=> j <= pos'[o2[n]][i2[n]]
                           /\ next'[n] # Null => Linking(o2[n], n)'
                      /\ k2[n] \notin Listed \cup {"super"} =>
                           next'[n] = Null /\ \A j \in Slots : bufs[n][j] = Null
    BY <1>b DEF Filled, Listed
  <2>1. next'[n] = next[n]
    BY <1>s3
  <2>2. CASE n = m
    <3>1. pos'[t][d] = 0 /\ k2[m] = "super" /\ o2[m] = t /\ i2[m] = d
      BY <1>s1, <1>s7, <1>c, <1>t1
    <3>2. QED
      BY <3>1, <2>1, <2>2, <1>t9 DEF Listed, Slots
  <2>3. CASE n # m
    <3>1. /\ k[n] \in Listed => \A j \in Slots : bufs[n][j] # Null
          /\ k[n] = "super" =>
                /\ \A j \in Slots : bufs[n][j] # Null <=> j <= pos[o[n]][i[n]]
                /\ next[n] # Null => Linking(o[n], n)
          /\ k[n] \notin Listed \cup {"super"} =>
                next[n] = Null /\ \A j \in Slots : bufs[n][j] = Null
      BY <1>0 DEF Shape, Filled
    <3>2. k[n] = "super" => (Linking(o[n], n) => Linking(o[n], n)')
      BY <1>0, <1>2, <1>s8, <1>g5 DEF Frame
    <3>3. k[n] = "super" => pos'[o[n]][i[n]] = pos[o[n]][i[n]]
BY <1>s1, <1>s5, <1>s7, <1>g5
    <3>4. QED
      BY <3>1, <3>2, <3>3, <2>1, <2>3, <1>g4, <1>g5 DEF Listed
  <2>4. QED
    BY <2>2, <2>3
<1>17. ListIds(k2, o2, l)'
  BY <1>0, <1>b, <1>f DEF Shape, ListIds, GhostType, PlaceType, Listed
<1>18. Detaching(k2, l)'
  <2>1. \A u \in Threads : pc'[u] = "detach" => pc[u] = "detach" /\ curr'[u] = curr[u]
    BY <1>0, <1>a, <1>b DEF TypeOK
  <2>2. QED
    BY <2>1, <1>0, <1>f DEF Shape, Detaching
<1>19. Statuses(k2, o2)'
  BY <1>0, <1>t1, <1>t2, <1>t3, <1>t5, <1>a, <1>b, <1>c, <1>f
  DEF Shape, Statuses, BufAt, TypeOK, GhostType, PlaceType, Listed
<1>20. DistinctAddresses' => Homes(k2, o2, i2, l)'
  <2> SUFFICES ASSUME DistinctAddresses, NEW y \in Buffers
               PROVE  /\ k2[y] = "pool" => tag'[y] = o2[y]
                      /\ k2[y] = "slot" /\ k2[o2[y]] = "super" => tag'[y] = i2[o2[y]]
                      /\ k2[y] = "slot" /\ k2[o2[y]] \in Listed => tag'[y] = l[o2[y]]
    BY <1>b DEF Homes, DistinctAddresses, Listed
  <2>1. /\ k[y] = "pool" => tag[y] = o[y]
        /\ k[y] = "slot" /\ k[o[y]] = "super" => tag[y] = i[o[y]]
        /\ k[y] = "slot" /\ k[o[y]] \in Listed => tag[y] = l[o[y]]
    BY <1>0 DEF Shape, Homes
  <2>2. k2[y] = "pool" => tag'[y] = o2[y]
    <3>1. k[y] = "pool" => tag[y] # Null
      BY <1>0 DEF Shape, FreshAt
    <3>2. QED
      BY <3>1, <2>1, <1>t1, <1>t4, <1>t7, <1>c
  <2>3. k2[y] = "slot" => k[y] = "slot" /\ o2[y] = o[y]
    BY <1>f
  <2>4. QED
    BY <2>1, <2>2, <2>3, <1>g3, <1>g4, <1>g5
<1>21. PlaceType(k2, o2, i2)'
  BY <1>0, <1>t1, <1>t2, <1>t3, <1>b, <1>c, <1>s1 DEF Shape, PlaceType, GhostType
<1>22. GhostType(k2, o2, i2, l)'
  <2>2. k2 \in [Buffers -> Kinds]
    BY <1>0, <1>c DEF GhostType, Kinds
  <2>3. o2 \in [Buffers -> Threads \cup Buffers]
    BY <1>0, <1>c DEF GhostType
  <2>4. i2 \in [Buffers -> Threads \cup Nat]
    BY <1>0, <1>c, <1>s1 DEF GhostType
  <2>5. QED
    BY <2>2, <2>3, <2>4, <1>0 DEF GhostType
<1>23. Inv(k2, o2, i2, l)'
  BY <1>1, <1>3, <1>4, <1>5, <1>6, <1>7, <1>8, <1>9, <1>10, <1>11, <1>12, <1>13, <1>14,
     <1>15, <1>16, <1>17, <1>18, <1>19, <1>20, <1>21, <1>22
  DEF Inv, Shape
<1>24. QED
  BY <1>23

-----------------------------------------------------------------------------
(* Filling and sending a superbuffer.                                      *)

\* Store: the buffer takes the next slot, and a full superbuffer is sent.
LEMMA StoreStep ==
  ASSUME NEW k, NEW o, NEW i, NEW l, Inv(k, o, i, l), NEW t \in Threads,
         Store(t), UNCHANGED aborted
  PROVE  \E k2, o2, i2, l2 : Inv(k2, o2, i2, l2)'
<1>0. TypeOK /\ Items /\ Control /\ GhostType(k, o, i, l) /\ Shape(k, o, i, l)
  BY DEF Inv
<1>1a. PICK e, n, p, b : e = Item(t) /\ n = super[t][e] /\ p = pos[t][e] + 1 /\ b = buf[t]
  OBVIOUS
<1> DEFINE k2 == [k EXCEPT ![b] = "slot"]
           o2 == [o EXCEPT ![b] = n]
           i2 == [i EXCEPT ![b] = p]
<1> HIDE DEF k2, o2, i2
<1>a. pc[t] = "send" /\ HasItem(t)
  BY DEF Store
<1>a2. bufs' = [bufs EXCEPT ![n][p] = b] /\ pos' = [pos EXCEPT ![t][e] = p]
  BY <1>1a DEF Store
<1>a3. \/ p >= SuperSize /\ pc' = [pc EXCEPT ![t] = "addread"] /\ buf' = buf
       \/ p < SuperSize /\ pc' = [pc EXCEPT ![t] = "return"] /\ buf' = [buf EXCEPT ![t] = Null]
  <2>1. pos[t][e] \in Nat
    BY <1>0, <1>1a, <1>a, ItemIsThread DEF TypeOK
  <2>2. QED
    BY <2>1, <1>1a, SizeAssumption DEF Store, IsFull
<1>b. UNCHANGED <<tag, status, pool, super, next, head, held, op, arg, curr, stack, aborted>>
  BY DEF Store, heapVars, callVars
<1>c. k2 = [k EXCEPT ![b] = "slot"] /\ o2 = [o EXCEPT ![b] = n] /\ i2 = [i EXCEPT ![b] = p]
  BY DEF k2, o2, i2
<1>s1. e \in Threads /\ n # Null /\ Low32[e] = Low32[Dest(t)] /\ n \in Buffers
  BY <1>0, <1>1a, <1>a, ItemIsThread DEF TypeOK
<1>s2. k[n] = "super" /\ o[n] = t /\ i[n] = e
  <2>1. ~Sent(t, e)
    BY <1>a DEF Sent
  <2>2. QED
    BY <2>1, <1>0, <1>1a, <1>s1 DEF Shape, SuperAt
<1>s3. pos[t][e] < SuperSize /\ pos[t][e] \in Nat /\ p \in Slots /\ p <= SuperSize /\ p = pos[t][e] + 1
  <2>1. pos[t][e] < SuperSize
    BY <1>0, <1>1a, <1>a, <1>s1 DEF Items, Sending
  <2>2. pos[t][e] \in Nat
    BY <1>0, <1>s1 DEF TypeOK
  <2>3. QED
    BY <2>1, <2>2, <1>1a, SizeAssumption DEF Slots
<1>s4. b \in Buffers /\ tag[b] \in Threads /\ Dest(t) = tag[b] /\ b # Null
  BY <1>0, <1>1a, <1>a, NullAssumption DEF Control, Dest
<1>s5. k[b] = "buf" /\ o[b] = t
  BY <1>0, <1>1a, <1>a, <1>s4 DEF Shape, BufAt
<1>s6. bufs[n][p] = Null
  BY <1>0, <1>s1, <1>s2, <1>s3 DEF Shape, Filled
<1>s7. /\ \A u \in Threads \ {t} : pc'[u] = pc[u] /\ buf'[u] = buf[u]
       /\ pc'[t] \in {"addread", "return"} /\ pc' \in [Threads -> PCs]
       /\ buf' \in [Threads -> Buffers \cup {Null}]
       /\ pc'[t] = "addread" => p = SuperSize /\ buf'[t] = b
       /\ pc'[t] = "return" => p < SuperSize
  <2>1. pc \in [Threads -> PCs] /\ buf \in [Threads -> Buffers \cup {Null}] /\ buf[t] = b
    BY <1>0, <1>1a DEF TypeOK
  <2>2. CASE p >= SuperSize /\ pc' = [pc EXCEPT ![t] = "addread"] /\ buf' = buf
    BY <2>1, <2>2, <1>s3, SizeAssumption DEF PCs
  <2>3. CASE p < SuperSize /\ pc' = [pc EXCEPT ![t] = "return"] /\ buf' = [buf EXCEPT ![t] = Null]
    BY <2>1, <2>3 DEF PCs
  <2>4. QED
    BY <2>2, <2>3, <1>a3
<1>s8. /\ pos' \in [Threads -> [Threads -> 0..SuperSize]] /\ bufs' \in [Buffers -> [Slots -> Buffers \cup {Null}]]
  <2>1. p \in 0..SuperSize
    BY <1>s3, SizeAssumption
  <2>2. pos' \in [Threads -> [Threads -> 0..SuperSize]]
    BY <2>1, <1>0, <1>a2, <1>s1 DEF TypeOK
  <2>3. bufs' \in [Buffers -> [Slots -> Buffers \cup {Null}]]
    BY <1>0, <1>a2, <1>s1, <1>s3, <1>s4 DEF TypeOK
  <2>4. QED
    BY <2>2, <2>3
<1>s9. \A u, f \in Threads : pos'[u][f] = IF u = t /\ f = e THEN p ELSE pos[u][f]
  BY <1>0, <1>a2, <1>s1 DEF TypeOK
<1>s10. \A x \in Buffers, j \in Slots : bufs'[x][j] = IF x = n /\ j = p THEN b ELSE bufs[x][j]
  BY <1>0, <1>a2, <1>s1, <1>s3 DEF TypeOK
<1>s11. /\ ~Sending(t) /\ (Sending(t)' <=> pc'[t] = "addread")
        /\ \A f \in Threads : ~Sent(t, f) /\ ~Sent(t, f)'
        /\ \A x \in Buffers : ~Linking(t, x) /\ ~Linking(t, x)'
  BY <1>a, <1>s7 DEF Sending, Sent, Linking
<1>s12. pc'[t] = "addread" => Item(t)' = e /\ HasItem(t)'
  <2>1. ASSUME pc'[t] = "addread" PROVE buf'[t] = buf[t]
    BY <2>1, <1>1a, <1>s7
  <2>2. QED
    BY <2>1, <1>1a, <1>a, <1>b, ItemFrame
<1>f. \A x \in Buffers : x # b => k2[x] = k[x] /\ o2[x] = o[x] /\ i2[x] = i[x]
  BY <1>0, <1>c DEF GhostType
<1>f1. k2[b] = "slot" /\ o2[b] = n /\ i2[b] = p
  BY <1>0, <1>c, <1>s4 DEF GhostType
<1>f2. \A x \in Buffers : k[x] \in {"held", "pool", "arg", "head", "curr", "stack"}
       \/ k2[x] \in {"held", "pool", "arg", "head", "curr", "stack"}
       => k2[x] = k[x] /\ o2[x] = o[x] /\ i2[x] = i[x]
  BY <1>f, <1>f1, <1>s5
<1>1. TypeOK'
  BY <1>0, <1>a, <1>b, <1>s7, <1>s8 DEF TypeOK, PCs
<1>2. \A u \in Threads \ {t} : Frame(u)
  BY <1>b, <1>s7, FrameSame
<1>3. Items'
  <2>1. ASSUME NEW u \in Threads, NEW f \in Threads,
               super[u][f] # Null, ~(Sending(u)' /\ f = Item(u)')
        PROVE  pos'[u][f] < SuperSize
    <3>1. CASE u = t /\ f = e
      BY <2>1, <3>1, <1>s7, <1>s9, <1>s11, <1>s12
    <3>2. CASE ~(u = t /\ f = e)
      <4>1. pos'[u][f] = pos[u][f]
        BY <3>2, <1>s9
      <4>2. ~(Sending(u) /\ f = Item(u))
        BY <2>1, <1>2, <1>s11 DEF Frame
      <4>3. QED
        BY <2>1, <4>1, <4>2, <1>0 DEF Items
    <3>3. QED
      BY <3>1, <3>2
  <2>2. ASSUME NEW u \in Threads, Sending(u)'
        PROVE  HasItem(u)' /\ pos'[u][Item(u)'] = SuperSize
    <3>1. CASE u = t
      BY <2>2, <3>1, <1>s1, <1>s7, <1>s9, <1>s11, <1>s12
    <3>2. CASE u # t
      <4>1. Sending(u) /\ Item(u)' = Item(u) /\ (HasItem(u)' <=> HasItem(u))
        BY <2>2, <3>2, <1>2 DEF Frame
      <4>2. HasItem(u) /\ pos[u][Item(u)] = SuperSize
        BY <4>1, <1>0 DEF Items
      <4>3. QED
        BY <4>1, <4>2, <3>2, <1>s9, ItemIsThread
    <3>3. QED
      BY <3>1, <3>2
  <2>3. QED
    BY <2>1, <2>2, <1>b DEF Items
<1>4. Control'
  <2>1. op' = op /\ arg' = arg /\ tag' = tag
    BY <1>b
  <2>2. \A u \in Threads \ {t} : Sending(u)' <=> Sending(u)
    BY <1>2 DEF Frame
  <2>3. pc[t] # "idle" /\ pc'[t] \notin {"idle", "alloc", "tfree", "send"}
    BY <1>a, <1>s7
  <2>4. Sending(t)' => buf'[t] = b
    BY <1>s7, <1>s11
  <2>5. QED
    BY <2>1, <2>2, <2>3, <2>4, <1>0, <1>s4, <1>s7 DEF Control
<1>5. FreshAt(k2)'
  BY <1>0, <1>b, <1>s4, <1>f, <1>f1, <1>s5 DEF Shape, FreshAt, TypeOK, GhostType
<1>6. HeldAt(k2)'
  BY <1>0, <1>b, <1>s4, <1>f, <1>f1, <1>s5 DEF Shape, HeldAt, TypeOK, GhostType
<1>7. PoolAt(k2, o2)'
  BY <1>0, <1>b, <1>f2 DEF Shape, PoolAt
<1>8. ArgAt(k2, o2)'
  BY <1>0, <1>b, <1>f2 DEF Shape, ArgAt
<1>9. BufAt(k2, o2)'
  <2> SUFFICES ASSUME NEW u \in Threads, NEW y \in Buffers
               PROVE  (y = buf'[u] /\ pc'[u] \in {"tfree", "send"}) <=> k2[y] = "buf" /\ o2[y] = u
    BY DEF BufAt
  <2>1. (y = buf[u] /\ pc[u] \in {"tfree", "send"}) <=> k[y] = "buf" /\ o[y] = u
    BY <1>0 DEF Shape, BufAt
  <2>2. k2[y] = "buf" => y # b /\ k[y] = "buf" /\ o2[y] = o[y]
    BY <1>f, <1>f1
  <2>3. CASE u = t
    BY <2>1, <2>2, <2>3, <1>1a, <1>s7
  <2>4. CASE u # t
    BY <2>1, <2>2, <2>4, <1>f, <1>s5, <1>s7
  <2>5. QED
    BY <2>3, <2>4
<1>10. SuperAt(k2, o2, i2)'
  <2>1. \A u, f \in Threads : Sent(u, f)' <=> Sent(u, f)
    BY <1>2, <1>s11 DEF Frame
  <2>2. QED
    BY <2>1, <1>0, <1>b, <1>f, <1>f1, <1>s5 DEF Shape, SuperAt
<1>11. SlotAt(k2, o2, i2)'
  <2> SUFFICES ASSUME NEW x \in Buffers, NEW j \in Slots, NEW y \in Buffers
               PROVE  y = bufs'[x][j] <=> k2[y] = "slot" /\ o2[y] = x /\ i2[y] = j
    BY DEF SlotAt
  <2>1. y = bufs[x][j] <=> k[y] = "slot" /\ o[y] = x /\ i[y] = j
    BY <1>0 DEF Shape, SlotAt
  <2>2. CASE x = n /\ j = p
    BY <2>1, <2>2, <1>f, <1>f1, <1>s6, <1>s10, NullAssumption
  <2>3. CASE ~(x = n /\ j = p)
    BY <2>1, <2>3, <1>f, <1>f1, <1>s5, <1>s10
  <2>4. QED
    BY <2>2, <2>3
<1>12. HeadAt(k2, o2)'
  BY <1>0, <1>b, <1>f2 DEF Shape, HeadAt
<1>13. NextAt(k2, o2)'
  <2>1. \A x \in Buffers : (\A u \in Threads : ~Linking(u, x)') <=> \A u \in Threads : ~Linking(u, x)
    BY <1>2, <1>s11 DEF Frame
  <2>2. QED
    BY <2>1, <1>0, <1>b, <1>f, <1>f1, <1>s5 DEF Shape, NextAt
<1>14. CurrAt(k2, o2)'
  <2>1. \A u \in Threads : pc'[u] = "drain" <=> pc[u] = "drain"
    BY <1>a, <1>s7
  <2>2. QED
    BY <2>1, <1>0, <1>b, <1>f2 DEF Shape, CurrAt
<1>15. StackAt(k2, o2, i2)'
  <2>1. \A y \in Buffers, u \in Threads, j \in Nat :
          k2[y] = "stack" /\ o2[y] = u /\ i2[y] = j <=> k[y] = "stack" /\ o[y] = u /\ i[y] = j
    BY <1>f2
  <2>2. QED
    BY <2>1, <1>0, <1>b DEF Shape, StackAt
<1>16. Filled(k2, o2, i2)'
  <2> SUFFICES ASSUME NEW x \in Buffers
               PROVE  /\ k2[x] \in Listed => \A j \in Slots : bufs'[x][j] # Null
                      /\ k2[x] = "super" =>
                           /\ \A j \in Slots : bufs'[x][j] # Null <=> j <= pos'[o2[x]][i2[x]]
                           /\ next[x] # Null => Linking(o2[x], x)'
                      /\ k2[x] \notin Listed \cup {"super"} =>
                           next[x] = Null /\ \A j \in Slots : bufs'[x][j] = Null
    BY <1>b DEF Filled, Listed
  <2>1. /\ k[x] \in Listed => \A j \in Slots : bufs[x][j] # Null
        /\ k[x] = "super" =>
              /\ \A j \in Slots : bufs[x][j] # Null <=> j <= pos[o[x]][i[x]]
              /\ next[x] # Null => Linking(o[x], x)
        /\ k[x] \notin Listed \cup {"super"} =>
              next[x] = Null /\ \A j \in Slots : bufs[x][j] = Null
    BY <1>0 DEF Shape, Filled
  <2>2. CASE x = n
    <3>1. \A j \in Slots : bufs'[n][j] # Null <=> j <= p
      BY <2>1, <2>2, <1>s1, <1>s2, <1>s3, <1>s4, <1>s10 DEF Slots
    <3>2. k2[n] = "super" /\ o2[n] = t /\ i2[n] = e /\ next[n] = Null /\ pos'[t][e] = p
      BY <2>1, <2>2, <1>f, <1>s1, <1>s2, <1>s5, <1>s9, <1>s11
    <3>3. QED
      BY <3>1, <3>2, <2>2 DEF Listed
  <2>3. CASE x # n
    <3>1. \A j \in Slots : bufs'[x][j] = bufs[x][j]
      BY <2>3, <1>s10
    <3>2. CASE x = b
      BY <3>1, <3>2, <2>1, <1>f1, <1>s5 DEF Listed
    <3>3. CASE x # b
      <4>1. k2[x] = k[x] /\ o2[x] = o[x] /\ i2[x] = i[x]
        BY <3>3, <1>f
      <4>2. k[x] = "super" => (Linking(o[x], x) => Linking(o[x], x)')
        BY <1>0, <1>2, <1>s11 DEF Frame, Shape, PlaceType
      <4>3. k[x] = "super" => pos'[o[x]][i[x]] = pos[o[x]][i[x]]
        <5>1. k[x] = "super" => o[x] \in Threads /\ i[x] \in Threads /\ x = super[o[x]][i[x]]
          BY <1>0 DEF Shape, PlaceType, SuperAt
        <5>2. QED
          BY <5>1, <2>3, <1>1a, <1>s9
      <4>4. QED
        BY <4>1, <4>2, <4>3, <3>1, <2>1
    <3>4. QED
      BY <3>2, <3>3
  <2>4. QED
    BY <2>2, <2>3
<1>17. ListIds(k2, o2, l)'
  BY <1>0, <1>b, <1>s4, <1>f, <1>f1, <1>s5 DEF Shape, ListIds, GhostType, PlaceType, Listed, PlaceType
<1>18. Detaching(k2, l)'
  <2> SUFFICES ASSUME NEW u \in Threads, pc'[u] = "detach"
               PROVE  curr[u] \in Buffers /\ k2[curr[u]] \in {"head", "next"} /\ l[curr[u]] = u
    BY <1>b DEF Detaching
  <2>1. pc[u] = "detach"
    BY <1>a, <1>s7
  <2>2. curr[u] \in Buffers /\ k[curr[u]] \in {"head", "next"} /\ l[curr[u]] = u
    BY <1>0, <2>1 DEF Shape, Detaching
  <2>3. QED
    BY <2>2, <1>f, <1>s5
<1>19. Statuses(k2, o2)'
  BY <1>0, <1>b, <1>c, <1>s4, <1>s5, <1>s7, <1>f, <1>f1, <1>a
  DEF Shape, Statuses, BufAt, TypeOK, GhostType, PlaceType, Listed
<1>20. DistinctAddresses' => Homes(k2, o2, i2, l)'
  <2> SUFFICES ASSUME DistinctAddresses, NEW y \in Buffers
               PROVE  /\ k2[y] = "pool" => tag[y] = o2[y]
                      /\ k2[y] = "slot" /\ k2[o2[y]] = "super" => tag[y] = i2[o2[y]]
                      /\ k2[y] = "slot" /\ k2[o2[y]] \in Listed => tag[y] = l[o2[y]]
    BY <1>b DEF Homes, DistinctAddresses, Listed
  <2>1. /\ k[y] = "pool" => tag[y] = o[y]
        /\ k[y] = "slot" /\ k[o[y]] = "super" => tag[y] = i[o[y]]
        /\ k[y] = "slot" /\ k[o[y]] \in Listed => tag[y] = l[o[y]]
    BY <1>0 DEF Shape, Homes
  <2>2. e = tag[b]
    BY <1>s1, <1>s4 DEF DistinctAddresses
  <2>3. k2[n] = "super" /\ i2[n] = e
    BY <1>f, <1>s1, <1>s2, <1>s5
  <2>4. CASE y = b
    BY <2>2, <2>3, <2>4, <1>f1 DEF Listed
  <2>5. CASE y # b
    <3>1. k[y] = "slot" => o[y] \in Buffers
      BY <1>0 DEF Shape, PlaceType
    <3>2. QED
      BY <3>1, <2>1, <2>5, <1>f, <1>f1, <1>s5 DEF Listed
  <2>6. QED
    BY <2>4, <2>5
<1>21. PlaceType(k2, o2, i2)'
  BY <1>0, <1>b, <1>c, <1>s1, <1>s3, <1>s4 DEF Shape, PlaceType, GhostType
<1>22. GhostType(k2, o2, i2, l)'
  BY <1>0, <1>b, <1>c, <1>s1, <1>s3, <1>s4 DEF GhostType, Kinds
<1>23. Inv(k2, o2, i2, l)'
  BY <1>1, <1>3, <1>4, <1>5, <1>6, <1>7, <1>8, <1>9, <1>10, <1>11, <1>12, <1>13, <1>14,
     <1>15, <1>16, <1>17, <1>18, <1>19, <1>20, <1>21, <1>22
  DEF Inv, Shape
<1>24. QED
  BY <1>23

\* AddRead: the superbuffer to send points at the head that was read.
LEMMA AddReadStep ==
  ASSUME NEW k, NEW o, NEW i, NEW l, Inv(k, o, i, l), NEW t \in Threads,
         AddRead(t), UNCHANGED aborted
  PROVE  \E k2, o2, i2, l2 : Inv(k2, o2, i2, l2)'
<1>0. TypeOK /\ Items /\ Control /\ GhostType(k, o, i, l) /\ Shape(k, o, i, l)
  BY DEF Inv
<1>1a. PICK d, e, n : d = Dest(t) /\ e = Item(t) /\ n = super[t][e]
  OBVIOUS
<1>a. pc[t] = "addread" /\ pc' = [pc EXCEPT ![t] = "addcas"]
  BY DEF AddRead
<1>a2. curr' = [curr EXCEPT ![t] = head[d]]
  BY <1>1a DEF AddRead
<1>b. UNCHANGED <<tag, status, pool, super, pos, bufs, next, head, held, op, arg, buf, stack, aborted>>
  BY DEF AddRead, heapVars, mapVars, callVars
<1>s1. d = Dest(t) /\ d \in Threads /\ e \in Threads /\ Low32[e] = Low32[d] /\ n = super[t][e] /\ n # Null
       /\ pos[t][e] = SuperSize
  BY <1>0, <1>1a, <1>a, ItemIsThread DEF Items, Sending, Control, Dest
<1>s2. n \in Buffers
  BY <1>0, <1>s1 DEF TypeOK
<1>s3. k[n] = "super" /\ o[n] = t /\ i[n] = e
  <2>1. ~Sent(t, e)
    BY <1>a DEF Sent
  <2>2. QED
    BY <2>1, <1>0, <1>s1, <1>s2 DEF Shape, SuperAt
<1>s4. /\ Sending(t)' /\ Sending(t) /\ Item(t)' = Item(t) /\ (HasItem(t)' <=> HasItem(t))
       /\ \A f \in Threads : ~Sent(t, f) /\ ~Sent(t, f)'
       /\ \A x \in Buffers : ~Linking(t, x) /\ (Linking(t, x)' <=> x = n)
  <2>1. Item(t)' = Item(t) /\ (HasItem(t)' <=> HasItem(t))
    BY <1>b, ItemFrame
  <2>2. QED
    BY <2>1, <1>0, <1>1a, <1>a, <1>b, <1>s1 DEF TypeOK, Sending, Sent, Linking
<1>s5. \A x \in Buffers : k[x] = "super" /\ o[x] = t => next[x] = Null
  BY <1>0, <1>s4 DEF Shape, Filled
<1>s6. next[n] = Null
  BY <1>s2, <1>s3, <1>s5
<1>1. TypeOK'
  BY <1>0, <1>a, <1>a2, <1>b, <1>s1, <1>s2 DEF TypeOK, PCs
<1>2. \A u \in Threads :
     /\ Sending(u)' <=> Sending(u)
     /\ Sending(u) => Item(u)' = Item(u) /\ (HasItem(u)' <=> HasItem(u))
     /\ \A f \in Threads : Sent(u, f)' <=> Sent(u, f)
     /\ u # t => \A x \in Buffers : Linking(u, x)' <=> Linking(u, x)
  <2> SUFFICES ASSUME NEW u \in Threads
               PROVE  /\ Sending(u)' <=> Sending(u)
                      /\ Sending(u) => Item(u)' = Item(u) /\ (HasItem(u)' <=> HasItem(u))
                      /\ \A f \in Threads : Sent(u, f)' <=> Sent(u, f)
                      /\ u # t => \A x \in Buffers : Linking(u, x)' <=> Linking(u, x)
    OBVIOUS
  <2>1. CASE u = t
    BY <2>1, <1>s4
  <2>2. CASE u # t
    <3>1. Frame(u)
      BY <2>2, <1>0, <1>a, <1>b, FrameSame DEF TypeOK
    <3>2. QED
      BY <3>1 DEF Frame
  <2>3. QED
    BY <2>1, <2>2
<1>3. Items'
  BY <1>0, <1>2, <1>a, <1>b, <1>s4 DEF Items, TypeOK, Frame
<1>4. Control'
  BY <1>0, <1>2, <1>a, <1>b, <1>s4 DEF Control, TypeOK, Frame, Sending
<1>5. FreshAt(k)'
  BY <1>0, <1>a, <1>b DEF Shape, FreshAt, TypeOK, GhostType
<1>6. HeldAt(k)'
  BY <1>0, <1>a, <1>b DEF Shape, HeldAt, TypeOK, GhostType
<1>7. PoolAt(k, o)'
  BY <1>0, <1>a, <1>b DEF Shape, PoolAt, TypeOK, GhostType
<1>8. ArgAt(k, o)'
  BY <1>0, <1>a, <1>b DEF Shape, ArgAt, TypeOK, GhostType
<1>9. BufAt(k, o)'
  BY <1>0, <1>a, <1>b DEF Shape, BufAt, TypeOK, GhostType
<1>10. SuperAt(k, o, i)'
  BY <1>0, <1>2, <1>a, <1>b, <1>s4 DEF Shape, SuperAt, TypeOK, GhostType, Frame
<1>11. SlotAt(k, o, i)'
  BY <1>0, <1>a, <1>b DEF Shape, SlotAt, TypeOK, GhostType
<1>12. HeadAt(k, o)'
  BY <1>0, <1>a, <1>b DEF Shape, HeadAt, TypeOK, GhostType
<1>13. NextAt(k, o)'
  <2>1. \A x \in Buffers : x # n => ((\A u \in Threads : ~Linking(u, x)') <=> \A u \in Threads : ~Linking(u, x))
    BY <1>2, <1>s4
  <2>2. \A y \in Buffers : ~(k[y] = "next" /\ o[y] = n)
    BY <1>0, <1>s2, <1>s6, NullAssumption DEF Shape, NextAt
  <2>3. QED
    BY <2>1, <2>2, <1>0, <1>b, <1>s2, <1>s6, NullAssumption DEF Shape, NextAt
<1>14. CurrAt(k, o)'
  BY <1>0, <1>a, <1>a2, <1>b DEF Shape, CurrAt, TypeOK, GhostType
<1>15. StackAt(k, o, i)'
  BY <1>0, <1>a, <1>b DEF Shape, StackAt, TypeOK, GhostType
<1>16. Filled(k, o, i)'
  BY <1>0, <1>2, <1>a, <1>b, <1>s4, <1>s5 DEF Shape, Filled, PlaceType, TypeOK, GhostType, Listed, Frame
<1>17. ListIds(k, o, l)'
  BY <1>0, <1>a, <1>b DEF Shape, ListIds, GhostType, PlaceType, Listed
<1>18. Detaching(k, l)'
  BY <1>0, <1>a, <1>a2, <1>b DEF Shape, Detaching, TypeOK, GhostType
<1>19. Statuses(k, o)'
  BY <1>0, <1>a, <1>b DEF Shape, Statuses, BufAt, TypeOK, GhostType, PlaceType, Listed
<1>20. DistinctAddresses' => Homes(k, o, i, l)'
  BY <1>0, <1>a, <1>b DEF Shape, Homes, TypeOK, GhostType, PlaceType, DistinctAddresses, Listed
<1>21. PlaceType(k, o, i)'
  BY <1>0, <1>a, <1>b DEF Shape, PlaceType, GhostType
<1>22. GhostType(k, o, i, l)'
  BY <1>0, <1>a, <1>b DEF GhostType, Kinds
<1>23. Inv(k, o, i, l)'
  BY <1>1, <1>3, <1>4, <1>5, <1>6, <1>7, <1>8, <1>9, <1>10, <1>11, <1>12, <1>13, <1>14,
     <1>15, <1>16, <1>17, <1>18, <1>19, <1>20, <1>21, <1>22
  DEF Inv, Shape
<1>24. QED
  BY <1>23

\* AddCas with another head by now: the thread reads the head again.
LEMMA AddCasFailStep ==
  ASSUME NEW k, NEW o, NEW i, NEW l, Inv(k, o, i, l), NEW t \in Threads,
         AddCas(t), ~CasSucceeds(t), UNCHANGED aborted
  PROVE  \E k2, o2, i2, l2 : Inv(k2, o2, i2, l2)'
<1>0. TypeOK /\ Items /\ Control /\ GhostType(k, o, i, l) /\ Shape(k, o, i, l)
  BY DEF Inv
<1>1a. PICK d, e, n : d = Dest(t) /\ e = Item(t) /\ n = super[t][e]
  OBVIOUS
<1>1b. PICK c : c = curr[t]
  OBVIOUS
<1>a. pc[t] = "addcas" /\ pc' = pc
  BY DEF AddCas
<1>a2. curr' = [curr EXCEPT ![t] = head[d]] /\ next' = [next EXCEPT ![n] = c]
  BY <1>1a, <1>1b DEF AddCas
<1>b. UNCHANGED <<tag, status, pool, super, pos, bufs, head, held, op, arg, buf, stack, aborted>>
  BY DEF AddCas, heapVars, mapVars, callVars
<1>s1. d = Dest(t) /\ d \in Threads /\ e \in Threads /\ Low32[e] = Low32[d] /\ n = super[t][e] /\ n # Null
       /\ pos[t][e] = SuperSize
  BY <1>0, <1>1a, <1>a, ItemIsThread DEF Items, Sending, Control, Dest
<1>s2. n \in Buffers
  BY <1>0, <1>s1 DEF TypeOK
<1>s3. k[n] = "super" /\ o[n] = t /\ i[n] = e
  <2>1. ~Sent(t, e)
    BY <1>a DEF Sent
  <2>2. QED
    BY <2>1, <1>0, <1>s1, <1>s2 DEF Shape, SuperAt
<1>s4. c \in Buffers \cup {Null}
  BY <1>0, <1>1b DEF TypeOK
<1>s5. Linking(t, n)
  BY <1>1a, <1>a DEF Linking
<1>1. TypeOK'
  BY <1>0, <1>a, <1>a2, <1>b, <1>s1, <1>s2, <1>s4 DEF TypeOK, PCs
<1>2. \A u \in Threads : Frame(u)
  BY <1>a, <1>b, FrameSame
<1>3. Items'
  BY <1>0, <1>2, <1>a, <1>b DEF Items, TypeOK, Frame
<1>4. Control'
  BY <1>0, <1>2, <1>a, <1>b DEF Control, TypeOK, Frame
<1>5. FreshAt(k)'
  BY <1>0, <1>a, <1>b DEF Shape, FreshAt, TypeOK, GhostType
<1>6. HeldAt(k)'
  BY <1>0, <1>a, <1>b DEF Shape, HeldAt, TypeOK, GhostType
<1>7. PoolAt(k, o)'
  BY <1>0, <1>a, <1>b DEF Shape, PoolAt, TypeOK, GhostType
<1>8. ArgAt(k, o)'
  BY <1>0, <1>a, <1>b DEF Shape, ArgAt, TypeOK, GhostType
<1>9. BufAt(k, o)'
  BY <1>0, <1>a, <1>b DEF Shape, BufAt, TypeOK, GhostType
<1>10. SuperAt(k, o, i)'
  BY <1>0, <1>2, <1>a, <1>b DEF Shape, SuperAt, TypeOK, GhostType, Frame
<1>11. SlotAt(k, o, i)'
  BY <1>0, <1>a, <1>b DEF Shape, SlotAt, TypeOK, GhostType
<1>12. HeadAt(k, o)'
  BY <1>0, <1>a, <1>b DEF Shape, HeadAt, TypeOK, GhostType
<1>13. NextAt(k, o)'
  BY <1>0, <1>2, <1>a, <1>a2, <1>b, <1>s5, <1>s2 DEF Shape, NextAt, TypeOK, GhostType, Frame
<1>14. CurrAt(k, o)'
  BY <1>0, <1>a, <1>a2, <1>b DEF Shape, CurrAt, TypeOK, GhostType
<1>15. StackAt(k, o, i)'
  BY <1>0, <1>a, <1>b DEF Shape, StackAt, TypeOK, GhostType
<1>16. Filled(k, o, i)'
  <2>1. \A x \in Buffers : x # n => next'[x] = next[x]
    BY <1>0, <1>a2, <1>s2 DEF TypeOK
  <2>2. Linking(t, n)' /\ \A u \in Threads, x \in Buffers : Linking(u, x)' <=> Linking(u, x)
    BY <1>2, <1>s2, <1>s5 DEF Frame
  <2>3. \A x \in Buffers : k[x] = "super" => o[x] \in Threads
    BY <1>0 DEF Shape, PlaceType
  <2>4. bufs' = bufs /\ pos' = pos
    BY <1>b
  <2>5. QED
    BY <2>1, <2>2, <2>3, <2>4, <1>0, <1>s3 DEF Shape, Filled, Listed
<1>17. ListIds(k, o, l)'
  BY <1>0, <1>a, <1>b DEF Shape, ListIds, GhostType, PlaceType, Listed
<1>18. Detaching(k, l)'
  BY <1>0, <1>a, <1>a2, <1>b DEF Shape, Detaching, TypeOK, GhostType
<1>19. Statuses(k, o)'
  BY <1>0, <1>a, <1>b DEF Shape, Statuses, BufAt, TypeOK, GhostType, PlaceType, Listed
<1>20. DistinctAddresses' => Homes(k, o, i, l)'
  BY <1>0, <1>a, <1>b DEF Shape, Homes, TypeOK, GhostType, PlaceType, DistinctAddresses, Listed
<1>21. PlaceType(k, o, i)'
  BY <1>0, <1>a, <1>b DEF Shape, PlaceType, GhostType
<1>22. GhostType(k, o, i, l)'
  BY <1>0, <1>a, <1>b DEF GhostType, Kinds
<1>23. Inv(k, o, i, l)'
  BY <1>1, <1>3, <1>4, <1>5, <1>6, <1>7, <1>8, <1>9, <1>10, <1>11, <1>12, <1>13, <1>14,
     <1>15, <1>16, <1>17, <1>18, <1>19, <1>20, <1>21, <1>22
  DEF Inv, Shape
<1>24. QED
  BY <1>23

\* AddCas with the head it read: the superbuffer is the head of the destination.
LEMMA AddCasOkStep ==
  ASSUME NEW k, NEW o, NEW i, NEW l, Inv(k, o, i, l), NEW t \in Threads,
         AddCas(t), CasSucceeds(t), UNCHANGED aborted
  PROVE  \E k2, o2, i2, l2 : Inv(k2, o2, i2, l2)'
<1>0. TypeOK /\ Items /\ Control /\ GhostType(k, o, i, l) /\ Shape(k, o, i, l)
  BY DEF Inv
<1>1a. PICK d, e, n : d = Dest(t) /\ e = Item(t) /\ n = super[t][e]
  OBVIOUS
<1>1b. PICK h : h = head[d]
  OBVIOUS
<1> DEFINE k2 == [x \in Buffers |-> IF x = n THEN "head" ELSE IF x = h THEN "next" ELSE k[x]]
           o2 == [x \in Buffers |-> IF x = n THEN d ELSE IF x = h THEN n ELSE o[x]]
           l2 == [x \in Buffers |-> IF x = n THEN d ELSE l[x]]
<1> HIDE DEF k2, o2, l2
<1>a. pc[t] = "addcas" /\ pc' = [pc EXCEPT ![t] = "refill"]
  BY DEF AddCas
<1>a2. curr' = [curr EXCEPT ![t] = Null]
  BY DEF AddCas
<1>a3. next' = [next EXCEPT ![n] = h] /\ head' = [head EXCEPT ![d] = n]
  BY <1>1a, <1>1b DEF AddCas, CasSucceeds
<1>b. UNCHANGED <<tag, status, pool, super, pos, bufs, held, op, arg, buf, stack, aborted>>
  BY DEF AddCas, heapVars, mapVars, callVars
<1>c. /\ k2 = [x \in Buffers |-> IF x = n THEN "head" ELSE IF x = h THEN "next" ELSE k[x]]
      /\ o2 = [x \in Buffers |-> IF x = n THEN d ELSE IF x = h THEN n ELSE o[x]]
      /\ l2 = [x \in Buffers |-> IF x = n THEN d ELSE l[x]]
  BY DEF k2, o2, l2
<1>s1. d = Dest(t) /\ d \in Threads /\ e \in Threads /\ Low32[e] = Low32[d] /\ n = super[t][e] /\ n # Null
       /\ pos[t][e] = SuperSize
  BY <1>0, <1>1a, <1>a, ItemIsThread DEF Items, Sending, Control, Dest
<1>s2. n \in Buffers
  BY <1>0, <1>s1 DEF TypeOK
<1>s3. k[n] = "super" /\ o[n] = t /\ i[n] = e
  <2>1. ~Sent(t, e)
    BY <1>a DEF Sent
  <2>2. QED
    BY <2>1, <1>0, <1>s1, <1>s2 DEF Shape, SuperAt
<1>s4. h \in Buffers \cup {Null}
  BY <1>0, <1>1b, <1>s1 DEF TypeOK
<1>s5. \A y \in Buffers : y = h <=> k[y] = "head" /\ o[y] = d
  BY <1>0, <1>1b, <1>s1 DEF Shape, HeadAt
<1>s6. /\ Sending(t)' /\ Sending(t) /\ Item(t)' = Item(t) /\ (HasItem(t)' <=> HasItem(t))
       /\ \A f \in Threads : ~Sent(t, f) /\ (Sent(t, f)' <=> f = e)
       /\ \A x \in Buffers : ~Linking(t, x)' /\ (Linking(t, x) <=> x = n)
  <2>1. Item(t)' = Item(t) /\ (HasItem(t)' <=> HasItem(t))
    BY <1>b, ItemFrame
  <2>2. QED
    BY <2>1, <1>0, <1>1a, <1>a, <1>b, <1>s1 DEF TypeOK, Sending, Sent, Linking
<1>s7. \A y \in Buffers : ~(k[y] = "next" /\ o[y] = n)
  BY <1>0, <1>s2, <1>s6 DEF Shape, NextAt
<1>s8. \A y \in Buffers : y = h => l[y] = d
  BY <1>0, <1>s5 DEF Shape, ListIds
<1>s9. \A u \in Threads \ {t} : Frame(u)
  BY <1>0, <1>a, <1>b, FrameSame DEF TypeOK
<1>s10. \A x \in Buffers : next'[x] = IF x = n THEN h ELSE next[x]
  BY <1>0, <1>a3, <1>s2 DEF TypeOK
<1>s11. \A u \in Threads : head'[u] = IF u = d THEN n ELSE head[u]
  BY <1>0, <1>a3, <1>s1 DEF TypeOK
<1>f. \A x \in Buffers : k[x] \in {"fresh", "held", "pool", "arg", "buf", "slot", "curr", "stack"}
      \/ k2[x] \in {"fresh", "held", "pool", "arg", "buf", "slot", "curr", "stack"}
      => k2[x] = k[x] /\ o2[x] = o[x]
  BY <1>c, <1>s3, <1>s5
<1>f2. \A x \in Buffers : (k2[x] \in Listed <=> x = n \/ k[x] \in Listed)
       /\ (k2[x] = "super" <=> x # n /\ k[x] = "super")
       /\ (k[x] = "super" /\ x # n => o2[x] = o[x])
  BY <1>c, <1>s2, <1>s3, <1>s5 DEF Listed
<1>1. TypeOK'
  BY <1>0, <1>a, <1>a2, <1>a3, <1>b, <1>s1, <1>s2, <1>s4 DEF TypeOK, PCs
<1>2. \A u \in Threads :
     /\ Sending(u)' <=> Sending(u)
     /\ Sending(u) => Item(u)' = Item(u) /\ (HasItem(u)' <=> HasItem(u))
  BY <1>s6, <1>s9 DEF Frame
<1>3. Items'
  BY <1>0, <1>2, <1>a, <1>b, <1>s6 DEF Items, TypeOK, Frame
<1>4. Control'
  BY <1>0, <1>2, <1>a, <1>b, <1>s6 DEF Control, TypeOK, Frame, Sending
<1>5. FreshAt(k2)'
  BY <1>0, <1>b, <1>f DEF Shape, FreshAt, TypeOK, GhostType
<1>6. HeldAt(k2)'
  BY <1>0, <1>b, <1>f DEF Shape, HeldAt, TypeOK, GhostType
<1>7. PoolAt(k2, o2)'
  BY <1>0, <1>b, <1>f DEF Shape, PoolAt, TypeOK, GhostType
<1>8. ArgAt(k2, o2)'
  BY <1>0, <1>b, <1>f DEF Shape, ArgAt, TypeOK, GhostType
<1>9. BufAt(k2, o2)'
  BY <1>0, <1>a, <1>b, <1>f DEF Shape, BufAt, TypeOK, GhostType
<1>10. SuperAt(k2, o2, i)'
  <2> SUFFICES ASSUME NEW u \in Threads, NEW f \in Threads, NEW y \in Buffers
               PROVE  (y = super[u][f] /\ ~Sent(u, f)')
                        <=> k2[y] = "super" /\ o2[y] = u /\ i[y] = f
    BY <1>b DEF SuperAt
  <2>1. (y = super[u][f] /\ ~Sent(u, f)) <=> k[y] = "super" /\ o[y] = u /\ i[y] = f
    BY <1>0 DEF Shape, SuperAt
  <2>2. CASE u = t
    BY <2>1, <2>2, <1>s1, <1>s3, <1>s6, <1>f2
  <2>3. CASE u # t
    <3>1. Sent(u, f)' <=> Sent(u, f)
      BY <2>3, <1>s9 DEF Frame
    <3>2. QED
      BY <3>1, <2>1, <2>3, <1>s3, <1>f2
  <2>4. QED
    BY <2>2, <2>3
<1>11. SlotAt(k2, o2, i)'
  BY <1>0, <1>b, <1>f DEF Shape, SlotAt, TypeOK, GhostType
<1>12. HeadAt(k2, o2)'
  <2> SUFFICES ASSUME NEW u \in Threads, NEW y \in Buffers
               PROVE  y = head'[u] <=> k2[y] = "head" /\ o2[y] = u
    BY DEF HeadAt
  <2>1. y = head[u] <=> k[y] = "head" /\ o[y] = u
    BY <1>0 DEF Shape, HeadAt
  <2>2. CASE u = d
    BY <2>2, <1>s2, <1>s5, <1>s11, <1>c
  <2>3. CASE u # d
    BY <2>1, <2>3, <1>s3, <1>s5, <1>s11, <1>c
  <2>4. QED
    BY <2>2, <2>3
<1>13. NextAt(k2, o2)'
  <2> SUFFICES ASSUME NEW x \in Buffers, NEW y \in Buffers
               PROVE  (y = next'[x] /\ \A u \in Threads : ~Linking(u, x)')
                        <=> k2[y] = "next" /\ o2[y] = x
    BY DEF NextAt
  <2>1. (y = next[x] /\ \A u \in Threads : ~Linking(u, x)) <=> k[y] = "next" /\ o[y] = x
    BY <1>0 DEF Shape, NextAt
  <2>2. \A u \in Threads \ {t} : Linking(u, x)' <=> Linking(u, x)
    BY <1>s9 DEF Frame
  <2>3. CASE x = n
    <3>1. \A u \in Threads \ {t} : ~Linking(u, n)
      BY <1>s2, <1>s3, LinkingSuper
    <3>2. y = next'[x] /\ (\A u \in Threads : ~Linking(u, x)') <=> y = h
      BY <3>1, <2>2, <2>3, <1>s6, <1>s10
    <3>3. k2[y] = "next" /\ o2[y] = n <=> y = h
      BY <1>c, <1>s3, <1>s5, <1>s7
    <3>4. QED
      BY <3>2, <3>3, <2>3
  <2>4. CASE x # n
    <3>1. k2[y] = "next" /\ o2[y] = x <=> k[y] = "next" /\ o[y] = x
      BY <2>4, <1>c, <1>s3, <1>s5
    <3>2. QED
      BY <3>1, <2>1, <2>2, <2>4, <1>s6, <1>s10
  <2>5. QED
    BY <2>3, <2>4
<1>14. CurrAt(k2, o2)'
  BY <1>0, <1>a, <1>a2, <1>b, <1>f DEF Shape, CurrAt, TypeOK, GhostType
<1>15. StackAt(k2, o2, i)'
  BY <1>0, <1>b, <1>f DEF Shape, StackAt, TypeOK, GhostType
<1>16. Filled(k2, o2, i)'
  <2> SUFFICES ASSUME NEW x \in Buffers
               PROVE  /\ k2[x] \in Listed => \A j \in Slots : bufs[x][j] # Null
                      /\ k2[x] = "super" =>
                           /\ \A j \in Slots : bufs[x][j] # Null <=> j <= pos[o2[x]][i[x]]
                           /\ next'[x] # Null => Linking(o2[x], x)'
                      /\ k2[x] \notin Listed \cup {"super"} =>
                           next'[x] = Null /\ \A j \in Slots : bufs[x][j] = Null
    BY <1>b DEF Filled, Listed
  <2>1. /\ k[x] \in Listed => \A j \in Slots : bufs[x][j] # Null
        /\ k[x] = "super" =>
              /\ \A j \in Slots : bufs[x][j] # Null <=> j <= pos[o[x]][i[x]]
              /\ next[x] # Null => Linking(o[x], x)
        /\ k[x] \notin Listed \cup {"super"} =>
              next[x] = Null /\ \A j \in Slots : bufs[x][j] = Null
    BY <1>0 DEF Shape, Filled
  <2>2. CASE x = n
    <3>1. \A j \in Slots : bufs[n][j] # Null
      BY <2>1, <2>2, <1>s1, <1>s3 DEF Slots
    <3>2. QED
      BY <3>1, <2>2, <1>f2
  <2>3. CASE x # n
    <3>1. k[x] = "super" => (Linking(o[x], x) => Linking(o[x], x)')
      BY <2>3, <1>0, <1>s6, <1>s9 DEF Frame, Shape, PlaceType
    <3>2. QED
      BY <3>1, <2>1, <2>3, <1>s10, <1>f2 DEF Listed
  <2>4. QED
    BY <2>2, <2>3
<1>17. ListIds(k2, o2, l2)'
  <2> SUFFICES ASSUME NEW x \in Buffers
               PROVE  /\ k2[x] \in {"head", "curr", "stack"} => l2[x] = o2[x]
                      /\ k2[x] = "next" => k2[o2[x]] \in Listed /\ l2[x] = l2[o2[x]]
    BY DEF ListIds, Listed
  <2>1. /\ k[x] \in {"head", "curr", "stack"} => l[x] = o[x]
        /\ k[x] = "next" => k[o[x]] \in Listed /\ l[x] = l[o[x]] /\ o[x] \in Buffers
    BY <1>0 DEF Shape, ListIds, PlaceType
  <2>2. k2[n] = "head" /\ o2[n] = d /\ l2[n] = d
    BY <1>c, <1>s2
  <2>3. CASE x = n
    BY <2>2, <2>3
  <2>4. CASE x = h
    BY <2>2, <2>4, <1>c, <1>s2, <1>s3, <1>s5, <1>s8 DEF Listed
  <2>5. CASE x # n /\ x # h
    <3>1. k2[x] = k[x] /\ o2[x] = o[x] /\ l2[x] = l[x]
      BY <2>5, <1>c
    <3>2. k[x] = "next" => o[x] # n /\ k2[o[x]] \in Listed /\ l2[o[x]] = l[o[x]]
      BY <2>1, <1>s7, <1>f2, <1>c
    <3>3. QED
      BY <3>1, <3>2, <2>1
  <2>6. QED
    BY <2>3, <2>4, <2>5
<1>18. Detaching(k2, l2)'
  <2> SUFFICES ASSUME NEW u \in Threads, pc'[u] = "detach"
               PROVE  curr'[u] \in Buffers /\ k2[curr'[u]] \in {"head", "next"} /\ l2[curr'[u]] = u
    BY DEF Detaching
  <2>1. u # t /\ pc[u] = "detach" /\ curr'[u] = curr[u]
    BY <1>0, <1>a, <1>a2 DEF TypeOK
  <2>2. curr[u] \in Buffers /\ k[curr[u]] \in {"head", "next"} /\ l[curr[u]] = u
    BY <1>0, <2>1 DEF Shape, Detaching
  <2>3. QED
    BY <2>1, <2>2, <1>c, <1>s3
<1>19. Statuses(k2, o2)'
  <2> SUFFICES ASSUME NEW y \in Buffers
               PROVE  /\ k2[y] \in {"fresh", "pool"} => status[y] = 0
                      /\ k2[y] = "slot" => status[y] = 1
                      /\ k2[y] = "buf" => status[y] = IF pc'[o2[y]] = "tfree" THEN 2 ELSE 1
                      /\ k2[y] \in {"held", "arg", "super"} \cup Listed => status[y] = 2
    BY <1>b DEF Statuses, Listed
  <2>1. /\ k[y] \in {"fresh", "pool"} => status[y] = 0
        /\ k[y] = "slot" => status[y] = 1
        /\ k[y] = "buf" => status[y] = IF pc[o[y]] = "tfree" THEN 2 ELSE 1
        /\ k[y] \in {"held", "arg", "super"} \cup Listed => status[y] = 2
    BY <1>0 DEF Shape, Statuses
  <2>2. k[y] = "buf" => o[y] \in Threads /\ o[y] # t
    BY <1>0, <1>a DEF Shape, PlaceType, BufAt
  <2>3. k[y] = "buf" => pc'[o[y]] = pc[o[y]]
    BY <2>2, <1>0, <1>a DEF TypeOK
  <2>4. QED
    BY <2>1, <2>3, <1>c, <1>s3, <1>s5 DEF Listed
<1>20. DistinctAddresses' => Homes(k2, o2, i, l2)'
  <2> SUFFICES ASSUME DistinctAddresses, NEW y \in Buffers
               PROVE  /\ k2[y] = "pool" => tag[y] = o2[y]
                      /\ k2[y] = "slot" /\ k2[o2[y]] = "super" => tag[y] = i[o2[y]]
                      /\ k2[y] = "slot" /\ k2[o2[y]] \in Listed => tag[y] = l2[o2[y]]
    BY <1>b DEF Homes, DistinctAddresses, Listed
  <2>1. /\ k[y] = "pool" => tag[y] = o[y]
        /\ k[y] = "slot" /\ k[o[y]] = "super" => tag[y] = i[o[y]]
        /\ k[y] = "slot" /\ k[o[y]] \in Listed => tag[y] = l[o[y]]
    BY <1>0 DEF Shape, Homes
  <2>2. k[y] = "slot" => o[y] \in Buffers
    BY <1>0 DEF Shape, PlaceType
  <2>3. e = d
    BY <1>s1 DEF DistinctAddresses
  <2>4. CASE k2[y] = "slot" /\ o[y] = n
    BY <2>1, <2>3, <2>4, <1>c, <1>f, <1>s2, <1>s3, <1>f2
  <2>5. CASE k2[y] = "slot" /\ o[y] # n
    BY <2>1, <2>2, <2>5, <1>c, <1>f, <1>f2
  <2>6. QED
    BY <2>1, <2>4, <2>5, <1>f
<1>21. PlaceType(k2, o2, i)'
  BY <1>0, <1>b, <1>c, <1>s5, <1>s1, <1>s2 DEF Shape, PlaceType, GhostType
<1>22. GhostType(k2, o2, i, l2)'
  BY <1>0, <1>b, <1>c, <1>s1, <1>s2 DEF GhostType, Kinds
<1>23. Inv(k2, o2, i, l2)'
  BY <1>1, <1>3, <1>4, <1>5, <1>6, <1>7, <1>8, <1>9, <1>10, <1>11, <1>12, <1>13, <1>14,
     <1>15, <1>16, <1>17, <1>18, <1>19, <1>20, <1>21, <1>22
  DEF Inv, Shape
<1>24. QED
  BY <1>23

-----------------------------------------------------------------------------
(* The invariant holds initially and is preserved.                         *)

\* A step that changes at most the flag aborted.
LEMMA SameStep ==
  ASSUME NEW k, NEW o, NEW i, NEW l, Inv(k, o, i, l),
         UNCHANGED <<tag, status, pool, super, pos, bufs, next, head, held, op, pc, arg, buf, curr, stack>>,
         aborted' \in BOOLEAN
  PROVE  Inv(k, o, i, l)'
<1>0. TypeOK /\ Items /\ Control /\ GhostType(k, o, i, l) /\ Shape(k, o, i, l)
  BY DEF Inv
<1>1. \A u \in Threads : Frame(u)
  BY <1>0, FrameSame DEF TypeOK
<1>2. TypeOK'
  BY <1>0 DEF TypeOK
<1>3. Items' /\ Control'
  BY <1>0, <1>1 DEF Items, Control, Frame
<1>4. PlaceType(k, o, i)' /\ GhostType(k, o, i, l)'
  BY <1>0 DEF Shape, PlaceType, GhostType
<1>5. FreshAt(k)' /\ HeldAt(k)' /\ PoolAt(k, o)' /\ ArgAt(k, o)' /\ BufAt(k, o)'
  BY <1>0 DEF Shape, FreshAt, HeldAt, PoolAt, ArgAt, BufAt
<1>6. SuperAt(k, o, i)' /\ SlotAt(k, o, i)'
  BY <1>0, <1>1 DEF Shape, SuperAt, SlotAt, Frame
<1>7. HeadAt(k, o)' /\ NextAt(k, o)' /\ CurrAt(k, o)' /\ StackAt(k, o, i)'
  BY <1>0, <1>1 DEF Shape, HeadAt, NextAt, CurrAt, StackAt, Frame
<1>8. Filled(k, o, i)'
  BY <1>0, <1>1 DEF Shape, Filled, PlaceType, Frame
<1>9. ListIds(k, o, l)' /\ Detaching(k, l)' /\ Statuses(k, o)'
  BY <1>0 DEF Shape, ListIds, Detaching, Statuses
<1>10. (DistinctAddresses => Homes(k, o, i, l))'
  BY <1>0 DEF Shape, DistinctAddresses, Homes
<1>11. QED
  BY <1>2, <1>3, <1>4, <1>5, <1>6, <1>7, <1>8, <1>9, <1>10 DEF Inv, Shape

\* Every unit is fresh at first.
LEMMA InitInv ==
  ASSUME Init
  PROVE  IInv
<1> DEFINE k == [b \in Buffers |-> "fresh"]
           o == [b \in Buffers |-> b]
           i == [b \in Buffers |-> 0]
           l == [b \in Buffers |-> b]
<1>0. \A t \in Threads : pc[t] = "idle" /\ ~Sending(t) /\ (\A e \in Threads : ~Sent(t, e))
                         /\ (\A n \in Buffers : ~Linking(t, n))
  BY DEF Init, Sending, Sent, Linking
<1>1. TypeOK
  <2>1. 0 \in 0..SuperSize /\ 0 \in 0..2
    BY SizeAssumption
  <2>2. super \in [Threads -> [Threads -> Buffers \cup {Null}]]
        /\ pos \in [Threads -> [Threads -> 0..SuperSize]]
        /\ bufs \in [Buffers -> [Slots -> Buffers \cup {Null}]]
    BY <2>1 DEF Init
  <2>3. stack \in [Threads -> Seq(Buffers \cup {Null})]
    BY DEF Init
  <2>4. tag \in [Buffers -> Threads \cup {Null}] /\ status \in [Buffers -> 0..2]
        /\ pool \in [Threads -> SUBSET Buffers] /\ held \in SUBSET Buffers
    BY <2>1 DEF Init
  <2>5. pc \in [Threads -> PCs] /\ op \in [Threads -> {"none", "malloc", "free", "realloc"}]
    BY DEF Init, PCs
  <2>6. QED
    BY <2>2, <2>3, <2>4, <2>5 DEF Init, TypeOK
<1>2. Items
  BY <1>0, SizeAssumption DEF Init, Items
<1>3. Control
  BY <1>0 DEF Init, Control
<1>4. GhostType(k, o, i, l)
  BY DEF GhostType, Kinds
<1>5. PlaceType(k, o, i)
  BY DEF PlaceType
<1>6. FreshAt(k) /\ HeldAt(k) /\ PoolAt(k, o) /\ ArgAt(k, o) /\ BufAt(k, o)
  BY NullAssumption DEF Init, FreshAt, HeldAt, PoolAt, ArgAt, BufAt
<1>7. SuperAt(k, o, i) /\ SlotAt(k, o, i)
  BY NullAssumption DEF Init, SuperAt, SlotAt
<1>8. HeadAt(k, o) /\ NextAt(k, o) /\ CurrAt(k, o)
  BY NullAssumption DEF Init, HeadAt, NextAt, CurrAt
<1>9. StackAt(k, o, i)
  BY DEF Init, StackAt
<1>10. Filled(k, o, i)
  BY DEF Init, Filled, Listed
<1>11. ListIds(k, o, l) /\ Detaching(k, l)
  BY <1>0 DEF ListIds, Detaching
<1>12. Statuses(k, o) /\ Homes(k, o, i, l)
  BY DEF Init, Statuses, Homes, Listed
<1>13. Inv(k, o, i, l)
  BY <1>1, <1>2, <1>3, <1>4, <1>5, <1>6, <1>7, <1>8, <1>9, <1>10, <1>11, <1>12 DEF Inv, Shape
<1>14. QED
  BY <1>13 DEF IInv

\* Every step of the program keeps the invariant.
LEMMA NextInv ==
  ASSUME IInv, [Next]_vars
  PROVE  IInv'
<1>1. PICK k, o, i, l : Inv(k, o, i, l)
  BY DEF IInv
<1>2. SUFFICES \E k2, o2, i2, l2 : Inv(k2, o2, i2, l2)'
  BY DEF IInv
<1>3. CASE UNCHANGED vars
  <2>1. aborted' \in BOOLEAN
    BY <1>1, <1>3 DEF vars, Inv, TypeOK
  <2>2. QED
    BY <1>1, <1>3, <2>1, SameStep DEF vars
<1>4. ASSUME NEW t \in Threads, ThreadStep(t)
      PROVE  \E k2, o2, i2, l2 : Inv(k2, o2, i2, l2)'
  <2>1. CASE Abort(t)
    BY <1>1, <2>1, SameStep DEF Abort, heapVars, mapVars, callVars
  <2>2. CASE Call(t) /\ UNCHANGED aborted
    BY <1>1, <2>2, CallMallocStep, CallFreeStep, CallReallocStep DEF Call
  <2>3. CASE Internal(t) /\ UNCHANGED aborted
    <3>1. CASE Alloc(t)
      <4>1. op[t] \in {"malloc", "realloc"}
        BY <3>1 DEF Alloc
      <4>2. QED
        BY <1>1, <2>3, <3>1, <4>1, AllocMallocStep, AllocReallocStep
    <3>2. CASE ResumeLoop(t) \/ ResumeMalloc(t) \/ ReturnToCaller(t)
      BY <1>1, <2>3, <3>2, ResumeLoopStep, ResumeMallocStep, ReturnToCallerStep
    <3>3. CASE ReadHead(t) \/ DrainNode(t) \/ DrainDone(t)
      BY <1>1, <2>3, <3>3, ReadHeadStep, DrainNodeStep, DrainDoneStep
    <3>4. CASE Detach(t)
      BY <1>1, <2>3, <3>4, DetachNoneStep, DetachRestStep
    <3>5. CASE Tfree(t)
      BY <1>1, <2>3, <3>5, TfreeLocalStep, TfreeRemoteStep
    <3>6. CASE NewItem(t) \/ Store(t) \/ Refill(t)
      BY <1>1, <2>3, <3>6, NewItemStep, StoreStep, RefillStep
    <3>7. CASE AddRead(t)
      BY <1>1, <2>3, <3>7, AddReadStep
    <3>8. CASE AddCas(t)
      BY <1>1, <2>3, <3>8, AddCasOkStep, AddCasFailStep
    <3>9. QED
      BY <2>3, <3>1, <3>2, <3>3, <3>4, <3>5, <3>6, <3>7, <3>8 DEF Internal
  <2>4. QED
    BY <1>4, <2>1, <2>2, <2>3 DEF ThreadStep
<1>5. QED
  BY <1>3, <1>4 DEF Next, Ended

\* IInv holds in every reachable state.
THEOREM Invariance == Spec => []IInv
<1>1. Init => IInv
  BY InitInv
<1>2. IInv /\ [Next]_vars => IInv'
  BY NextInv
<1>3. QED
  BY <1>1, <1>2, PTL DEF Spec

\* The memory of the program keeps its types; in particular the position in a
\* superbuffer never passes its last slot.
THEOREM TypeCorrect == Spec => []TypeOK
<1>1. IInv => TypeOK
  BY DEF IInv, Inv
<1>2. QED
  BY <1>1, Invariance, PTL

\* The asserts of _tfree and _TMfreelist never fail: a thread frees allocated
\* buffers only, the superbuffer it fills has a free slot, and whoever drains a
\* superbuffer finds a waiting buffer in each slot.
THEOREM AssertsNeverFail == Spec => []AssertsHold
<1>1. ASSUME IInv PROVE AssertsHold
  <2>1. PICK k, o, i, l : Inv(k, o, i, l)
    BY <1>1 DEF IInv
  <2>2. TypeOK /\ Items /\ Control /\ Shape(k, o, i, l)
    BY <2>1 DEF Inv
  <2>3. SUFFICES ASSUME NEW t \in Threads
                 PROVE  /\ pc[t] = "tfree" => status[buf[t]] = 2
                        /\ pc[t] = "send" /\ HasItem(t) => pos[t][Item(t)] < SuperSize
                        /\ pc[t] = "drain" /\ curr[t] # Null =>
                             \A j \in Slots : bufs[curr[t]][j] # Null /\ status[bufs[curr[t]][j]] = 1
    BY DEF AssertsHold
  <2>4. pc[t] = "tfree" => status[buf[t]] = 2
    <3>1. pc[t] = "tfree" => buf[t] \in Buffers /\ k[buf[t]] = "buf" /\ o[buf[t]] = t
      BY <2>2 DEF Control, Shape, BufAt
    <3>2. QED
      BY <3>1, <2>2 DEF Shape, Statuses
  <2>5. pc[t] = "send" /\ HasItem(t) => pos[t][Item(t)] < SuperSize
    BY <2>2, ItemIsThread DEF Items, Sending
  <2>6. ASSUME pc[t] = "drain", curr[t] # Null, NEW j \in Slots
        PROVE  bufs[curr[t]][j] # Null /\ status[bufs[curr[t]][j]] = 1
    <3>1. curr[t] \in Buffers
      BY <2>2, <2>6 DEF TypeOK
    <3>2. k[curr[t]] = "curr"
      BY <2>2, <2>6, <3>1 DEF Shape, CurrAt
    <3>3. bufs[curr[t]][j] \in Buffers /\ bufs[curr[t]][j] # Null
      BY <2>2, <3>1, <3>2 DEF Shape, Filled, Listed, TypeOK
    <3>4. k[bufs[curr[t]][j]] = "slot"
      BY <2>2, <3>1, <3>3 DEF Shape, SlotAt
    <3>5. QED
      BY <2>2, <3>3, <3>4 DEF Shape, Statuses
  <2>7. QED
    BY <2>4, <2>5, <2>6
<1>2. QED
  BY <1>1, Invariance, PTL

\* A unit is in the pool of the thread it was carved for, whatever threads
\* freed it, provided that no two _TMThreadInfo agree in the low 32 bits of
\* their address.
THEOREM BuffersComeHome == ASSUME DistinctAddresses PROVE Spec => []HomePool
<1>1. ASSUME IInv PROVE HomePool
  <2>1. PICK k, o, i, l : Inv(k, o, i, l)
    BY <1>1 DEF IInv
  <2>2. TypeOK /\ PoolAt(k, o) /\ Homes(k, o, i, l)
    BY <2>1 DEF Inv, Shape
  <2>3. SUFFICES ASSUME NEW t \in Threads, NEW b \in pool[t] PROVE tag[b] = t
    BY DEF HomePool
  <2>4. b \in Buffers
    BY <2>2 DEF TypeOK
  <2>5. QED
    BY <2>2, <2>4 DEF PoolAt, Homes
<1>2. QED
  BY <1>1, Invariance, PTL

-----------------------------------------------------------------------------
(* Ownership is exclusive.                                                 *)

\* The one place of b, from what the map says of it.
Cell(k, o, i, b) ==
  IF k[b] \in {"fresh", "held"} THEN <<k[b]>>
  ELSE IF k[b] \in {"super", "slot", "stack"} THEN <<k[b], o[b], i[b]>>
  ELSE <<k[b], o[b]>>

\* The places of a unit are the one its cell names, no other.
LEMMA OneCell ==
  ASSUME NEW k, NEW o, NEW i, NEW l, Inv(k, o, i, l), NEW b \in Buffers
  PROVE  Places(b) = {Cell(k, o, i, b)}
<1>0. TypeOK /\ GhostType(k, o, i, l) /\ Shape(k, o, i, l) /\ PlaceType(k, o, i)
  BY DEF Inv, Shape
<1> DEFINE C == Cell(k, o, i, b)
           P1 == IF b \in Fresh THEN {<<"fresh">>} ELSE {}
           P2 == IF b \in held THEN {<<"held">>} ELSE {}
           P3 == {<<"pool", t>> : t \in {u \in Threads : b \in pool[u]}}
           P4 == {<<"arg", t>> : t \in {u \in Threads : b = arg[u]}}
           P5 == {<<"buf", t>> : t \in {u \in Threads : b = buf[u] /\ pc[u] \in {"tfree", "send"}}}
           P6 == {<<"super", x[1], x[2]>> :
                    x \in {y \in Threads \X Threads : b = super[y[1]][y[2]] /\ ~Sent(y[1], y[2])}}
           P7 == {<<"slot", x[1], x[2]>> : x \in {y \in Buffers \X Slots : b = bufs[y[1]][y[2]]}}
           P8 == {<<"head", d>> : d \in {e \in Threads : b = head[e]}}
           P9 == {<<"next", n>> :
                    n \in {m \in Buffers : b = next[m] /\ \A t \in Threads : ~Linking(t, m)}}
           P10 == {<<"curr", t>> : t \in {u \in Threads : b = curr[u] /\ pc[u] = "drain"}}
           P11 == UNION {{<<"stack", t, j>> : j \in {q \in 1..Len(stack[t]) : b = stack[t][q]}} : t \in Threads}
<1>1. P1 = IF k[b] = "fresh" THEN {C} ELSE {}
  BY <1>0 DEF Shape, FreshAt, Fresh, Cell
<1>2. P2 = IF k[b] = "held" THEN {C} ELSE {}
  BY <1>0 DEF Shape, HeldAt, Cell
<1>3. P3 = IF k[b] = "pool" THEN {C} ELSE {}
  BY <1>0 DEF Shape, PoolAt, PlaceType, Cell
<1>4. P4 = IF k[b] = "arg" THEN {C} ELSE {}
  BY <1>0 DEF Shape, ArgAt, PlaceType, Cell
<1>5. P5 = IF k[b] = "buf" THEN {C} ELSE {}
  BY <1>0 DEF Shape, BufAt, PlaceType, Cell
<1>6. P6 = IF k[b] = "super" THEN {C} ELSE {}
  <2> DEFINE Q == {y \in Threads \X Threads : b = super[y[1]][y[2]] /\ ~Sent(y[1], y[2])}
  <2>1. \A x \in Threads, z \in Threads :
          (b = super[x][z] /\ ~Sent(x, z)) <=> k[b] = "super" /\ o[b] = x /\ i[b] = z
    BY <1>0 DEF Shape, SuperAt
  <2>2. \A y \in Threads \X Threads : y \in Q <=> k[b] = "super" /\ y = <<o[b], i[b]>>
    BY <2>1
  <2>3. CASE k[b] = "super"
    <3>1. Q = {<<o[b], i[b]>>}
      BY <2>2, <2>3, <1>0 DEF PlaceType
    <3>a. P6 = {<<"super", x[1], x[2]>> : x \in Q}
      OBVIOUS
    <3> HIDE DEF Q, P6
    <3>2. P6 = {<<"super", o[b], i[b]>>}
      BY <3>1, <3>a
    <3>3. QED
      BY <3>2, <2>3 DEF Cell
  <2>4. CASE k[b] # "super"
    <3>1. Q = {}
      BY <2>2, <2>4
    <3>2. QED
      BY <3>1, <2>4
  <2>5. QED
    BY <2>3, <2>4
<1>7. P7 = IF k[b] = "slot" THEN {C} ELSE {}
  <2> DEFINE Q == {y \in Buffers \X Slots : b = bufs[y[1]][y[2]]}
  <2>1. \A x \in Buffers, z \in Slots :
          (b = bufs[x][z]) <=> k[b] = "slot" /\ o[b] = x /\ i[b] = z
    BY <1>0 DEF Shape, SlotAt
  <2>2. \A y \in Buffers \X Slots : y \in Q <=> k[b] = "slot" /\ y = <<o[b], i[b]>>
    BY <2>1
  <2>3. CASE k[b] = "slot"
    <3>1. Q = {<<o[b], i[b]>>}
      BY <2>2, <2>3, <1>0 DEF PlaceType
    <3>a. P7 = {<<"slot", x[1], x[2]>> : x \in Q}
      OBVIOUS
    <3> HIDE DEF Q, P7
    <3>2. P7 = {<<"slot", o[b], i[b]>>}
      BY <3>1, <3>a
    <3>3. QED
      BY <3>2, <2>3 DEF Cell
  <2>4. CASE k[b] # "slot"
    <3>1. Q = {}
      BY <2>2, <2>4
    <3>2. QED
      BY <3>1, <2>4
  <2>5. QED
    BY <2>3, <2>4
<1>8. P8 = IF k[b] = "head" THEN {C} ELSE {}
  BY <1>0 DEF Shape, HeadAt, PlaceType, Cell
<1>9. P9 = IF k[b] = "next" THEN {C} ELSE {}
  BY <1>0 DEF Shape, NextAt, PlaceType, Cell
<1>10. P10 = IF k[b] = "curr" THEN {C} ELSE {}
  BY <1>0 DEF Shape, CurrAt, PlaceType, Cell
<1>11. P11 = IF k[b] = "stack" THEN {C} ELSE {}
  <2>1. \A t \in Threads, j \in Nat :
          (j \in 1..Len(stack[t]) /\ b = stack[t][j]) <=> k[b] = "stack" /\ o[b] = t /\ i[b] = j
    BY <1>0 DEF Shape, StackAt
  <2>2. \A t \in Threads : 1..Len(stack[t]) \subseteq Nat
    BY <1>0 DEF TypeOK
  <2>3. QED
    BY <2>1, <2>2, <1>0 DEF PlaceType, Cell
<1>12. Places(b) = P1 \cup P2 \cup P3 \cup P4 \cup P5 \cup P6 \cup P7 \cup P8 \cup P9 \cup P10 \cup P11
  BY DEF Places
<1>13. k[b] \in Kinds
  BY <1>0 DEF GhostType
<1> HIDE DEF C, P1, P2, P3, P4, P5, P6, P7, P8, P9, P10, P11
<1>14. Places(b) = {C}
  BY <1>1, <1>2, <1>3, <1>4, <1>5, <1>6, <1>7, <1>8, <1>9, <1>10, <1>11, <1>12, <1>13 DEF Kinds
<1>15. QED
  BY <1>14 DEF C

\* Every unit is in one place: no leak, no buffer handed out twice, no
\* superbuffer in two lists, for any number of threads and buffers.
THEOREM Ownership == Spec => []ExclusiveOwnership
<1>1. ASSUME IInv PROVE ExclusiveOwnership
  <2>1. PICK k, o, i, l : Inv(k, o, i, l)
    BY <1>1 DEF IInv
  <2>2. \A b \in Buffers : Places(b) = {Cell(k, o, i, b)}
    BY <2>1, OneCell
  <2>3. QED
    BY <2>2 DEF ExclusiveOwnership
<1>2. QED
  BY <1>1, Invariance, PTL

-----------------------------------------------------------------------------
(* Whom a buffer is sent to.                                               *)

\* A thread sends the buffers of others only: its own go to its pool.
Remote == \A t \in Threads : pc[t] = "send" \/ Sending(t) => Dest(t) # t

\* A unit keeps the thread it was carved for.
LEMMA TagStays ==
  ASSUME IInv, [Next]_vars
  PROVE  \A b \in Buffers : tag[b] # Null => tag'[b] = tag[b]
<1>1. PICK k, o, i, l : Inv(k, o, i, l)
  BY DEF IInv
<1>2. ASSUME NEW t \in Threads, NEW g, NEW n, TakeUnit(t, g, n)
      PROVE  \A b \in Buffers : tag[b] # Null => tag'[b] = tag[b]
  BY <1>1, <1>2, TakeUnitFacts
<1>3. CASE \E t \in Threads : Alloc(t) \/ NewItem(t) \/ Refill(t)
  BY <1>2, <1>3 DEF Alloc, NewItem, Refill
<1>4. CASE UNCHANGED tag
  BY <1>4
<1>5. (\E t \in Threads : Alloc(t) \/ NewItem(t) \/ Refill(t)) \/ UNCHANGED tag
  BY DEF vars, Next, Ended, ThreadStep, Abort, Call, CallMalloc, CallFree, CallRealloc, Internal,
         ResumeLoop, ResumeMalloc, ReturnToCaller, ReadHead, Detach, DrainNode, DrainDone,
         Tfree, Store, AddRead, AddCas, heapVars
<1>6. QED
  BY <1>3, <1>4, <1>5

\* Only Tfree begins to send; until the superbuffer is replaced the thread
\* keeps the buffer, and the buffer its destination.
LEMMA RemoteNext ==
  ASSUME IInv, Remote, [Next]_vars
  PROVE  Remote'
<1>1. PICK k, o, i, l : Inv(k, o, i, l)
  BY DEF IInv
<1>2. TypeOK /\ Control
  BY <1>1 DEF Inv
<1>3. SUFFICES ASSUME NEW t \in Threads, pc'[t] \in {"send", "addread", "addcas", "refill"}
               PROVE  tag'[buf'[t]] # t
  BY DEF Remote, Sending, Dest
<1>4. CASE pc[t] \in {"send", "addread", "addcas", "refill"} /\ buf'[t] = buf[t]
  <2>1. tag[buf[t]] # t /\ buf[t] \in Buffers /\ tag[buf[t]] \in Threads
    BY <1>2, <1>4 DEF Remote, Sending, Dest, Control
  <2>2. QED
    BY <2>1, <1>4, TagStays, NullAssumption
<1>5. CASE pc[t] = "tfree" /\ buf'[t] = buf[t] /\ tag[buf[t]] # t /\ UNCHANGED tag
  BY <1>5
<1>6. CASE UNCHANGED <<pc, buf>>
  BY <1>3, <1>4, <1>6
<1>7. ASSUME NEW s \in Threads, ThreadStep(s)
      PROVE  \/ pc[t] \in {"send", "addread", "addcas", "refill"} /\ buf'[t] = buf[t]
             \/ pc[t] = "tfree" /\ buf'[t] = buf[t] /\ tag[buf[t]] # t /\ UNCHANGED tag
  <2>0. pc \in [Threads -> PCs] /\ buf \in [Threads -> Buffers \cup {Null}]
    BY <1>2 DEF TypeOK
  <2>1. CASE Abort(s)
    BY <1>3, <2>1 DEF Abort
  <2>2. CASE Call(s)
    BY <1>3, <2>0, <2>2 DEF Call, CallMalloc, CallFree, CallRealloc
  <2>3. CASE Alloc(s)
    BY <1>3, <2>0, <2>3 DEF Alloc
  <2>4. CASE ResumeLoop(s) \/ ResumeMalloc(s) \/ ReturnToCaller(s)
    BY <1>3, <2>0, <2>4 DEF ResumeLoop, ResumeMalloc, ReturnToCaller
  <2>5. CASE ReadHead(s) \/ DrainNode(s) \/ DrainDone(s)
    BY <1>3, <2>0, <2>5 DEF ReadHead, DrainNode, DrainDone
  <2>6. CASE Detach(s)
    BY <1>3, <2>0, <2>6 DEF Detach
  <2>7. CASE Tfree(s)
    BY <1>3, <2>0, <2>7 DEF Tfree, IsLocal, Dest
  <2>8. CASE NewItem(s) \/ Refill(s)
    BY <1>3, <2>0, <2>8 DEF NewItem, Refill
  <2>9. CASE Store(s)
    BY <1>3, <2>0, <2>9 DEF Store
  <2>10. CASE AddRead(s) \/ AddCas(s)
    BY <1>3, <2>0, <2>10 DEF AddRead, AddCas
  <2>11. QED
    BY <1>7, <2>1, <2>2, <2>3, <2>4, <2>5, <2>6, <2>7, <2>8, <2>9, <2>10 DEF ThreadStep, Internal
<1>8. QED
  BY <1>4, <1>5, <1>6, <1>7 DEF Next, Ended, vars

\* The invariant, with the destinations.
LEMMA SendsAreRemote == Spec => [](IInv /\ Remote)
<1>1. Init => Remote
  BY DEF Init, Remote, Sending
<1>2. IInv /\ Remote /\ [Next]_vars => Remote'
  BY RemoteNext
<1>3. QED
  BY <1>1, <1>2, Invariance, PTL DEF Spec

\* The list of a thread changes by a push of another thread only, which links
\* the former head behind its superbuffer: the owner drains behind the head
\* and never writes it, and two pushes never lose one another's node.
THEOREM ListsGrowAtHead == Spec => PushOnly
<1> DEFINE Pushed == \A d \in Threads : head'[d] # head[d] =>
                       /\ \E t \in Threads \ {d} : pc[t] = "addcas" /\ pc'[t] = "refill"
                       /\ head'[d] # Null /\ next'[head'[d]] = head[d]
<1>1. ASSUME IInv, Remote, [Next]_vars
      PROVE  [Pushed]_vars
  <2>1. PICK k, o, i, l : Inv(k, o, i, l)
    BY <1>1 DEF IInv
  <2>2. TypeOK /\ Items
    BY <2>1 DEF Inv
  <2>3. CASE UNCHANGED head
    BY <2>3
  <2>4. ASSUME NEW t \in Threads, AddCas(t), CasSucceeds(t),
               head' = [head EXCEPT ![Dest(t)] = super[t][Item(t)]], pc' = [pc EXCEPT ![t] = "refill"]
        PROVE  Pushed
    <3>1. pc[t] = "addcas" /\ pc'[t] = "refill"
      BY <2>2, <2>4 DEF AddCas, TypeOK
    <3>2. Dest(t) # t
      BY <1>1, <3>1 DEF Remote, Sending
    <3>3. Item(t) \in Threads /\ super[t][Item(t)] # Null
      BY <2>2, <3>1, ItemIsThread DEF Items, Sending
    <3>4. super[t][Item(t)] \in Buffers
      BY <2>2, <3>3 DEF TypeOK
    <3>5. next'[super[t][Item(t)]] = head[Dest(t)]
      BY <2>2, <2>4, <3>4 DEF AddCas, CasSucceeds, TypeOK
    <3>6. SUFFICES ASSUME NEW d \in Threads, head'[d] # head[d]
                   PROVE  d = Dest(t) /\ head'[d] = super[t][Item(t)]
      BY <3>1, <3>2, <3>3, <3>5
    <3>7. QED
      BY <2>2, <2>4, <3>6 DEF TypeOK
  <2>5. \/ UNCHANGED head
        \/ \E t \in Threads : /\ AddCas(t) /\ CasSucceeds(t)
                              /\ head' = [head EXCEPT ![Dest(t)] = super[t][Item(t)]]
                              /\ pc' = [pc EXCEPT ![t] = "refill"]
    <3>1. ASSUME NEW t \in Threads, AddCas(t)
          PROVE  \/ UNCHANGED head
                 \/ /\ AddCas(t) /\ CasSucceeds(t)
                    /\ head' = [head EXCEPT ![Dest(t)] = super[t][Item(t)]]
                    /\ pc' = [pc EXCEPT ![t] = "refill"]
      BY <3>1 DEF AddCas
    <3>2. (\E t \in Threads : AddCas(t)) \/ UNCHANGED head
      BY <1>1 DEF vars, Next, Ended, ThreadStep, Abort, Call, CallMalloc, CallFree, CallRealloc, Internal,
         Alloc, ResumeLoop, ResumeMalloc, ReturnToCaller, ReadHead, Detach, DrainNode, DrainDone,
         Tfree, NewItem, Store, AddRead, Refill
    <3>3. QED
      BY <3>1, <3>2
  <2>6. QED
    BY <2>3, <2>4, <2>5
<1>2. QED
  BY <1>1, SendsAreRemote, PTL DEF PushOnly, Spec

-----------------------------------------------------------------------------
(* Superbuffers in lists.                                                  *)

\* The lists have the units whose cell says so.
LEMMA InAListIs ==
  ASSUME NEW k, NEW o, NEW i, NEW l, Inv(k, o, i, l), NEW n \in Buffers
  PROVE  InAList(n) <=> k[n] \in Listed
<1>1. Places(n) = {Cell(k, o, i, n)}
  BY OneCell
<1>2. Cell(k, o, i, n)[1] = k[n]
  BY DEF Cell
<1>3. QED
  BY <1>1, <1>2 DEF InAList, Listed

\* A thread that enters _tfree has taken its unit out of every list, also
\* when the unit is the superbuffer that _TMfreelist has just drained.
FreedIsUnlisted ==
  \A t \in Threads, n \in Buffers : pc[t] = "tfree" /\ n = buf[t] => ~InAList(n)

\* FreedIsUnlisted follows from the inductive invariant.
LEMMA Unlisted == IInv => FreedIsUnlisted
<1>1. SUFFICES ASSUME IInv, NEW t \in Threads, NEW n \in Buffers, pc[t] = "tfree", n = buf[t]
               PROVE  ~InAList(n)
  BY DEF FreedIsUnlisted
<1>2. PICK k, o, i, l : Inv(k, o, i, l)
  BY <1>1 DEF IInv
<1>3. k[n] = "buf"
  BY <1>1, <1>2 DEF Inv, Shape, BufAt
<1>4. QED
  BY <1>2, <1>3, InAListIs DEF Listed

\* From the push of a superbuffer until its destination frees it nothing
\* writes its slots: the sender stores into superbuffers that are in no list,
\* and the owner of the list erases the one it takes out of it.
THEOREM SentStaysFrozen == Spec => SentIsFrozen
<1> DEFINE Frozen == \A n \in Buffers : InAList(n) /\ InAList(n)' => bufs'[n] = bufs[n]
<1>1. ASSUME IInv, FreedIsUnlisted', [Next]_vars
      PROVE  [Frozen]_vars
  <2>1. PICK k, o, i, l : Inv(k, o, i, l)
    BY <1>1 DEF IInv
  <2>2. TypeOK /\ SuperAt(k, o, i)
    BY <2>1 DEF Inv, Shape
  <2>3. CASE UNCHANGED bufs
    BY <2>3
  <2>4. ASSUME NEW t \in Threads, Store(t)
        PROVE  Frozen
    <3>1. pc[t] = "send" /\ HasItem(t)
      BY <2>4 DEF Store
    <3>2. Item(t) \in Threads /\ super[t][Item(t)] # Null
      BY <3>1, ItemIsThread
    <3>3. super[t][Item(t)] \in Buffers
      BY <2>2, <3>2 DEF TypeOK
    <3>4. k[super[t][Item(t)]] = "super"
      BY <2>2, <3>1, <3>2, <3>3 DEF SuperAt, Sent
    <3>5. ~InAList(super[t][Item(t)])
      BY <2>1, <3>3, <3>4, InAListIs DEF Listed
    <3>6. \A n \in Buffers : n # super[t][Item(t)] => bufs'[n] = bufs[n]
      BY <2>2, <2>4, <3>3 DEF Store, TypeOK
    <3>7. QED
      BY <3>5, <3>6
  <2>5. ASSUME NEW t \in Threads, DrainNode(t)
        PROVE  Frozen
    <3>1. pc'[t] = "tfree" /\ buf'[t] = curr[t]
      BY <2>2, <2>5 DEF DrainNode, TypeOK
    <3>2. ASSUME NEW n \in Buffers, n = curr[t]
          PROVE  ~InAList(n)'
      BY <1>1, <3>1, <3>2 DEF FreedIsUnlisted
    <3>3. \A n \in Buffers : n # curr[t] => bufs'[n] = bufs[n]
      BY <2>2, <2>5 DEF DrainNode, TypeOK
    <3>4. QED
      BY <3>2, <3>3
  <2>6. (\E t \in Threads : Store(t) \/ DrainNode(t)) \/ UNCHANGED bufs
    BY <1>1 DEF vars, Next, Ended, ThreadStep, Abort, Call, CallMalloc, CallFree, CallRealloc, Internal,
       Alloc, ResumeLoop, ResumeMalloc, ReturnToCaller, ReadHead, Detach, DrainDone,
       Tfree, NewItem, AddRead, AddCas, Refill
  <2>7. QED
    BY <2>3, <2>4, <2>5, <2>6
<1>2. IInv => FreedIsUnlisted
  BY Unlisted
<1>3. QED
  BY <1>1, <1>2, Invariance, PTL DEF SentIsFrozen, Spec

-----------------------------------------------------------------------------
(* Tmalloc implements ThreadHeap.                                          *)

\* The units the application has, as ThreadHeap counts them.
Lent == held \cup ({arg[t] : t \in Threads} \ {Null})

\* A unit is lent exactly when its cell says held or arg.
LEMMA LentIs ==
  ASSUME NEW k, NEW o, NEW i, NEW l, Inv(k, o, i, l), NEW b \in Buffers
  PROVE  b \in Lent <=> k[b] \in {"held", "arg"}
<1>1. HeldAt(k) /\ ArgAt(k, o) /\ PlaceType(k, o, i)
  BY DEF Inv, Shape
<1>2. b # Null
  BY NullAssumption
<1>3. QED
  BY <1>1, <1>2 DEF Lent, HeldAt, ArgAt, PlaceType

\* The slots of a superbuffer hold different units: a full one holds
\* SuperSize of them.
LEMMA ContentSize ==
  ASSUME NEW k, NEW o, NEW i, NEW l, Inv(k, o, i, l), NEW n \in Buffers, k[n] \in Listed
  PROVE  /\ Content(n) \subseteq Buffers
         /\ Cardinality(Content(n)) = SuperSize
         /\ \A b \in Content(n) : k[b] = "slot" /\ o[b] = n /\ status[b] = 1
<1>1. TypeOK /\ SlotAt(k, o, i) /\ Filled(k, o, i) /\ Statuses(k, o)
  BY DEF Inv, Shape
<1>2. \A j \in Slots : bufs[n][j] \in Buffers
  BY <1>1 DEF TypeOK, Filled
<1>3. \A j \in Slots : k[bufs[n][j]] = "slot" /\ o[bufs[n][j]] = n /\ i[bufs[n][j]] = j
  BY <1>1, <1>2 DEF SlotAt
<1>4. Content(n) \subseteq Buffers /\ \A b \in Content(n) : k[b] = "slot" /\ o[b] = n /\ status[b] = 1
  BY <1>1, <1>2, <1>3 DEF Content, Statuses
<1> DEFINE f == [j \in Slots |-> bufs[n][j]]
<1>5. f \in Bijection(1..SuperSize, Content(n))
  <2>1. f \in [Slots -> Content(n)]
    BY DEF Content
  <2>2. \A j, m \in Slots : f[j] = f[m] => j = m
    BY <1>3
  <2>3. \A b \in Content(n) : \E j \in Slots : f[j] = b
    BY DEF Content
  <2>4. QED
    BY <2>1, <2>2, <2>3 DEF Slots, Bijection, Injection, Surjection, IsInjective
<1>6. IsFiniteSet(1..SuperSize) /\ Cardinality(1..SuperSize) = SuperSize
  BY FS_Interval, SizeAssumption
<1>7. Cardinality(Content(n)) = SuperSize
  BY <1>5, <1>6, FS_Bijection DEF ExistsBijection
<1>8. QED
  BY <1>4, <1>7

\* ThreadHeap counts as Tmalloc does.
LEMMA SameCount == \A S : Heap!Cardinality(S) = Cardinality(S)
  BY DEF Heap!Cardinality, Cardinality

\* An allocation from the local pool, or from units carved for it, takes a
\* unit of the heap.
LEMMA TakeMaps ==
  ASSUME NEW k, NEW o, NEW i, NEW l, Inv(k, o, i, l), NEW t \in Threads,
         NEW g, NEW b, TakeUnit(t, g, b)
  PROVE  /\ Heap!Take(t, g, b)
         /\ g \in SUBSET Heap!Unowned /\ b \in pool[t] \cup g
         /\ b \in Buffers /\ k[b] \in {"fresh", "pool"}
<1>1. TypeOK /\ Statuses(k, o)
  BY DEF Inv, Shape
<1>2. b \in Buffers /\ k[b] \in {"fresh", "pool"}
  BY TakeUnitFacts
<1>3. status[b] = 0
  BY <1>1, <1>2 DEF Statuses
<1>4. status' = [status EXCEPT ![b] = 2]
  BY DEF TakeUnit
<1>5. {x \in Buffers : status[x] = 2}' = {x \in Buffers : status[x] = 2} \cup {b}
  BY <1>1, <1>2, <1>4 DEF TypeOK
<1>6. UNCHANGED {x \in Buffers : status[x] = 1}
  BY <1>1, <1>2, <1>3, <1>4 DEF TypeOK
<1>7. g \subseteq Heap!Unowned
  BY DEF TakeUnit, Carvable, Fresh, Heap!Unowned
<1>8. g # {} => pool[t] = {} /\ Cardinality(g) = IncGrow
  BY DEF TakeUnit, Carvable
<1>9. /\ tag' = [x \in Buffers |-> IF x \in g THEN t ELSE tag[x]]
      /\ pool' = [pool EXCEPT ![t] = (@ \cup g) \ {b}]
      /\ b \in pool[t] \cup g
  BY DEF TakeUnit
<1>10. b \notin {x \in Buffers : status[x] = 2}
  BY <1>3
<1>11. Heap!Take(t, g, b)
  BY <1>5, <1>6, <1>7, <1>8, <1>9, <1>10, SameCount DEF Heap!Take
<1>12. QED
  BY <1>2, <1>7, <1>9, <1>11

\* _tmalloc lends a unit; _trealloc lends a new one and takes back the old.
LEMMA AllocMaps ==
  ASSUME NEW k, NEW o, NEW i, NEW l, Inv(k, o, i, l), NEW t \in Threads, Alloc(t)
  PROVE  Heap!Lend(t)
<1>1. TypeOK /\ Control /\ ArgAt(k, o)
  BY DEF Inv, Shape
<1>2. PICK g, b : TakeUnit(t, g, b) /\
        \/ held' = held \cup {b} /\ UNCHANGED arg
        \/ op[t] = "realloc" /\ arg' = [arg EXCEPT ![t] = b] /\ UNCHANGED held
  BY DEF Alloc
<1>3. Heap!Take(t, g, b) /\ g \in SUBSET Heap!Unowned /\ b \in pool[t] \cup g /\ b \in Buffers
      /\ k[b] \in {"fresh", "pool"}
  BY <1>2, TakeMaps
<1>4. b # Null
  BY <1>3, NullAssumption
<1>5. Lent' = Lent \cup {b} \/ \E old \in Lent : Lent' = (Lent \ {old}) \cup {b}
  <2>1. CASE held' = held \cup {b} /\ UNCHANGED arg
    BY <2>1, <1>4 DEF Lent
  <2>2. CASE op[t] = "realloc" /\ arg' = [arg EXCEPT ![t] = b] /\ UNCHANGED held
    <3>1. arg[t] # Null /\ arg[t] \in Buffers
      BY <1>1, <2>2 DEF Control, TypeOK
    <3>2. arg[t] \in Lent
      BY <3>1 DEF Lent
    <3>3. k[arg[t]] = "arg" /\ o[arg[t]] = t
      BY <1>1, <3>1 DEF ArgAt
    <3>4. arg[t] \notin held
      BY <3>1, <3>3 DEF Inv, Shape, HeldAt
    <3>5. \A u \in Threads : u # t => arg[u] # arg[t]
      BY <1>1, <3>1, <3>3 DEF ArgAt
    <3>6. \A u \in Threads : arg'[u] = IF u = t THEN b ELSE arg[u]
      BY <1>1, <2>2 DEF TypeOK
    <3>7. b # arg[t]
      BY <1>3, <3>3
    <3>8. ASSUME NEW x PROVE x \in Lent' <=> x \in (Lent \ {arg[t]}) \cup {b}
      <4>1. x \in Lent' <=> x \in held \/ (x # Null /\ \E u \in Threads : x = arg'[u])
        BY <2>2 DEF Lent
      <4>2. x \in Lent <=> x \in held \/ (x # Null /\ \E u \in Threads : x = arg[u])
        BY DEF Lent
      <4>3. QED
        BY <1>4, <3>4, <3>5, <3>6, <3>7, <4>1, <4>2
    <3>9. Lent' = (Lent \ {arg[t]}) \cup {b}
      BY <3>8
    <3>10. QED
      BY <3>2, <3>9
  <2>3. QED
    BY <1>2, <2>1, <2>2
<1>6. QED
  BY <1>3, <1>5 DEF Heap!Lend, Lent

\* A superbuffer for the map of a thread is a unit the allocator takes.
LEMMA BatchingMaps ==
  ASSUME NEW k, NEW o, NEW i, NEW l, Inv(k, o, i, l), NEW t \in Threads, NewItem(t) \/ Refill(t)
  PROVE  Heap!Batching(t)
<1>1. PICK g, b : TakeUnit(t, g, b)
  BY DEF NewItem, Refill
<1>2. UNCHANGED <<held, arg>>
  BY DEF NewItem, Refill, callVars
<1>3. QED
  BY <1>1, <1>2, TakeMaps DEF Heap!Batching

\* A call of _tfree takes a unit from the application.
LEMMA CallFreeMaps ==
  ASSUME NEW k, NEW o, NEW i, NEW l, Inv(k, o, i, l), NEW t \in Threads, CallFree(t)
  PROVE  Heap!GiveBack
<1>1. PICK b \in held : held' = held \ {b}
  BY DEF CallFree
<1>2. UNCHANGED <<tag, status, pool, arg>>
  BY DEF CallFree, heapVars
<1>3. b \in Buffers /\ k[b] = "held"
  BY <1>1 DEF Inv, TypeOK, Shape, HeldAt
<1>4. \A u \in Threads : arg[u] # b
  BY <1>3 DEF Inv, Shape, ArgAt
<1>5. b \in Lent /\ Lent' = Lent \ {b}
  BY <1>1, <1>2, <1>4 DEF Lent
<1>6. QED
  BY <1>2, <1>5 DEF Heap!GiveBack, Lent

\* _tfree of a unit of its own, and of another thread's.
LEMMA TfreeMaps ==
  ASSUME NEW k, NEW o, NEW i, NEW l, Inv(k, o, i, l), NEW t \in Threads, Tfree(t)
  PROVE  Heap!FreeLocally(t) \/ Heap!FreeRemotely(t)
<1> DEFINE b == buf[t]
<1>1. TypeOK /\ Control /\ BufAt(k, o) /\ Statuses(k, o)
  BY DEF Inv, Shape
<1>2. pc[t] = "tfree" /\ UNCHANGED <<tag, held, arg>>
  BY DEF Tfree, callVars
<1>3. b \in Buffers /\ k[b] = "buf" /\ o[b] = t
  BY <1>1, <1>2 DEF Control, BufAt
<1>4. status[b] = 2 /\ b \notin Lent
  BY <1>1, <1>2, <1>3, LentIs DEF Statuses
<1>5. CASE IsLocal(t)
  <2>1. status' = [status EXCEPT ![b] = 0] /\ pool' = [pool EXCEPT ![t] = @ \cup {b}]
    BY <1>5 DEF Tfree
  <2>2. {x \in Buffers : status[x] = 2}' = {x \in Buffers : status[x] = 2} \ {b}
    BY <1>1, <1>3, <2>1 DEF TypeOK
  <2>3. UNCHANGED {x \in Buffers : status[x] = 1}
    BY <1>1, <1>3, <1>4, <2>1 DEF TypeOK
  <2>4. tag[b] = t
    BY <1>5 DEF IsLocal, Dest
  <2>5. b \in {x \in Buffers : status[x] = 2} \ Lent
    BY <1>3, <1>4
  <2>6. UNCHANGED <<tag, held \cup ({arg[u] : u \in Threads} \ {Null})>>
    BY <1>2
  <2> HIDE DEF b
  <2>7. QED
    BY <2>1, <2>2, <2>3, <2>4, <2>5, <2>6 DEF Heap!FreeLocally, Lent
<1>6. CASE ~IsLocal(t)
  <2>1. status' = [status EXCEPT ![b] = 1] /\ UNCHANGED pool
    BY <1>6 DEF Tfree
  <2>2. {x \in Buffers : status[x] = 2}' = {x \in Buffers : status[x] = 2} \ {b}
    BY <1>1, <1>3, <2>1 DEF TypeOK
  <2>3. {x \in Buffers : status[x] = 1}' = {x \in Buffers : status[x] = 1} \cup {b}
    BY <1>1, <1>3, <2>1 DEF TypeOK
  <2>4. tag[b] # t
    BY <1>6 DEF IsLocal, Dest
  <2>5. b \in {x \in Buffers : status[x] = 2} \ Lent
    BY <1>3, <1>4
  <2>6. QED
    BY <1>2, <2>1, <2>2, <2>3, <2>4, <2>5 DEF Heap!FreeRemotely, Lent
<1>7. QED
  BY <1>5, <1>6

\* The units of a drained superbuffer are a batch of the thread's own.
LEMMA DrainMaps ==
  ASSUME DistinctAddresses,
         NEW k, NEW o, NEW i, NEW l, Inv(k, o, i, l), NEW t \in Threads, DrainNode(t)
  PROVE  Heap!Reclaim(t)
<1> DEFINE c == curr[t]
           s == Content(c)
<1>1. TypeOK /\ CurrAt(k, o) /\ ListIds(k, o, l) /\ Homes(k, o, i, l)
  BY DEF Inv, Shape
<1>2. pc[t] = "drain" /\ c \in Buffers
  BY <1>1 DEF DrainNode, TypeOK
<1>3. k[c] = "curr" /\ o[c] = t /\ l[c] = t
  BY <1>1, <1>2 DEF CurrAt, ListIds
<1>4. s \subseteq Buffers /\ Cardinality(s) = SuperSize
      /\ \A b \in s : k[b] = "slot" /\ o[b] = c /\ status[b] = 1
  BY <1>2, <1>3, ContentSize DEF Listed
<1>5. \A b \in s : tag[b] = t
  BY <1>1, <1>3, <1>4 DEF Homes, Listed
<1>6. /\ status' = [b \in Buffers |-> IF b \in s THEN 0 ELSE status[b]]
      /\ pool' = [pool EXCEPT ![t] = @ \cup s]
      /\ UNCHANGED <<tag, held, arg>>
  BY DEF DrainNode, callVars
<1>a. UNCHANGED <<tag, held \cup ({arg[u] : u \in Threads} \ {Null})>>
  BY <1>6
<1> HIDE DEF s, c
<1>7. UNCHANGED {x \in Buffers : status[x] = 2}
  BY <1>1, <1>4, <1>6 DEF TypeOK
<1>8. {x \in Buffers : status[x] = 1}' = {x \in Buffers : status[x] = 1} \ s
  BY <1>1, <1>4, <1>6 DEF TypeOK
<1>9. s \in SUBSET {x \in Buffers : status[x] = 1}
  BY <1>4
<1>10. QED
  BY <1>4, <1>5, <1>6, <1>a, <1>7, <1>8, <1>9, SameCount DEF Heap!Reclaim

\* A unit that passes between held and arg stays lent.
LEMMA LentStays ==
  ASSUME NEW k, NEW o, NEW i, NEW l, Inv(k, o, i, l), NEW t \in Threads,
         CallRealloc(t) \/ ReturnToCaller(t)
  PROVE  Lent' = Lent
<1>1. TypeOK /\ Control
  BY DEF Inv
<1>2. CASE CallRealloc(t)
  <2>1. PICK b \in held : held' = held \ {b} /\ arg' = [arg EXCEPT ![t] = b]
    BY <1>2 DEF CallRealloc
  <2>2. arg[t] = Null /\ b # Null
    BY <1>1, <1>2, NullAssumption DEF CallRealloc, Control, TypeOK
  <2>3. QED
    BY <1>1, <2>1, <2>2 DEF Lent, TypeOK
<1>3. CASE ReturnToCaller(t)
  <2>1. held' = held \cup ({arg[t]} \ {Null}) /\ arg' = [arg EXCEPT ![t] = Null]
    BY <1>3 DEF ReturnToCaller
  <2>2. \A b \in Buffers : b = arg[t] => \A u \in Threads : u # t => arg[u] # b
    BY DEF Inv, Shape, ArgAt
  <2>3. QED
    BY <1>1, <2>1, <2>2 DEF Lent, TypeOK
<1>4. QED
  BY <1>2, <1>3

\* Every step of the program is a step of the heap or leaves it as it is.
LEMMA HeapStep ==
  ASSUME DistinctAddresses, IInv, [Next]_vars
  PROVE  [Heap!Next]_(Heap!vars)
<1>1. PICK k, o, i, l : Inv(k, o, i, l)
  BY DEF IInv
<1>2. ASSUME UNCHANGED <<tag, status, pool>>, Lent' = Lent
      PROVE  UNCHANGED Heap!vars
  BY <1>2 DEF Heap!vars, Lent
<1>3. ASSUME UNCHANGED <<tag, status, pool, held, arg>>
      PROVE  UNCHANGED Heap!vars
  BY <1>2, <1>3 DEF Lent
<1>4. CASE UNCHANGED vars
  BY <1>3, <1>4 DEF vars
<1>5. ASSUME NEW t \in Threads, ThreadStep(t)
      PROVE  Heap!Next \/ UNCHANGED Heap!vars
  <2>1. CASE Abort(t) \/ CallMalloc(t)
    BY <1>3, <2>1 DEF Abort, CallMalloc, heapVars, callVars
  <2>2. CASE CallFree(t)
    BY <1>1, <2>2, CallFreeMaps DEF Heap!Next
  <2>3. CASE CallRealloc(t)
    BY <1>1, <1>2, <2>3, LentStays DEF CallRealloc, heapVars
  <2>4. CASE ReturnToCaller(t)
    BY <1>1, <1>2, <2>4, LentStays DEF ReturnToCaller, heapVars
  <2>5. CASE Alloc(t)
    BY <1>1, <2>5, AllocMaps DEF Heap!Next
  <2>6. CASE ResumeLoop(t) \/ ResumeMalloc(t) \/ ReadHead(t) \/ Detach(t) \/ DrainDone(t)
    BY <1>3, <2>6 DEF ResumeLoop, ResumeMalloc, ReadHead, Detach, DrainDone, heapVars, callVars
  <2>7. CASE DrainNode(t)
    BY <1>1, <2>7, DrainMaps DEF Heap!Next
  <2>8. CASE Tfree(t)
    BY <1>1, <2>8, TfreeMaps DEF Heap!Next
  <2>9. CASE NewItem(t) \/ Refill(t)
    BY <1>1, <2>9, BatchingMaps DEF Heap!Next
  <2>10. CASE Store(t) \/ AddRead(t) \/ AddCas(t)
    BY <1>3, <2>10 DEF Store, AddRead, AddCas, heapVars, callVars
  <2>11. QED
    BY <1>5, <2>1, <2>2, <2>3, <2>4, <2>5, <2>6, <2>7, <2>8, <2>9, <2>10
       DEF ThreadStep, Call, Internal
<1>6. QED
  BY <1>4, <1>5 DEF Next, Ended

\* Tmalloc implements ThreadHeap: whatever the threads free for one another,
\* each unit goes back, in batches, to the thread it was carved for, and none
\* is lent twice; provided that no two _TMThreadInfo agree in the low 32 bits
\* of their address, without which a batch may reach another thread.
THEOREM HeapImplemented ==
  ASSUME DistinctAddresses
  PROVE  Spec => ImplementsThreadHeap
<1>1. Init => Heap!Init
  <2>1. SUFFICES ASSUME Init PROVE Heap!Init
    OBVIOUS
  <2>2. \A b \in Buffers : status[b] = 0
    BY <2>1 DEF Init
  <2>3. {b \in Buffers : status[b] = 2} = {} /\ {b \in Buffers : status[b] = 1} = {}
    BY <2>2
  <2>4. held \cup ({arg[t] : t \in Threads} \ {Null}) = {}
    BY <2>1 DEF Init
  <2>5. tag = [b \in Buffers |-> Null] /\ pool = [t \in Threads |-> {}]
    BY <2>1 DEF Init
  <2>6. QED
    BY <2>3, <2>4, <2>5 DEF Heap!Init
<1>2. IInv /\ [Next]_vars => [Heap!Next]_(Heap!vars)
  BY HeapStep
<1>3. QED
  BY <1>1, <1>2, Invariance, PTL DEF ImplementsThreadHeap, Heap!Spec, Spec
=============================================================================
