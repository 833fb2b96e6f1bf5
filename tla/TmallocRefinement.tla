-------------------------- MODULE TmallocRefinement --------------------------
(***************************************************************************)
(* Tmalloc implements ThreadHeap.  A unit is in use when its status is 2,  *)
(* waiting when it is 1, and belongs to the application when held has it   *)
(* or _trealloc is about to free or to return it.                          *)
(***************************************************************************)
EXTENDS Tmalloc

Heap == INSTANCE ThreadHeap WITH
  Units <- Buffers, Nobody <- Null, Batch <- SuperSize, Grow <- IncGrow,
  owner <- tag,
  free <- pool,
  inuse <- {b \in Buffers : status[b] = 2},
  waiting <- {b \in Buffers : status[b] = 1},
  lent <- held \cup ({arg[t] : t \in Threads} \ {Null})

\* The thread-local allocator with its lists and superbuffers is a heap in
\* which a unit always goes home to its owner.
ImplementsThreadHeap == Heap!Spec
=============================================================================
