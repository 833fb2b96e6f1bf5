------------------------------- MODULE Tmalloc -------------------------------
(***************************************************************************)
(* The thread-local allocator of tmalloc.cpp: _tmalloc, _tfree, _trealloc, *)
(* the superbuffers in which a thread collects the buffers it frees for    *)
(* other threads, the compare-and-swap list in which it sends them         *)
(* (_TMThreadInfo::addNode) and the drain of that list by its owner        *)
(* (_TMfreelist).                                                          *)
(*                                                                         *)
(* A superbuffer is itself a buffer taken from the sender's pool, and the  *)
(* receiver gives it back with _tfree, that is through a superbuffer of    *)
(* its own.  _tfree ends with _TMfreelist, so _TMfreelist calls itself     *)
(* through _tfree; stack[t] holds the loop variable `next' of every        *)
(* activation of _TMfreelist that waits for such a call to return.         *)
(*                                                                         *)
(* A step is one access to memory that two threads share (headLinkList,    *)
(* the next field of a published superbuffer) together with the            *)
(* thread-local work that follows it.  The free list of each pool is a set *)
(* here: its order belongs to the fixed-size allocator, and superbuffers   *)
(* and application buffers of one size class share one pool.               *)
(***************************************************************************)
EXTENDS Integers, Sequences, FiniteSets

CONSTANTS
  Threads,    \* the threads; also the addresses of their _TMThreadInfo
  Buffers,    \* every unit the system's memory can be carved into
  Null,       \* the null pointer
  SuperSize,  \* _TM_SUPERBUFFER_SIZE, buffers per superbuffer
  IncGrow,    \* units that FixedAllocatorNolock::grow() carves at a time
  Low32       \* the low 32 bits of each thread's _TMThreadInfo address

ASSUME NullAssumption == Null \notin Threads \cup Buffers
ASSUME SizeAssumption == SuperSize \in Nat \ {0} /\ IncGrow \in Nat \ {0}

VARIABLES
  tag,     \* PadBefore.tag: the thread whose pool the unit was carved for
  status,  \* PadBefore.status: 0 free, 1 waiting, 2 allocated
  pool,    \* the units on the free lists of each thread's allocator
  super,   \* destMap[..]->superbuffer, Null where the map has no item
  pos,     \* destMap[..]->pos, the number of slots of super in use
  bufs,    \* _TMLinkListNode.bufs; Null stands for an indeterminate slot
  next,    \* _TMLinkListNode.next
  head,    \* headLinkList of each thread
  held,    \* the buffers the application owns
  pc,      \* where each thread is
  op,      \* the call of the application each thread is executing
  arg,     \* _trealloc: its ptr until the copy, then its newptr
  buf,     \* _tfree: its parameter (which fixes its local destthread)
  curr,    \* _TMfreelist: curr; addNode: currhead
  stack,   \* _TMfreelist: next, one per suspended activation
  aborted  \* memory was exhausted and assert(buf) in grow() ended the process

heapVars == <<tag, status, pool>>
mapVars  == <<super, pos>>
callVars == <<op, arg, held>>
vars == <<tag, status, pool, super, pos, bufs, next, head, held,
          pc, op, arg, buf, curr, stack, aborted>>

Slots == 1..SuperSize
PCs == {"idle", "readhead", "detach", "drain", "alloc",
        "tfree", "send", "addread", "addcas", "refill", "return"}

TypeOK ==
  /\ tag \in [Buffers -> Threads \cup {Null}]
  /\ status \in [Buffers -> 0..2]
  /\ pool \in [Threads -> SUBSET Buffers]
  /\ super \in [Threads -> [Threads -> Buffers \cup {Null}]]
  /\ pos \in [Threads -> [Threads -> 0..SuperSize]]
  /\ bufs \in [Buffers -> [Slots -> Buffers \cup {Null}]]
  /\ next \in [Buffers -> Buffers \cup {Null}]
  /\ head \in [Threads -> Buffers \cup {Null}]
  /\ held \in SUBSET Buffers
  /\ pc \in [Threads -> PCs]
  /\ op \in [Threads -> {"none", "malloc", "free", "realloc"}]
  /\ arg \in [Threads -> Buffers \cup {Null}]
  /\ buf \in [Threads -> Buffers \cup {Null}]
  /\ curr \in [Threads -> Buffers \cup {Null}]
  /\ stack \in [Threads -> Seq(Buffers \cup {Null})]
  /\ aborted \in BOOLEAN

\* Every thread starts with the _TMThreadInfo that _tinit would make for it:
\* an empty list, an empty destMap, pools without a unit (startpool is 0).
Init ==
  /\ tag = [b \in Buffers |-> Null]
  /\ status = [b \in Buffers |-> 0]
  /\ pool = [t \in Threads |-> {}]
  /\ super = [t \in Threads |-> [d \in Threads |-> Null]]
  /\ pos = [t \in Threads |-> [d \in Threads |-> 0]]
  /\ bufs = [b \in Buffers |-> [i \in Slots |-> Null]]
  /\ next = [b \in Buffers |-> Null]
  /\ head = [t \in Threads |-> Null]
  /\ held = {}
  /\ pc = [t \in Threads |-> "idle"]
  /\ op = [t \in Threads |-> "none"]
  /\ arg = [t \in Threads |-> Null]
  /\ buf = [t \in Threads |-> Null]
  /\ curr = [t \in Threads |-> Null]
  /\ stack = [t \in Threads |-> <<>>]
  /\ aborted = FALSE

-----------------------------------------------------------------------------
(* The local allocator: VariableAllocatorNolock over its fixed pools.      *)

Fresh == {b \in Buffers : tag[b] = Null}

\* What grow() may carve before the allocation: nothing unless the free list
\* is empty, else IncGrow units that belong to nobody yet.
Carvable(t) ==
  IF pool[t] # {} THEN {{}}
                  ELSE {g \in SUBSET Fresh : Cardinality(g) = IncGrow}

\* allocator.alloc(size) followed by setStatus(retval, 2), as both _tmalloc
\* and _tmallocnogc do: carve g, take unit b.
TakeUnit(t, g, b) ==
  /\ g \in Carvable(t)
  /\ b \in pool[t] \cup g
  /\ tag' = [x \in Buffers |-> IF x \in g THEN t ELSE tag[x]]
  /\ status' = [status EXCEPT ![b] = 2]
  /\ pool' = [pool EXCEPT ![t] = (@ \cup g) \ {b}]

OutOfMemory(t) == pool[t] = {} /\ Cardinality(Fresh) < IncGrow

-----------------------------------------------------------------------------
(* The map from a destination to the superbuffer being filled for it.      *)

\* destthread of the _tfree that thread t executes.
Dest(t) == tag[buf[t]]

\* Items are compared by the low 32 bits of the destination's address
\* (DestMapItem::CompareKey), so an item made for e answers for every d
\* with the same low half.
ItemsFor(t, d) == {e \in Threads : super[t][e] # Null /\ Low32[e] = Low32[d]}
HasItem(t) == ItemsFor(t, Dest(t)) # {}
TheItem(S) == CHOOSE e \in S : TRUE
Item(t) == TheItem(ItemsFor(t, Dest(t)))

-----------------------------------------------------------------------------
(* Returning from _TMfreelist or from _tfree, to one of three callers.     *)

\* The loop of the suspended _TMfreelist: curr = next.
ResumeLoop(t) ==
  /\ pc[t] = "return" /\ stack[t] # <<>>
  /\ curr' = [curr EXCEPT ![t] = stack[t][Len(stack[t])]]
  /\ stack' = [stack EXCEPT ![t] = SubSeq(@, 1, Len(@) - 1)]
  /\ pc' = [pc EXCEPT ![t] = "drain"]
  /\ UNCHANGED <<heapVars, mapVars, bufs, next, head, callVars, buf>>

\* _tmalloc, whose _TMfreelist is done.
ResumeMalloc(t) ==
  /\ pc[t] = "return" /\ stack[t] = <<>> /\ op[t] \in {"malloc", "realloc"}
  /\ pc' = [pc EXCEPT ![t] = "alloc"]
  /\ UNCHANGED <<heapVars, mapVars, bufs, next, head, callVars, buf, curr, stack>>

\* The application: _tfree is done, or _trealloc, which hands out newptr.
ReturnToCaller(t) ==
  /\ pc[t] = "return" /\ stack[t] = <<>> /\ op[t] = "free"
  /\ held' = held \cup ({arg[t]} \ {Null})
  /\ arg' = [arg EXCEPT ![t] = Null]
  /\ op' = [op EXCEPT ![t] = "none"]
  /\ pc' = [pc EXCEPT ![t] = "idle"]
  /\ UNCHANGED <<heapVars, mapVars, bufs, next, head, buf, curr, stack>>

-----------------------------------------------------------------------------
(* Calls of the application.                                               *)

CallMalloc(t) ==
  /\ pc[t] = "idle"
  /\ op' = [op EXCEPT ![t] = "malloc"]
  /\ pc' = [pc EXCEPT ![t] = "readhead"]
  /\ UNCHANGED <<heapVars, mapVars, bufs, next, head, held, arg, buf, curr, stack>>

\* _tfree(b) by any thread, whoever allocated b; also _trealloc(b, 0).
CallFree(t) ==
  /\ pc[t] = "idle"
  /\ \E b \in held :
       /\ held' = held \ {b}
       /\ buf' = [buf EXCEPT ![t] = b]
  /\ op' = [op EXCEPT ![t] = "free"]
  /\ pc' = [pc EXCEPT ![t] = "tfree"]
  /\ UNCHANGED <<heapVars, mapVars, bufs, next, head, arg, curr, stack>>

\* _trealloc to a size above the one requested before; a smaller or equal
\* size returns ptr and changes nothing.
CallRealloc(t) ==
  /\ pc[t] = "idle"
  /\ \E b \in held :
       /\ held' = held \ {b}
       /\ arg' = [arg EXCEPT ![t] = b]
  /\ op' = [op EXCEPT ![t] = "realloc"]
  /\ pc' = [pc EXCEPT ![t] = "readhead"]
  /\ UNCHANGED <<heapVars, mapVars, bufs, next, head, buf, curr, stack>>

\* The allocation of _tmalloc.  _trealloc copies and goes on to free ptr.
Alloc(t) ==
  /\ pc[t] = "alloc"
  /\ \E g \in Carvable(t) : \E b \in pool[t] \cup g :
       /\ TakeUnit(t, g, b)
       /\ \/ /\ op[t] = "malloc"
             /\ held' = held \cup {b}
             /\ op' = [op EXCEPT ![t] = "none"]
             /\ pc' = [pc EXCEPT ![t] = "idle"]
             /\ UNCHANGED <<arg, buf>>
          \/ /\ op[t] = "realloc"
             /\ buf' = [buf EXCEPT ![t] = arg[t]]
             /\ arg' = [arg EXCEPT ![t] = b]
             /\ op' = [op EXCEPT ![t] = "free"]
             /\ pc' = [pc EXCEPT ![t] = "tfree"]
             /\ UNCHANGED held
  /\ UNCHANGED <<mapVars, bufs, next, head, curr, stack>>

-----------------------------------------------------------------------------
(* _TMfreelist: drain the superbuffers sent to t, all but the first.       *)

ReadHead(t) ==
  /\ pc[t] = "readhead"
  /\ curr' = [curr EXCEPT ![t] = head[t]]
  /\ pc' = [pc EXCEPT ![t] = IF head[t] = Null THEN "return" ELSE "detach"]
  /\ UNCHANGED <<heapVars, mapVars, bufs, next, head, callVars, buf, stack>>

UnlinkForgotten(n) == UNCHANGED next   \* mutant
\* Detach the rest of the list from its head n.
Unlink(n) == next' = [next EXCEPT ![n] = Null]

Detach(t) ==
  /\ pc[t] = "detach"
  /\ curr' = [curr EXCEPT ![t] = next[curr[t]]]
  /\ \/ next[curr[t]] = Null /\ pc' = [pc EXCEPT ![t] = "return"] /\ UNCHANGED next
     \/ next[curr[t]] # Null /\ pc' = [pc EXCEPT ![t] = "drain"] /\ Unlink(curr[t])
  /\ UNCHANGED <<heapVars, mapVars, bufs, head, callVars, buf, stack>>

Content(n) == {bufs[n][i] : i \in Slots}

\* The mutant reads next after the superbuffer is gone.
SuspendLate(t) == stack' = [stack EXCEPT ![t] = Append(@, Null)]
\* next = curr->next, kept while the call of _tfree runs.
Suspend(t) == stack' = [stack EXCEPT ![t] = Append(@, next[curr[t]])]

\* One iteration of the loop: return the buffers of superbuffer curr to the
\* local pool and _tfree the superbuffer, whose fields die with it.
DrainNode(t) ==
  /\ pc[t] = "drain" /\ curr[t] # Null
  /\ LET c == curr[t] IN
       /\ status' = [b \in Buffers |-> IF b \in Content(c) THEN 0 ELSE status[b]]
       /\ pool' = [pool EXCEPT ![t] = @ \cup Content(c)]
       /\ bufs' = [bufs EXCEPT ![c] = [i \in Slots |-> Null]]
       /\ next' = [next EXCEPT ![c] = Null]
       /\ buf' = [buf EXCEPT ![t] = c]
  /\ Suspend(t)
  /\ curr' = [curr EXCEPT ![t] = Null]
  /\ pc' = [pc EXCEPT ![t] = "tfree"]
  /\ UNCHANGED <<tag, mapVars, head, callVars>>

DrainDone(t) ==
  /\ pc[t] = "drain" /\ curr[t] = Null
  /\ pc' = [pc EXCEPT ![t] = "return"]
  /\ UNCHANGED <<heapVars, mapVars, bufs, next, head, callVars, buf, curr, stack>>

-----------------------------------------------------------------------------
(* _tfree.                                                                 *)

IsLocalAlways(t) == TRUE   \* mutant
IsLocal(t) == Dest(t) = t

\* Mark the buffer waiting; a local one goes straight back to the pool.
Tfree(t) ==
  /\ pc[t] = "tfree"
  /\ \/ /\ IsLocal(t)
        /\ status' = [status EXCEPT ![buf[t]] = 0]
        /\ pool' = [pool EXCEPT ![t] = @ \cup {buf[t]}]
        /\ buf' = [buf EXCEPT ![t] = Null]
        /\ pc' = [pc EXCEPT ![t] = "return"]
     \/ /\ ~IsLocal(t)
        /\ status' = [status EXCEPT ![buf[t]] = 1]
        /\ pc' = [pc EXCEPT ![t] = "send"]
        /\ UNCHANGED <<pool, buf>>
  /\ UNCHANGED <<tag, mapVars, bufs, next, head, callVars, curr, stack>>

\* The first buffer for this destination: DestMapItem's constructor takes a
\* superbuffer from the local pool without draining the list.
NewItem(t) ==
  /\ pc[t] = "send" /\ ~HasItem(t)
  /\ \E g \in Carvable(t) : \E n \in pool[t] \cup g :
       /\ TakeUnit(t, g, n)
       /\ super' = [super EXCEPT ![t][Dest(t)] = n]
       /\ next' = [next EXCEPT ![n] = Null]
  /\ pos' = [pos EXCEPT ![t][Dest(t)] = 0]
  /\ UNCHANGED <<bufs, head, callVars, pc, buf, curr, stack>>

IsFullEarly(p) == p >= SuperSize - 1   \* mutant
IsFullLate(p) == p > SuperSize   \* mutant
IsFull(p) == p >= SuperSize

\* Put the buffer into the superbuffer; send the superbuffer if it is full.
Store(t) ==
  /\ pc[t] = "send" /\ HasItem(t)
  /\ LET e == Item(t)
         p == pos[t][e] + 1
     IN /\ bufs' = [bufs EXCEPT ![super[t][e]][p] = buf[t]]
        /\ pos' = [pos EXCEPT ![t][e] = p]
        /\ \/ /\ IsFull(p)
              /\ pc' = [pc EXCEPT ![t] = "addread"]
              /\ UNCHANGED buf
           \/ /\ ~IsFull(p)
              /\ pc' = [pc EXCEPT ![t] = "return"]
              /\ buf' = [buf EXCEPT ![t] = Null]
  /\ UNCHANGED <<heapVars, super, next, head, callVars, curr, stack>>

-----------------------------------------------------------------------------
(* addNode on the destination's list, then a new superbuffer.              *)

AddRead(t) ==
  /\ pc[t] = "addread"
  /\ curr' = [curr EXCEPT ![t] = head[Dest(t)]]
  /\ pc' = [pc EXCEPT ![t] = "addcas"]
  /\ UNCHANGED <<heapVars, mapVars, bufs, next, head, callVars, buf, stack>>

CasBlind(t) == TRUE   \* mutant
CasInverted(t) == head[Dest(t)] # curr[t]   \* mutant
CasSucceeds(t) == head[Dest(t)] = curr[t]

AddCas(t) ==
  /\ pc[t] = "addcas"
  /\ next' = [next EXCEPT ![super[t][Item(t)]] = curr[t]]
  /\ \/ /\ CasSucceeds(t)
        /\ head' = [head EXCEPT ![Dest(t)] = super[t][Item(t)]]
        /\ curr' = [curr EXCEPT ![t] = Null]
        /\ pc' = [pc EXCEPT ![t] = "refill"]
     \/ /\ ~CasSucceeds(t)
        /\ curr' = [curr EXCEPT ![t] = head[Dest(t)]]
        /\ UNCHANGED <<head, pc>>
  /\ UNCHANGED <<heapVars, mapVars, bufs, callVars, buf, stack>>

Refill(t) ==
  /\ pc[t] = "refill"
  /\ \E g \in Carvable(t) : \E n \in pool[t] \cup g :
       /\ TakeUnit(t, g, n)
       /\ super' = [super EXCEPT ![t][Item(t)] = n]
       /\ next' = [next EXCEPT ![n] = Null]
  /\ pos' = [pos EXCEPT ![t][Item(t)] = 0]
  /\ buf' = [buf EXCEPT ![t] = Null]
  /\ pc' = [pc EXCEPT ![t] = "readhead"]
  /\ UNCHANGED <<bufs, head, callVars, curr, stack>>

-----------------------------------------------------------------------------
\* grow() gets no memory from the system: assert(buf) fails.
Abort(t) ==
  /\ \/ pc[t] \in {"alloc", "refill"}
     \/ pc[t] = "send" /\ ~HasItem(t)
  /\ OutOfMemory(t)
  /\ aborted' = TRUE
  /\ UNCHANGED <<heapVars, mapVars, bufs, next, head, callVars, pc, buf, curr, stack>>

\* The code a thread runs once it has entered a call.
Internal(t) ==
  \/ Alloc(t)
  \/ ResumeLoop(t) \/ ResumeMalloc(t) \/ ReturnToCaller(t)
  \/ ReadHead(t) \/ Detach(t) \/ DrainNode(t) \/ DrainDone(t)
  \/ Tfree(t) \/ NewItem(t) \/ Store(t)
  \/ AddRead(t) \/ AddCas(t) \/ Refill(t)

Call(t) == CallMalloc(t) \/ CallFree(t) \/ CallRealloc(t)

ThreadStep(t) == ~aborted /\ (((Call(t) \/ Internal(t)) /\ UNCHANGED aborted) \/ Abort(t))

\* A process that has ended takes no step; this is not a deadlock.
Ended == aborted /\ UNCHANGED vars

Next == (\E t \in Threads : ThreadStep(t)) \/ Ended

Spec == Init /\ [][Next]_vars

\* Preemptive threads: one inside a call keeps running.  Nothing makes the
\* application call.
Fairness == \A t \in Threads :
  WF_vars(~aborted /\ ((Internal(t) /\ UNCHANGED aborted) \/ Abort(t)))
FairSpec == Spec /\ Fairness

-----------------------------------------------------------------------------
(* Properties.                                                             *)

\* Thread t has sent the superbuffer of its item for e and not replaced it.
Sent(t, e) == pc[t] = "refill" /\ e = Item(t)

\* Thread t is linking the superbuffer of its item before its list has it:
\* what next of that superbuffer says is not yet part of any list.
Linking(t, n) == pc[t] = "addcas" /\ n = super[t][Item(t)]

\* Every place of the program that has unit b, so that the thread at that
\* place may go on to use it.
Places(b) ==
  (IF b \in Fresh THEN {<<"fresh">>} ELSE {})
  \cup (IF b \in held THEN {<<"held">>} ELSE {})
  \cup {<<"pool", t>> : t \in {u \in Threads : b \in pool[u]}}
  \cup {<<"arg", t>> : t \in {u \in Threads : b = arg[u]}}
  \cup {<<"buf", t>> : t \in {u \in Threads : b = buf[u] /\ pc[u] \in {"tfree", "send"}}}
  \cup {<<"super", x[1], x[2]>> :
          x \in {y \in Threads \X Threads : b = super[y[1]][y[2]] /\ ~Sent(y[1], y[2])}}
  \cup {<<"slot", x[1], x[2]>> : x \in {y \in Buffers \X Slots : b = bufs[y[1]][y[2]]}}
  \cup {<<"head", d>> : d \in {e \in Threads : b = head[e]}}
  \cup {<<"next", n>> :
          n \in {m \in Buffers : b = next[m] /\ \A t \in Threads : ~Linking(t, m)}}
  \cup {<<"curr", t>> : t \in {u \in Threads : b = curr[u] /\ pc[u] = "drain"}}
  \cup UNION {{<<"stack", t, i>> : i \in {j \in 1..Len(stack[t]) : b = stack[t][j]}} : t \in Threads}

\* Every unit is in exactly one place: none is leaked, none is handed out
\* twice, no superbuffer is in two lists or in a list and still being filled,
\* whatever the threads' steps are between the accesses of addNode and
\* _TMfreelist.
ExclusiveOwnership ==
  \A b \in Buffers : Places(b) # {} /\ \A p, q \in Places(b) : p = q

\* The asserts of the code: _tfree is given an allocated buffer (line 564),
\* a superbuffer has room for the buffer stored into it (583), and every slot
\* of a drained superbuffer has a waiting buffer (507).
AssertsHold ==
  \A t \in Threads :
    /\ pc[t] = "tfree" => status[buf[t]] = 2
    /\ pc[t] = "send" /\ HasItem(t) => pos[t][Item(t)] < SuperSize
    /\ pc[t] = "drain" /\ curr[t] # Null =>
         \A i \in Slots : bufs[curr[t]][i] # Null /\ status[bufs[curr[t]][i]] = 1

\* The promise of tmalloc.h: a buffer freed by whatever thread ends up in the
\* local pool of the thread that allocated it.
HomePool == \A t \in Threads : \A b \in pool[t] : tag[b] = t

\* The list of d changes at the head only, by a push of another thread that
\* links the former head behind the new one: the owner never writes the head
\* (tmalloc.h: "without changing the head pointer"), no push loses a node.
PushOnly ==
  [][\A d \in Threads : head'[d] # head[d] =>
       /\ \E t \in Threads \ {d} : pc[t] = "addcas" /\ pc'[t] = "refill"
       /\ head'[d] # Null /\ next'[head'[d]] = head[d]]_vars

\* A superbuffer that another thread may read is frozen: from the push until
\* the destination frees it no slot of it changes.
InAList(n) == \E p \in Places(n) : p[1] \in {"head", "next", "curr", "stack"}
SentIsFrozen ==
  [][\A n \in Buffers : InAList(n) /\ InAList(n)' => bufs'[n] = bufs[n]]_vars

\* Every call of the allocator returns, unless memory is exhausted.
CallsReturn == \A t \in Threads : pc[t] # "idle" ~> (pc[t] = "idle" \/ aborted)

\* addNode is lock-free: while threads try to send to d, sends to d succeed
\* (a thread's own may fail for ever, each time another's succeeds).
Sends(t, d) == pc[t] = "addcas" /\ Dest(t) = d
HasSent(t, d) == pc[t] = "refill" /\ Dest(t) = d
SomePushSucceeds(d) ==
  (\E t \in Threads : Sends(t, d)) ~> (aborted \/ \E t \in Threads : HasSent(t, d))

\* A buffer in a superbuffer behind the head of a list when its owner begins
\* _TMfreelist comes back to the pool of the owner, whatever the calls of
\* _tfree on the way do (tmalloc.h: "the superbuffer at the head will be
\* consumed only after a new superbuffer is added").
BehindHead(b) ==
  \E n \in Buffers : b \in Content(n) /\ \E p \in Places(n) : p[1] = "next"
CallsDrain ==
  \A t \in Threads, b \in Buffers :
    (pc[t] = "readhead" /\ tag[b] = t /\ BehindHead(b)) ~> (b \in pool[t] \/ aborted)
=============================================================================
