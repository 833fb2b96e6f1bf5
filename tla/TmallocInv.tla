------------------------------ MODULE TmallocInv ------------------------------
(***************************************************************************)
(* The inductive invariant of Tmalloc.  Its core is a description of the   *)
(* memory as a map: k[b] is the kind of place that has unit b, o[b] the    *)
(* thread or the superbuffer it is in, i[b] the position there and, for a  *)
(* superbuffer in a list, l[b] the thread whose list it is.  That the map  *)
(* is a function is what makes ownership exclusive; that it is total, that *)
(* nothing leaks.  The four functions are bound by \E, so they need not be *)
(* computed from the state: each step says how it changes them.            *)
(***************************************************************************)
EXTENDS Tmalloc

Kinds == {"fresh", "held", "pool", "arg", "buf", "super", "slot",
          "head", "next", "curr", "stack"}

\* Kinds of a superbuffer that has been sent and not freed.
Listed == {"head", "next", "curr", "stack"}

\* Thread t is sending the superbuffer of its item.
Sending(t) == pc[t] \in {"addread", "addcas", "refill"}

-----------------------------------------------------------------------------
(* Where the units are.                                                    *)

FreshAt(k) == \A b \in Buffers : tag[b] = Null <=> k[b] = "fresh"
HeldAt(k) == \A b \in Buffers : b \in held <=> k[b] = "held"
PoolAt(k, o) ==
  \A t \in Threads, b \in Buffers : b \in pool[t] <=> k[b] = "pool" /\ o[b] = t
ArgAt(k, o) ==
  \A t \in Threads, b \in Buffers : b = arg[t] <=> k[b] = "arg" /\ o[b] = t
BufAt(k, o) ==
  \A t \in Threads, b \in Buffers :
    (b = buf[t] /\ pc[t] \in {"tfree", "send"}) <=> k[b] = "buf" /\ o[b] = t
SuperAt(k, o, i) ==
  \A t \in Threads, e \in Threads, b \in Buffers :
    (b = super[t][e] /\ ~Sent(t, e)) <=> k[b] = "super" /\ o[b] = t /\ i[b] = e
SlotAt(k, o, i) ==
  \A n \in Buffers, j \in Slots, b \in Buffers :
    b = bufs[n][j] <=> k[b] = "slot" /\ o[b] = n /\ i[b] = j
HeadAt(k, o) ==
  \A d \in Threads, b \in Buffers : b = head[d] <=> k[b] = "head" /\ o[b] = d
NextAt(k, o) ==
  \A n \in Buffers, b \in Buffers :
    (b = next[n] /\ \A t \in Threads : ~Linking(t, n)) <=> k[b] = "next" /\ o[b] = n
CurrAt(k, o) ==
  \A t \in Threads, b \in Buffers :
    (b = curr[t] /\ pc[t] = "drain") <=> k[b] = "curr" /\ o[b] = t
StackAt(k, o, i) ==
  \A t \in Threads, b \in Buffers, j \in Nat :
    (j \in 1..Len(stack[t]) /\ b = stack[t][j]) <=> k[b] = "stack" /\ o[b] = t /\ i[b] = j

\* o[b] and i[b] are what k[b] says they are.
PlaceType(k, o, i) ==
  \A b \in Buffers :
    /\ k[b] \in {"pool", "arg", "buf", "super", "head", "curr", "stack"} => o[b] \in Threads
    /\ k[b] \in {"slot", "next"} => o[b] \in Buffers
    /\ k[b] = "super" => i[b] \in Threads
    /\ k[b] = "slot" => i[b] \in Slots
    /\ k[b] = "stack" => i[b] \in Nat

-----------------------------------------------------------------------------
(* Superbuffers and lists.                                                 *)

\* A superbuffer has its slots filled from the first on, all of them once it
\* is in a list; no other unit has fields.
Filled(k, o, i) ==
  \A n \in Buffers :
    /\ k[n] \in Listed => \A j \in Slots : bufs[n][j] # Null
    /\ k[n] = "super" =>
         /\ \A j \in Slots : bufs[n][j] # Null <=> j <= pos[o[n]][i[n]]
         /\ next[n] # Null => Linking(o[n], n)
    /\ k[n] \notin Listed \cup {"super"} =>
         next[n] = Null /\ \A j \in Slots : bufs[n][j] = Null

\* l[n] is the thread in whose list n is, the one that will drain it.
ListIds(k, o, l) ==
  \A n \in Buffers :
    /\ k[n] \in {"head", "curr", "stack"} => l[n] = o[n]
    /\ k[n] = "next" => k[o[n]] \in Listed /\ l[n] = l[o[n]]

\* The head _TMfreelist has read stays in the list: it was the head, and
\* others can only push before it.
Detaching(k, l) ==
  \A t \in Threads : pc[t] = "detach" =>
    curr[t] \in Buffers /\ k[curr[t]] \in {"head", "next"} /\ l[curr[t]] = t

\* Only an item whose superbuffer is being sent is full.
Items ==
  /\ \A t, e \in Threads :
       super[t][e] # Null /\ ~(Sending(t) /\ e = Item(t)) => pos[t][e] < SuperSize
  /\ \A t \in Threads : Sending(t) => HasItem(t) /\ pos[t][Item(t)] = SuperSize

-----------------------------------------------------------------------------
(* Control, statuses and homes.                                            *)

Control ==
  \A t \in Threads :
    /\ pc[t] = "idle" <=> op[t] = "none"
    /\ op[t] \in {"none", "malloc"} => arg[t] = Null
    /\ op[t] = "realloc" => arg[t] # Null
    /\ pc[t] = "alloc" => op[t] \in {"malloc", "realloc"}
    /\ pc[t] \in {"tfree", "send"} \/ Sending(t) => buf[t] \in Buffers /\ tag[buf[t]] \in Threads

Statuses(k, o) ==
  \A b \in Buffers :
    /\ k[b] \in {"fresh", "pool"} => status[b] = 0
    /\ k[b] = "slot" => status[b] = 1
    /\ k[b] = "buf" => status[b] = IF pc[o[b]] = "tfree" THEN 2 ELSE 1
    /\ k[b] \in {"held", "arg", "super"} \cup Listed => status[b] = 2

\* A unit on its way home is in a superbuffer for its owner.
Homes(k, o, i, l) ==
  \A b \in Buffers :
    /\ k[b] = "pool" => tag[b] = o[b]
    /\ k[b] = "slot" /\ k[o[b]] = "super" => tag[b] = i[o[b]]
    /\ k[b] = "slot" /\ k[o[b]] \in Listed => tag[b] = l[o[b]]

\* The assumption under which homes are kept: no two _TMThreadInfo agree in
\* the low 32 bits of their address.
DistinctAddresses == \A s, t \in Threads : Low32[s] = Low32[t] => s = t

Shape(k, o, i, l) ==
  /\ PlaceType(k, o, i)
  /\ FreshAt(k) /\ HeldAt(k) /\ PoolAt(k, o) /\ ArgAt(k, o) /\ BufAt(k, o)
  /\ SuperAt(k, o, i) /\ SlotAt(k, o, i)
  /\ HeadAt(k, o) /\ NextAt(k, o) /\ CurrAt(k, o) /\ StackAt(k, o, i)
  /\ Filled(k, o, i)
  /\ ListIds(k, o, l) /\ Detaching(k, l)
  /\ Statuses(k, o)
  /\ DistinctAddresses => Homes(k, o, i, l)

GhostType(k, o, i, l) ==
  /\ k \in [Buffers -> Kinds]
  /\ o \in [Buffers -> Threads \cup Buffers]
  /\ i \in [Buffers -> Threads \cup Nat]
  /\ l \in [Buffers -> Threads \cup Buffers]

Inv(k, o, i, l) == TypeOK /\ Items /\ Control /\ GhostType(k, o, i, l) /\ Shape(k, o, i, l)

IInv == \E k, o, i, l : Inv(k, o, i, l)
=============================================================================
