------------------------------ MODULE MCTmalloc ------------------------------
(* Small instances of Tmalloc for TLC.  Buffers are integers.              *)
EXTENDS TmallocRefinement

\* No two threads' _TMThreadInfo agree in the low 32 bits of their address.
DistinctLow == [t \in Threads |-> t]

Lowest(S) == CHOOSE x \in S : \A y \in S : x <= y

\* Units in one pool, units the application holds that have one owner, and
\* units nobody owns yet are interchangeable as long as no thread has a copy
\* of their address in curr.  Of those, it is enough to take, to free and to
\* carve the lowest.
Known == {curr[t] : t \in Threads}
NewUnits == {b \in Fresh : tag'[b] # Null}
FirstOf(b, S) == b \notin Known => b = Lowest(S \ Known)
LowestFirst ==
  /\ \A b \in NewUnits, c \in Fresh \ NewUnits : b < c
  /\ \A b \in Buffers :
       /\ status[b] = 0 /\ status'[b] = 2 => FirstOf(b, pool[tag'[b]] \cup NewUnits)
       /\ b \in held \ held' => FirstOf(b, {c \in held : tag[c] = tag[b]})
=============================================================================
