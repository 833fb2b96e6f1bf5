------------------------------- MODULE Links -------------------------------
(* Pointers of doubly linked lists between two dummy nodes: link[n] holds  *)
(* the fields prev and next of node n.                                     *)
EXTENDS Chains, FiniteSetsExt

CONSTANTS
  Lists,      \* the lists of the program
  Elements,   \* what is linked
  None        \* no list, the null pointer

HeadOf(l) == <<"head", l>>
TailOf(l) == <<"tail", l>>
Ends(l) == {HeadOf(l), TailOf(l)}
Nodes == Elements \cup UNION {Ends(l) : l \in Lists}

\* The lists S are empty.
EmptyEnds(link, S) ==
  [n \in DOMAIN link |->
     IF n \in {HeadOf(l) : l \in S} THEN [prev |-> None, next |-> TailOf(n[2])]
     ELSE IF n \in {TailOf(l) : l \in S} THEN [prev |-> HeadOf(n[2]), next |-> None]
     ELSE link[n]]
(* Emptying a list in use writes the inner two of these fields only, which *)
(* comes to the same: the outer two never change.                          *)

\* x goes before the node w.
LinkBefore(link, x, w) ==
  LET p == link[w].prev
  IN [link EXCEPT ![x] = [prev |-> p, next |-> w], ![p].next = x, ![w].prev = x]

\* x goes behind the node w.
LinkAfter(link, x, w) ==
  LET n == link[w].next
  IN [link EXCEPT ![x] = [prev |-> w, next |-> n], ![n].prev = x, ![w].next = x]

\* x goes out; its own fields stay as they are.
UnlinkNext(link, x) == [link EXCEPT ![link[x].prev].next = link[x].next]
Unlink(link, x) ==
  [link EXCEPT ![link[x].next].prev = link[x].prev, ![link[x].prev].next = link[x].next]

\* The elements between the ends, which are no more than there are.
Forward(link, l) ==
  Walk([n \in DOMAIN link |-> link[n].next], link[HeadOf(l)].next, TailOf(l), Cardinality(Elements))
Backward(link, l) ==
  Walk([n \in DOMAIN link |-> link[n].prev], link[TailOf(l)].prev, HeadOf(l), Cardinality(Elements))
-----------------------------------------------------------------------------
(* What the links of lists are: node i of a list that has the elements s   *)
(* is its head, one of s, or its tail; it is linked to node i + 1 and back.*)
NodeOf(l, s, i) == IF i = 0 THEN HeadOf(l) ELSE IF i = Len(s) + 1 THEN TailOf(l) ELSE s[i]
Linked(link, l, s) ==
  /\ s \in Seq(Elements) /\ IsInjective(s)
  /\ link[HeadOf(l)].prev = None /\ link[TailOf(l)].next = None
  /\ \A i \in 0 .. Len(s) :
       /\ link[NodeOf(l, s, i)].next = NodeOf(l, s, i + 1)
       /\ link[NodeOf(l, s, i + 1)].prev = NodeOf(l, s, i)
LinkTypes(link) == link \in [Nodes -> [prev : Nodes \cup {None}, next : Nodes \cup {None}]]
Chained(link, S, c) ==
  /\ LinkTypes(link)
  /\ \A l \in S : Linked(link, l, c[l])
  /\ \A l, r \in S : l # r => ToSet(c[l]) \cap ToSet(c[r]) = {}
(* The lists S are in order: no element is in two of them.                 *)
Ordered(link, S) == Chained(link, S, [l \in Lists |-> Forward(link, l)])
=============================================================================
