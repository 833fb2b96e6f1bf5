------------------------------ MODULE SkipList ------------------------------
(* SkipList of datastruct.h: nodes with a tower of forward pointers of     *)
(* random height, between a head that is replaced when a tower outgrows it *)
(* and a tail. An action is a call. Memory is explicit: a node is at an    *)
(* address, an address that was freed is reused, and what is read or       *)
(* written through a pointer is in the domain of mem.                      *)
EXTENDS Integers, FiniteSetsExt, SequencesExt

CONSTANTS
  Lists,       \* the skip lists of the program
  Keys, Values,
  Rank(_),     \* T::cmp compares the ranks of keys
  Addresses,   \* of nodes: a bound on the memory, which the program gives up without
  MaxHeight,   \* bound on the height of a tower (the code has none)
  None         \* no list, no key, the null pointer

\* What the constants have to satisfy.
ConstantsRight ==
  /\ \A k \in Keys : Rank(k) \in Int
  /\ Addresses \subseteq Nat
  /\ MaxHeight \in Nat \ {0}
  /\ None \notin Keys \cup Values \cup Addresses

VARIABLES
  mem,    \* the nodes allocated: key, value, next per level of their tower
  list,   \* per list that was constructed: head, tail, maxlevels, nitems
  ret,    \* the last call and what it returned
  lost    \* ghost: nodes that copying into a list dropped and did not free

vars == <<mem, list, ret, lost>>

Exists(l) == list[l] # None
equal(n, k) == Rank(mem[n].key) = Rank(k)   \* T::cmp(n->key, k) == 0
Found(l, n, k) == n # list[l].tail /\ equal(n, k)
nlevels(n) == Cardinality(DOMAIN mem[n].next)

-----------------------------------------------------------------------------
(* Nodes.                                                                  *)

Free(m) == SetToSortSeq(Addresses \ DOMAIN m, LAMBDA a, b : a < b)
HasRoom(n) == Cardinality(Addresses \ DOMAIN mem) >= n
newNode(k, v, next) == [key |-> k, value |-> v, next |-> next]
freeNodesForgotten(m, S) == m
freeNodes(m, S) == [a \in DOMAIN m \ S |-> m[a]]
Tower(h, n) == [i \in 0 .. h - 1 |-> n]

(* The nodes from n on at a level, up to the tail.                         *)
From(n, i, tail) ==
  LET from[a \in DOMAIN mem] ==
        IF a = tail THEN <<>> ELSE <<a>> \o from[mem[a].next[i]]
  IN from[n]
Chain(l, i) == From(mem[list[l].head].next[i], i, list[l].tail)

(* Where a search ends at each level that goes on while the next key       *)
(* satisfies Before: prevptrs.                                             *)
Prevs(l, Before(_)) ==
  LET top == list[l].maxlevels
      step(i) == LET walk[a \in DOMAIN mem] ==
                       LET n == mem[a].next[i]
                       IN IF n # list[l].tail /\ Before(mem[n].key) THEN walk[n] ELSE a
                 IN walk
      prev[i \in 0 .. top] == IF i = top THEN list[l].head ELSE step(i)[prev[i + 1]]
  IN [i \in 0 .. top - 1 |-> prev[i]]

seekL(l, k) == Prevs(l, LAMBDA x : Rank(x) < Rank(k))[0]

(* The search for a key at most k returns the first equal one it meets,    *)
(* at the highest level that has one.                                      *)
seekBefore(l, k) == seekL(l, k)
seek(l, k) ==
  LET p == Prevs(l, LAMBDA x : Rank(x) < Rank(k))
      hits == {i \in DOMAIN p : LET n == mem[p[i]].next[i]
                                IN Found(l, n, k)}
  IN IF hits = {} THEN p[0] ELSE mem[p[Max(hits)]].next[Max(hits)]

-----------------------------------------------------------------------------
(* The calls that read: what they return.                                  *)

belongs(l, k) == LET n == seek(l, k) IN n # list[l].head /\ equal(n, k)
lookup(l, k) == IF belongs(l, k) THEN <<0, mem[seek(l, k)].value>> ELSE <<-1>>

(* The lower end of an interval is open (0), closed (1) or infinite (2):   *)
(* the keys to pass by; and the keys its upper end reaches.                *)
SkipsBefore(x, k1, t1) == t1 < 2 /\ Rank(x) < Rank(k1)
Skips(x, k1, t1) == (t1 = 0 /\ Rank(x) <= Rank(k1)) \/ (t1 = 1 /\ Rank(x) < Rank(k1))
Reaches(x, k2, t2) == t2 = 2 \/ Rank(x) < Rank(k2) \/ (t2 = 1 /\ Rank(x) = Rank(k2))

keyInInterval(l, k1, k2, type) ==
  LET start == IF type < 3 THEN seek(l, k1)
               ELSE IF type < 6 THEN seekL(l, k1) ELSE list[l].head
      n == mem[start].next[0]
  IN IF n # list[l].tail /\ Reaches(mem[n].key, k2, type % 3) THEN mem[n].key ELSE None

-----------------------------------------------------------------------------
(* Changes of the structure.                                               *)

(* A taller head in place of the old one, which is freed.                  *)
expandLevels(l, h) ==
  LET L == list[l]
      hd == Free(mem)[1]
      next == [i \in 0 .. h - 1 |-> IF i < L.maxlevels THEN mem[L.head].next[i] ELSE L.tail]
  IN IF h <= L.maxlevels THEN [m |-> mem, head |-> L.head]
     ELSE [m |-> freeNodes(mem, {L.head}) @@ (hd :> newNode(None, None, next)), head |-> hd]

(* Which levels a tower of height h is linked at.                          *)
LinkedBottom(i, h) == i = 0
Linked(i, h) == i < h
Taller(h, m) == IF h > m THEN h ELSE m

(* A new tower of height h behind the nodes p.                             *)
Link(l, k, v, h, p) ==
  LET e == expandLevels(l, h)
      new == Free(e.m)[1]
      pred(i) == IF i < list[l].maxlevels /\ p[i] # list[l].head THEN p[i] ELSE e.head
      tower == [i \in 0 .. h - 1 |-> e.m[pred(i)].next[i]]
      linked == [a \in DOMAIN e.m |->
        [e.m[a] EXCEPT !.next = [i \in DOMAIN @ |-> IF Linked(i, h) /\ pred(i) = a THEN new ELSE @[i]]]]
  IN /\ HasRoom(1)
     /\ mem' = linked @@ (new :> newNode(k, v, tower))
     /\ list' = [list EXCEPT ![l].head = e.head,
                             ![l].maxlevels = Taller(h, @),
                             ![l].nitems = @ + 1]

(* The towers of the nodes s, which follow the nodes p, are unlinked and   *)
(* freed, one after the other.                                             *)
Unlink(l, p, s) ==
  LET unlink(m, n) == [a \in DOMAIN m \ {n} |->
        [m[a] EXCEPT !.next = [i \in DOMAIN @ |->
           IF i \in DOMAIN m[n].next /\ p[i] = a THEN m[n].next[i] ELSE @[i]]]]
  IN /\ mem' = FoldLeft(unlink, mem, s)
     /\ list' = [list EXCEPT ![l].nitems = @ - Len(s)]

-----------------------------------------------------------------------------
Init ==
  /\ mem = <<>>
  /\ list = [l \in Lists |-> None]
  /\ ret = <<"none">> /\ lost = {}

Returns(call) == ret' = call /\ UNCHANGED lost
Finds(call) == Returns(call) /\ UNCHANGED <<mem, list>>

Construct(l) ==
  LET hd == Free(mem)[1]
      tl == Free(mem)[2]
  IN /\ ~Exists(l) /\ HasRoom(2)
     /\ mem' = mem @@ (hd :> newNode(None, None, Tower(1, tl)))
                   @@ (tl :> newNode(None, None, Tower(1, None)))
     /\ list' = [list EXCEPT ![l] = [head |-> hd, tail |-> tl, maxlevels |-> 1, nitems |-> 0]]
     /\ Returns(<<"create", l>>)

clear(l) ==
  /\ Exists(l)
  /\ mem' = [freeNodes(mem, ToSet(Chain(l, 0))) EXCEPT
               ![list[l].head].next = Tower(list[l].maxlevels, list[l].tail)]
  /\ list' = [list EXCEPT ![l].nitems = 0]
  /\ Returns(<<"clear", l>>)

Destroy(l) ==
  /\ Exists(l)
  /\ mem' = freeNodes(mem, ToSet(Chain(l, 0)) \cup {list[l].head, list[l].tail})
  /\ list' = [list EXCEPT ![l] = None]
  /\ Returns(<<"destroy", l>>)

(* copy: new nodes as high as those of r, which are s, with the keys ks, a *)
(* new head and a new tail; what l had is not looked at.                   *)
copyNodes(m, r, s, ks) ==
  LET new == Free(m)
      hd == new[1]
      tl == new[Len(s) + 2]
      \* the copy of the first node behind the j-th that reaches level i
      After(j, i) == LET later == {x \in j + 1 .. Len(s) : i < nlevels(s[x])}
                     IN IF later = {} THEN tl ELSE new[Min(later) + 1]
      copied(j) == newNode(ks[j], mem[s[j]].value,
                           [i \in DOMAIN mem[s[j]].next |-> After(j, i)])
      mid == {new[j + 1] : j \in DOMAIN s}
  IN [m |-> m @@ (hd :> newNode(None, None, [i \in 0 .. list[r].maxlevels - 1 |-> After(0, i)]))
              @@ (tl :> newNode(None, None, Tower(1, None)))
              @@ [a \in mid |-> copied(CHOOSE j \in DOMAIN s : new[j + 1] = a)],
      head |-> hd, tail |-> tl]

copy(l, r) ==
  LET s == Chain(r, 0)
      c == copyNodes(mem, r, s, [j \in DOMAIN s |-> mem[s[j]].key])
  IN /\ Exists(r) /\ HasRoom(Len(s) + 2)
     /\ mem' = c.m
     /\ list' = [list EXCEPT ![l] = [list[r] EXCEPT !.head = c.head, !.tail = c.tail]]
     /\ ret' = <<"copy", l, r>>

CopyConstruct(l, r) == ~Exists(l) /\ copy(l, r) /\ UNCHANGED lost

Nodes(l) == ToSet(Chain(l, 0)) \cup {list[l].head, list[l].tail}

(* operator=; not of a list to itself, which reads a head not yet written. *)
Assign(l, r) ==
  /\ Exists(l) /\ l # r
  /\ copy(l, r)
  /\ lost' = lost \cup Nodes(l)

(* The value of a new item is what the caller stores through the pointer,  *)
(* or what the memory held: any value.                                     *)
lookupInsert(l, k) ==
  /\ Exists(l)
  /\ LET p == Prevs(l, LAMBDA x : Rank(x) < Rank(k))
         n == mem[p[0]].next[0]
     IN \/ /\ Found(l, n, k)
           /\ Finds(<<"lookupInsert", l, Rank(k), 0, mem[n].value>>)
        \/ /\ ~Found(l, n, k)
           /\ \E h \in 1 .. MaxHeight, v \in Values :
                Link(l, k, v, h, p) /\ Returns(<<"lookupInsert", l, Rank(k), 1, v>>)

insertOrReplace(l, k, v) ==
  /\ Exists(l)
  /\ LET p == Prevs(l, LAMBDA x : Rank(x) < Rank(k))
         n == mem[p[0]].next[0]
     IN \/ /\ Found(l, n, k)
           /\ mem' = [mem EXCEPT ![n].key = k, ![n].value = v]
           /\ UNCHANGED list /\ Returns(<<"insertOrReplace", l, Rank(k), v, 0>>)
        \/ /\ ~Found(l, n, k)
           /\ \E h \in 1 .. MaxHeight : Link(l, k, v, h, p)
           /\ Returns(<<"insertOrReplace", l, Rank(k), v, 1>>)

lookupRemove(l, k) ==
  /\ Exists(l)
  /\ LET p == Prevs(l, LAMBDA x : Rank(x) < Rank(k))
         n == mem[p[0]].next[0]
     IN \/ /\ ~Found(l, n, k)
           /\ Finds(<<"lookupRemove", l, Rank(k), -1>>)
        \/ /\ Found(l, n, k)
           /\ Unlink(l, p, <<n>>) /\ Returns(<<"lookupRemove", l, Rank(k), 0, mem[n].value>>)

(* Behind the items with an equal key.                                     *)
insert(l, k, v) ==
  /\ Exists(l)
  /\ \E h \in 1 .. MaxHeight : Link(l, k, v, h, Prevs(l, LAMBDA x : Rank(x) <= Rank(k)))
  /\ Returns(<<"insert", l, Rank(k), v>>)

delRange(l, k1, t1, k2, t2) ==
  /\ Exists(l)
  /\ LET p == Prevs(l, LAMBDA x : Skips(x, k1, t1))
         s == From(mem[p[0]].next[0], 0, list[l].tail)
         stop == SelectInSeq(s, LAMBDA n : ~Reaches(mem[n].key, k2, t2))
         doomed == IF stop = 0 THEN s ELSE SubSeq(s, 1, stop - 1)
     IN Unlink(l, p, doomed) /\ Returns(<<"delRange", l, Rank(k1), t1, Rank(k2), t2, Len(doomed)>>)

(* Keys to look up: one of each rank; and the ends of an interval: one key *)
(* stands for all when the end is infinite.                                *)
Probes == {k \in Keys : k = CHOOSE x \in Keys : Rank(x) = Rank(k)}
Ends == (Probes \X {0, 1}) \cup {<<CHOOSE k \in Keys : TRUE, 2>>}

Update(l) ==
  \/ clear(l)
  \/ \E k \in Keys : lookupInsert(l, k)
  \/ \E k \in Probes : lookupRemove(l, k)
  \/ \E k \in Keys, v \in Values : insertOrReplace(l, k, v)
  \/ \E a, b \in Ends : delRange(l, a[1], a[2], b[1], b[2])

Lifetime(l) ==
  \/ Construct(l) \/ Destroy(l)
  \/ \E r \in Lists : CopyConstruct(l, r) \/ Assign(l, r)

Insertion(l) == \E k \in Keys, v \in Values : insert(l, k, v)

Next == \E l \in Lists : Update(l) \/ Lifetime(l) \/ Insertion(l)
Spec == Init /\ [][Next]_vars

-----------------------------------------------------------------------------
Contents(l) ==
  IF Exists(l) THEN LET s == Chain(l, 0)
                    IN [i \in DOMAIN s |-> [key |-> Rank(mem[s[i]].key), value |-> mem[s[i]].value]]
  ELSE None
Ordered == INSTANCE OrderedMultimap WITH
  Keys <- {Rank(k) : k \in Keys}, items <- [l \in Lists |-> Contents(l)]

(* At every level a list passes through exactly those of its nodes whose   *)
(* tower reaches it, in the order of level 0, and nitems counts them:      *)
(* linking, unlinking and a replaced head reach all levels.                *)
TowersConsistent ==
  \A l \in Lists : Exists(l) =>
    /\ \A i \in 0 .. list[l].maxlevels - 1 :
         Chain(l, i) = SelectSeq(Chain(l, 0), LAMBDA n : i < nlevels(n))
    /\ \A n \in ToSet(Chain(l, 0)) : nlevels(n) <= list[l].maxlevels
    /\ list[l].nitems = Len(Chain(l, 0))

(* No node is in two lists, none is freed while a list has it, and each    *)
(* node allocated is in a list unless a copy into a list that exists       *)
(* dropped it: no other call leaks.                                        *)
NodesAccounted ==
  LET live == {l \in Lists : Exists(l)}
  IN /\ \A l, r \in live : l # r => Nodes(l) \cap Nodes(r) = {}
     /\ DOMAIN mem = lost \cup UNION {Nodes(l) : l \in live}
     /\ \A l \in live : Nodes(l) \cap lost = {}

(* lookup and belongs find a key if and only if an item has it, and lookup *)
(* returns the value of such an item, from whatever tower the search stops *)
(* at. Of a list without equal keys keyInInterval returns the first key of *)
(* the interval.                                                           *)
QueriesRight ==
  \A l \in Lists, k \in Keys : Exists(l) =>
    LET s == Contents(l)
        found == {x \in ToSet(s) : x.key = Rank(k)}
    IN /\ belongs(l, k) <=> found # {}
       /\ lookup(l, k) \in (IF found = {} THEN {<<-1>>} ELSE {<<0, x.value>> : x \in found})
       /\ (\A i, j \in DOMAIN s : s[i].key = s[j].key => i = j) =>
            \A k2 \in Keys, type \in 0 .. 8 :
              LET i == Ordered!FirstInside(s, Rank(k), type \div 3, Rank(k2), type % 3)
                  first == keyInInterval(l, k, k2, type)
              IN IF i = 0 THEN first = None ELSE first # None /\ Rank(first) = s[i].key
=============================================================================
