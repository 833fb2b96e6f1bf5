------------------------------ MODULE UnitsProof ------------------------------
(***************************************************************************)
(* The free lists of MCLocking, of the size classes of one thread and of   *)
(* the pools that threads share: every unit is in one place.               *)
(***************************************************************************)
EXTENDS LockingProof, SequenceTheorems, WellFoundedInduction

-----------------------------------------------------------------------------
(* Induction, on a set of numbers.                                         *)

\* A set that has 0, and with a number the next one, has all of them.
LEMMA Induct ==
  ASSUME NEW n \in Nat, NEW S, 0 \in S, \A k \in 0 .. n - 1 : k \in S => k + 1 \in S
  PROVE  \A k \in 0 .. n : k \in S
<1> DEFINE I == {k \in 1 .. n : k \notin S}
           Below(x) == {y \in I : y <= x}
           T == {Below(x) : x \in I}
<1>1. SUFFICES ASSUME I # {}
               PROVE  FALSE
  <2>1. \A k \in 0 .. n : k = 0 \/ k \in 1 .. n
    OBVIOUS
  <2>2. QED
    BY <2>1
<1>2. IsFiniteSet(I) /\ T \subseteq FiniteSubsetsOf(I) /\ T # {}
  <2>1. IsFiniteSet(1 .. n)
    BY FS_Interval
  <2>2. IsFiniteSet(I)
    BY <2>1, FS_Subset
  <2>3. FiniteSubsetsOf(I) = SUBSET I
    BY <2>2, FS_FiniteSubsetsOfFinite
  <2>4. T \subseteq SUBSET I /\ T # {}
    BY <1>1
  <2>5. QED
    BY <2>2, <2>3, <2>4
<1>3. PICK B \in T : \A C \in T : ~ (<<C, B>> \in StrictSubsetOrdering(I))
  BY <1>2, FS_StrictSubsetOrderingWellFounded, WFMin
<1>4. PICK x \in I : B = Below(x)
  BY <1>3
<1>5. ASSUME NEW y \in I, y < x
      PROVE  FALSE
  <2>1. Below(y) \in T /\ Below(y) \subseteq B /\ Below(y) # B /\ B \subseteq I
    <3>1. x \in Int /\ y \in Int /\ \A z \in I : z \in Int
      OBVIOUS
    <3>2. x \in B /\ x \notin Below(y)
      BY <1>4, <1>5, <3>1
    <3>3. \A z \in Below(y) : z \in B
      BY <1>4, <1>5, <3>1
    <3>4. QED
      BY <1>4, <3>2, <3>3
  <2>2. <<Below(y), B>> \in StrictSubsetOrdering(I)
    BY <2>1 DEF StrictSubsetOrdering
  <2>3. QED
    BY <1>3, <2>1, <2>2
<1>6. x \in 1 .. n /\ x \notin S /\ x - 1 \in 0 .. n - 1 /\ x - 1 + 1 = x
  OBVIOUS
<1>7. x - 1 \in S
  <2>1. x - 1 = 0 \/ (x - 1 \in 1 .. n /\ x - 1 < x)
    BY <1>6
  <2>2. QED
    BY <1>5, <2>1
<1>8. QED
  BY <1>6, <1>7

-----------------------------------------------------------------------------
(* Free lists.                                                             *)

\* The units that are not allocated.
FreeOf(u) == {a \in DOMAIN u : u[a].allocated = NoSize}

\* The free units s, in the order in which they are linked from first on.
Linked(u, first, s) ==
  /\ s \in Seq(FreeOf(u)) /\ IsInjective(s)
  /\ \A i \in 1 .. Len(s) : u[s[i]].next = IF i = Len(s) THEN EndOfList ELSE s[i + 1]
  /\ first = IF Len(s) = 0 THEN EndOfList ELSE s[1]

\* Every free unit is linked to one of the heads.
Chained(u, heads, P, c) ==
  /\ DOMAIN heads = P /\ DOMAIN c = P
  /\ \A p \in P : Linked(u, heads[p], c[p])
  /\ \A p, q \in P : p # q => Range(c[p]) \cap Range(c[q]) = {}
  /\ \A a \in FreeOf(u) : a \in Nat /\ \E p \in P : a \in Range(c[p])

\* A sequence begins with its head.
LEMMA ConsIs ==
  ASSUME NEW S, NEW s \in Seq(S), NEW i \in 1 .. Len(s)
  PROVE  <<s[i]>> \o (IF i = Len(s) THEN <<>> ELSE SubSeq(s, i + 1, Len(s))) = SubSeq(s, i, Len(s))
<1> DEFINE n == Len(s)
           r == IF i = n THEN <<>> ELSE SubSeq(s, i + 1, n)
           l == <<s[i]>> \o r
           t == SubSeq(s, i, n)
<1>1. n \in Nat /\ i \in Nat /\ 1 <= i /\ i <= n /\ s[i] \in S /\ \A j \in 1 .. n : s[j] \in S
  BY ElementOfSeq
<1>2. <<s[i]>> \in Seq(S) /\ Len(<<s[i]>>) = 1 /\ <<s[i]>>[1] = s[i]
  BY <1>1
<1>3. r \in Seq(S) /\ Len(r) = n - i /\ \A j \in 1 .. n - i : r[j] = s[i + j]
  <2>1. CASE i = n
    BY <1>1, <2>1
  <2>2. CASE i # n
    <3>1. r = SubSeq(s, i + 1, n) /\ i + 1 \in 1 .. n
      BY <1>1, <2>2
    <3>2. QED
      BY <1>1, <3>1, SubSeqProperties
  <2>3. QED
    BY <2>1, <2>2
<1>4. t \in Seq(S) /\ Len(t) = n - i + 1 /\ \A j \in 1 .. n - i + 1 : t[j] = s[i + j - 1]
  BY <1>1, SubSeqProperties
<1> HIDE DEF n, r, t
<1>5. /\ l \in Seq(S) /\ Len(l) = 1 + (n - i) /\ l[1] = s[i]
      /\ \A j \in 2 .. n - i + 1 : l[j] = r[j - 1]
  BY <1>1, <1>2, <1>3, ConcatProperties
<1>6. \A j \in 1 .. n - i + 1 : l[j] = t[j]
  <2>1. TAKE j \in 1 .. n - i + 1
  <2>2. CASE j = 1
    BY <1>1, <1>4, <1>5, <2>2
  <2>3. CASE j # 1
    <3>1. j \in 2 .. n - i + 1 /\ j - 1 \in 1 .. n - i /\ i + (j - 1) = i + j - 1
      BY <1>1, <2>3
    <3>2. QED
      BY <1>3, <1>4, <1>5, <3>1
  <2>4. QED
    BY <2>2, <2>3
<1>7. Len(l) = Len(t) /\ Len(l) = n - i + 1
  BY <1>1, <1>4, <1>5
<1> HIDE DEF l
<1>8. l = t
  BY <1>4, <1>5, <1>6, <1>7, SeqEqual
<1>9. QED
  BY <1>8 DEF l, r, t, n

\* What the recursion of FreeList computes from first on, when it computes g.
From(u) ==
  CHOOSE f : f = [a \in FreeOf(u) \cup {EndOfList} |->
                    IF a = EndOfList THEN <<>> ELSE <<a>> \o f[u[a].next]]

LEMMA FreeListFrom ==
  ASSUME NEW u, NEW first
  PROVE  Classes!FreeList(u, first) = From(u)[first] /\ Pooled!FreeList(u, first) = From(u)[first]
BY DEF Classes!FreeList, Pooled!FreeList, From, FreeOf, Classes!Unallocated, Pooled!Unallocated

\* The recursion is well-founded: the units behind a unit are what it gives.
LEMMA FromIs ==
  ASSUME NEW u, NEW heads, NEW P, NEW c, Chained(u, heads, P, c)
  PROVE  From(u) = [a \in FreeOf(u) \cup {EndOfList} |->
                      IF a = EndOfList THEN <<>> ELSE <<a>> \o From(u)[u[a].next]]
<1> DEFINE D == FreeOf(u) \cup {EndOfList}
           Rest(p, i) == SubSeq(c[p], i, Len(c[p]))
           Behind(a, r) == \E p \in P : \E i \in 1 .. Len(c[p]) : c[p][i] = a /\ r = Rest(p, i)
           g == [a \in D |-> IF a = EndOfList THEN <<>> ELSE CHOOSE r : Behind(a, r)]
<1>1. \A p \in P : /\ c[p] \in Seq(FreeOf(u)) /\ IsInjective(c[p]) /\ Len(c[p]) \in Nat
                   /\ DOMAIN c[p] = 1 .. Len(c[p])
                   /\ \A i \in 1 .. Len(c[p]) : c[p][i] \in FreeOf(u)
  BY DEF Chained, Linked
<1>2. EndOfList \notin FreeOf(u)
  BY DEF Chained, EndOfList
<1>3. ASSUME NEW p \in P, NEW i \in 1 .. Len(c[p])
      PROVE  g[c[p][i]] = Rest(p, i)
  <2>1. ASSUME NEW q \in P, NEW j \in 1 .. Len(c[q]), c[q][j] = c[p][i]
        PROVE  Rest(q, j) = Rest(p, i)
    <3>1. p = q
      <4>1. c[p][i] \in Range(c[p]) /\ c[q][j] \in Range(c[q])
        BY <1>1 DEF Range
      <4>2. QED
        BY <2>1, <4>1 DEF Chained
    <3>2. i = j
      BY <1>1, <2>1, <3>1 DEF IsInjective
    <3>3. QED
      BY <3>1, <3>2
  <2>2. Behind(c[p][i], Rest(p, i))
    OBVIOUS
  <2>3. \A r : Behind(c[p][i], r) => r = Rest(p, i)
    BY <2>1
  <2> HIDE DEF Behind
  <2>4. (CHOOSE r : Behind(c[p][i], r)) = Rest(p, i)
    BY <2>2, <2>3
  <2>5. QED
    BY <1>1, <1>2, <2>4
<1>4. ASSUME NEW a \in FreeOf(u)
      PROVE  g[a] = <<a>> \o g[u[a].next]
  <2>1. PICK p \in P : a \in Range(c[p])
    BY DEF Chained
  <2>2. PICK i \in 1 .. Len(c[p]) : a = c[p][i]
    BY <1>1, <2>1 DEF Range
  <2>3. u[a].next = IF i = Len(c[p]) THEN EndOfList ELSE c[p][i + 1]
    BY <2>2 DEF Chained, Linked
  <2>4. g[u[a].next] = IF i = Len(c[p]) THEN <<>> ELSE Rest(p, i + 1)
    <3>1. CASE i = Len(c[p])
      BY <2>3, <3>1
    <3>2. CASE i # Len(c[p])
      <4>1. i + 1 \in 1 .. Len(c[p])
        BY <1>1, <3>2
      <4>2. g[c[p][i + 1]] = Rest(p, i + 1)
        BY <1>3, <4>1
      <4> HIDE DEF g
      <4>3. QED
        BY <2>3, <3>2, <4>2
    <3>3. QED
      BY <3>1, <3>2
  <2>5. g[a] = Rest(p, i)
    BY <1>3, <2>2
  <2> HIDE DEF g
  <2>6. QED
    BY <1>1, <2>2, <2>4, <2>5, ConsIs
<1>5. g = [a \in D |-> IF a = EndOfList THEN <<>> ELSE <<a>> \o g[u[a].next]]
  <2>1. g = [a \in D |-> g[a]]
    OBVIOUS
  <2>2. g[EndOfList] = <<>>
    OBVIOUS
  <2>3. \A a \in D : g[a] = IF a = EndOfList THEN <<>> ELSE <<a>> \o g[u[a].next]
    <3> HIDE DEF g
    <3>1. QED
      BY <1>4, <2>2
  <2> HIDE DEF g
  <2>4. QED
    BY <2>1, <2>3
<1> HIDE DEF g
<1>6. QED
  BY <1>5 DEF From

\* The free list of a head is the chain that begins there.
LEMMA FreeListIs ==
  ASSUME NEW u, NEW heads, NEW P, NEW c, Chained(u, heads, P, c), NEW p \in P
  PROVE  Classes!FreeList(u, heads[p]) = c[p] /\ Pooled!FreeList(u, heads[p]) = c[p]
<1> DEFINE s == c[p]
           n == Len(s)
           f == From(u)
<1>1. /\ s \in Seq(FreeOf(u)) /\ n \in Nat /\ \A i \in 1 .. n : s[i] \in FreeOf(u)
      /\ \A i \in 1 .. n : u[s[i]].next = IF i = n THEN EndOfList ELSE s[i + 1]
      /\ heads[p] = IF n = 0 THEN EndOfList ELSE s[1]
  BY DEF Chained, Linked
<1>2. EndOfList \notin FreeOf(u)
  BY DEF Chained, EndOfList
<1>3. f = [a \in FreeOf(u) \cup {EndOfList} |->
             IF a = EndOfList THEN <<>> ELSE <<a>> \o f[u[a].next]]
  BY FromIs
<1> HIDE DEF f, s
<1>4. f[EndOfList] = <<>> /\ \A a \in FreeOf(u) : f[a] = <<a>> \o f[u[a].next]
  BY <1>2, <1>3
<1> DEFINE S == {k \in 0 .. n : k < n => f[s[n - k]] = SubSeq(s, n - k, n)}
<1>5. 0 \in S
  <2>1. ASSUME n > 0
        PROVE  f[s[n]] = SubSeq(s, n, n)
    <3>1. n \in 1 .. n
      BY <1>1, <2>1
    <3>2. f[s[n]] = <<s[n]>> \o <<>>
      BY <1>1, <1>4, <3>1
    <3>3. <<s[n]>> \o <<>> = SubSeq(s, n, n)
      BY <1>1, <3>1, ConsIs
    <3>4. QED
      BY <3>2, <3>3
  <2>2. QED
    BY <1>1, <2>1
<1>6. ASSUME NEW k \in 0 .. n - 1, k \in S
      PROVE  k + 1 \in S
  <2>1. SUFFICES ASSUME k + 1 < n
                 PROVE  f[s[n - (k + 1)]] = SubSeq(s, n - (k + 1), n)
    BY <1>1
  <2> DEFINE i == n - (k + 1)
  <2>2. i \in 1 .. n /\ i # n /\ n - k = i + 1 /\ k < n
    BY <1>1, <2>1
  <2>3. f[s[i + 1]] = SubSeq(s, i + 1, n)
    BY <1>6, <2>2
  <2> HIDE DEF i
  <2>4. f[s[i]] = <<s[i]>> \o SubSeq(s, i + 1, n)
    BY <1>1, <1>4, <2>2, <2>3
  <2>5. <<s[i]>> \o SubSeq(s, i + 1, n) = SubSeq(s, i, n)
    BY <1>1, <2>2, ConsIs
  <2>6. QED
    BY <2>4, <2>5 DEF i
<1>7. f[heads[p]] = s
  <2>1. CASE n = 0
    <3>1. s = <<>>
      BY <1>1, <2>1, EmptySeq
    <3>2. QED
      BY <1>1, <1>4, <2>1, <3>1
  <2>2. CASE n # 0
    <3>1. n - 1 \in S
      <4>1. \A k \in 0 .. n : k \in S
        <5> HIDE DEF S
        <5>1. QED
          BY <1>1, <1>5, <1>6, Induct
      <4>2. n - 1 \in 0 .. n
        BY <1>1, <2>2
      <4> HIDE DEF S
      <4>3. QED
        BY <4>1, <4>2
    <3>2. n - (n - 1) = 1 /\ n - 1 < n
      BY <1>1
    <3>3. f[s[1]] = SubSeq(s, 1, n)
      BY <3>1, <3>2
    <3>4. SubSeq(s, 1, n) = s
      <4> DEFINE t == SubSeq(s, 1, n)
      <4>1. t \in Seq(FreeOf(u)) /\ Len(t) = n /\ \A i \in 1 .. n : t[i] = s[i]
        BY <1>1, <2>2
      <4>2. s \in Seq(FreeOf(u)) /\ Len(s) = Len(t) /\ \A i \in 1 .. Len(t) : t[i] = s[i]
        BY <1>1, <4>1
      <4> HIDE DEF t, n
      <4>3. t = s
        BY <4>1, <4>2, SeqEqual
      <4>4. QED
        BY <4>3 DEF t
    <3>5. QED
      BY <1>1, <2>2, <3>3, <3>4
  <2>3. QED
    BY <2>1, <2>2
<1>8. QED
  BY <1>7, FreeListFrom DEF s, f

-----------------------------------------------------------------------------
(* Free lists that change.                                                 *)

\* A function on the first m numbers is a sequence.
LEMMA SeqIs ==
  ASSUME NEW S, NEW m \in Nat, NEW t \in [1 .. m -> S]
  PROVE  t \in Seq(S) /\ Len(t) = m /\ DOMAIN t = 1 .. m
<1>1. t \in Seq(S)
  BY SeqDef
<1>2. Len(t) \in Nat /\ DOMAIN t = 1 .. Len(t) /\ DOMAIN t = 1 .. m
  BY <1>1, LenProperties
<1>3. QED
  BY <1>1, <1>2

\* What links a list are the headers of its own units.
LEMMA LinkedStays ==
  ASSUME NEW u, NEW v, NEW first, NEW s, Linked(u, first, s),
         \A a \in Range(s) : a \in FreeOf(v) /\ v[a].next = u[a].next
  PROVE  Linked(v, first, s)
<1>1. /\ s \in Seq(FreeOf(u)) /\ IsInjective(s) /\ Len(s) \in Nat /\ DOMAIN s = 1 .. Len(s)
      /\ first = IF Len(s) = 0 THEN EndOfList ELSE s[1]
      /\ \A i \in 1 .. Len(s) : u[s[i]].next = IF i = Len(s) THEN EndOfList ELSE s[i + 1]
  BY DEF Linked
<1>2. \A i \in 1 .. Len(s) : s[i] \in Range(s)
  BY <1>1 DEF Range
<1>3. s \in Seq(FreeOf(v))
  <2>1. s \in [1 .. Len(s) -> FreeOf(u)]
    BY <1>1, LenProperties
  <2>2. s \in [1 .. Len(s) -> FreeOf(v)]
    BY <1>2, <2>1
  <2>3. QED
    BY <1>1, <2>2, SeqIs
<1>4. \A i \in 1 .. Len(s) : v[s[i]].next = u[s[i]].next
  BY <1>2
<1>5. QED
  BY <1>1, <1>3, <1>4 DEF Linked

\* The free list of p becomes s, and the others stay.
Relinked(c, p, s) == [q \in DOMAIN c |-> IF q = p THEN s ELSE c[q]]

\* The units of the other lists are neither changed nor in s, and s has what
\* they do not have.
OthersStay(u, v, P, c, p, s) ==
  \A q \in P \ {p} : \A a \in Range(c[q]) :
    a \in FreeOf(v) /\ v[a].next = u[a].next /\ a \notin Range(s)
Covers(v, P, c, p, s) ==
  \A a \in FreeOf(v) : a \in Nat /\ (a \in Range(s) \/ \E q \in P \ {p} : a \in Range(c[q]))

\* All lists but one stay as they are.
LEMMA RelinkedIs ==
  ASSUME NEW u, NEW v, NEW heads, NEW P, NEW c, Chained(u, heads, P, c),
         NEW p \in P, NEW first, NEW s, Linked(v, first, s),
         OthersStay(u, v, P, c, p, s), Covers(v, P, c, p, s)
  PROVE  Chained(v, [heads EXCEPT ![p] = first], P, Relinked(c, p, s))
<1> DEFINE h == [heads EXCEPT ![p] = first]
           d == Relinked(c, p, s)
<1>1. DOMAIN heads = P /\ DOMAIN c = P
  BY DEF Chained
<1>2. h[p] = first /\ DOMAIN h = P /\ \A q \in P \ {p} : h[q] = heads[q]
  BY <1>1
<1>3. d[p] = s /\ \A q \in P \ {p} : d[q] = c[q]
  BY <1>1 DEF Relinked
<1>4. DOMAIN d = P
  BY <1>1 DEF Relinked
<1> HIDE DEF h, d
<1>5. ASSUME NEW q \in P
      PROVE  Linked(v, h[q], d[q])
  <2>1. CASE q = p
    BY <1>2, <1>3, <2>1
  <2>2. CASE q # p
    <3>1. Linked(u, heads[q], c[q])
      BY DEF Chained
    <3>2. Linked(v, heads[q], c[q])
      BY <2>2, <3>1, LinkedStays DEF OthersStay
    <3>3. QED
      BY <1>2, <1>3, <2>2, <3>2
  <2>3. QED
    BY <2>1, <2>2
<1>6. ASSUME NEW q \in P, NEW r \in P, q # r
      PROVE  Range(d[q]) \cap Range(d[r]) = {}
  <2>1. \A x, y \in P : x # y => Range(c[x]) \cap Range(c[y]) = {}
    BY DEF Chained
  <2>2. \A x \in P \ {p} : Range(d[x]) \cap Range(s) = {} /\ Range(d[x]) = Range(c[x])
    BY <1>3 DEF OthersStay
  <2>3. QED
    BY <1>3, <1>6, <2>1, <2>2
<1>7. \A a \in FreeOf(v) : a \in Nat /\ \E q \in P : a \in Range(d[q])
  BY <1>3 DEF Covers
<1>8. QED
  BY <1>2, <1>4, <1>5, <1>6, <1>7 DEF Chained, h, d

\* A unit is taken, is given back; a head is set.
Took(u, a, size) == [u EXCEPT ![a] = [next |-> 0, allocated |-> size]]
Gave(u, a, first) == [u EXCEPT ![a] = [next |-> first, allocated |-> NoSize]]
Pointed(heads, p, first) == [heads EXCEPT ![p] = first]

\* What that makes of the chains.
Popped(u, v, heads, P, c, p) ==
  /\ heads[p] \in Range(c[p]) /\ heads[p] \in FreeOf(u)
  /\ FreeOf(v) = FreeOf(u) \ {heads[p]}
  /\ \E s : /\ Range(s) = Range(c[p]) \ {heads[p]}
            /\ Chained(v, Pointed(heads, p, u[heads[p]].next), P, Relinked(c, p, s))
Pushed(u, v, heads, P, c, p, a) ==
  /\ FreeOf(v) = FreeOf(u) \cup {a}
  /\ \E s : /\ Range(s) = Range(c[p]) \cup {a}
            /\ Chained(v, Pointed(heads, p, a), P, Relinked(c, p, s))

\* Taken: the first unit of a list leaves it.
LEMMA PopIs ==
  ASSUME NEW u, NEW heads, NEW P, NEW c, Chained(u, heads, P, c),
         NEW p \in P, heads[p] # EndOfList, NEW size, size # NoSize
  PROVE  Popped(u, Took(u, heads[p], size), heads, P, c, p)
<1> DEFINE a == heads[p]
           v == Took(u, a, size)
           l == c[p]
           n == Len(l)
           s == [i \in 1 .. n - 1 |-> l[i + 1]]
<1>1. /\ l \in Seq(FreeOf(u)) /\ IsInjective(l) /\ n \in Nat /\ DOMAIN l = 1 .. n
      /\ a = IF n = 0 THEN EndOfList ELSE l[1]
      /\ \A i \in 1 .. n : u[l[i]].next = IF i = n THEN EndOfList ELSE l[i + 1]
      /\ \A i \in 1 .. n : l[i] \in FreeOf(u)
  BY DEF Chained, Linked
<1>2. n \in Nat /\ n # 0 /\ a = l[1] /\ 1 \in 1 .. n /\ n - 1 \in Nat
  BY <1>1
<1>3. a \in Range(l) /\ a \in FreeOf(u)
  BY <1>1, <1>2 DEF Range
<1>4. /\ DOMAIN v = DOMAIN u /\ v[a].allocated = size
      /\ \A x \in DOMAIN u \ {a} : v[x] = u[x]
  BY <1>3 DEF FreeOf, Took
<1> HIDE DEF v
<1>5. FreeOf(v) = FreeOf(u) \ {a}
  BY <1>4 DEF FreeOf
<1>6. \A x \in FreeOf(v) : x \in FreeOf(u) /\ x # a /\ v[x].next = u[x].next
  BY <1>4, <1>5 DEF FreeOf
<1> HIDE DEF a
<1>7. \A i \in 1 .. n - 1 : i + 1 \in 1 .. n /\ s[i] = l[i + 1] /\ s[i] \in FreeOf(v)
  <2>1. \A i \in 1 .. n - 1 : i + 1 \in 1 .. n /\ i + 1 # 1 /\ s[i] = l[i + 1]
    BY <1>1
  <2>2. \A i \in 1 .. n : i # 1 => l[i] \in FreeOf(u) /\ l[i] # a
    BY <1>1, <1>2 DEF IsInjective
  <2>3. QED
    BY <1>5, <2>1, <2>2
<1>8. s \in Seq(FreeOf(v)) /\ Len(s) = n - 1 /\ DOMAIN s = 1 .. n - 1
  <2>1. s \in [1 .. n - 1 -> FreeOf(v)]
    BY <1>7
  <2> HIDE DEF s, n
  <2>2. QED
    BY <1>2, <2>1, SeqIs
<1> HIDE DEF s, l
<1>9. Range(s) = Range(l) \ {a}
  <2>1. ASSUME NEW x \in Range(s)
        PROVE  x \in Range(l) \ {a}
    <3>1. PICK i \in 1 .. n - 1 : x = s[i]
      BY <1>8, <2>1 DEF Range
    <3>2. x = l[i + 1] /\ i + 1 \in DOMAIN l /\ x \in FreeOf(v)
      BY <1>1, <1>7, <3>1
    <3>3. QED
      BY <1>6, <3>2 DEF Range
  <2>2. ASSUME NEW x \in Range(l), x # a
        PROVE  x \in Range(s)
    <3>1. PICK i \in 1 .. n : x = l[i]
      BY <1>1, <2>2 DEF Range
    <3>2. i # 1
      BY <1>2, <2>2, <3>1
    <3>3. i - 1 \in 1 .. n - 1 /\ i - 1 + 1 = i
      BY <1>2, <3>2
    <3>4. x = s[i - 1]
      BY <1>7, <3>1, <3>3
    <3>5. QED
      BY <1>8, <3>3, <3>4 DEF Range
  <2>3. QED
    BY <2>1, <2>2
<1>10. Linked(v, u[a].next, s)
  <2>1. IsInjective(s)
    <3>1. SUFFICES ASSUME NEW i \in 1 .. n - 1, NEW j \in 1 .. n - 1, s[i] = s[j]
                   PROVE  i = j
      BY <1>8 DEF IsInjective
    <3>2. i + 1 \in 1 .. n /\ j + 1 \in 1 .. n /\ l[i + 1] = l[j + 1]
      BY <1>7, <3>1
    <3>3. i + 1 = j + 1
      BY <1>1, <3>2 DEF IsInjective
    <3>4. QED
      BY <3>3
  <2>2. ASSUME NEW i \in 1 .. n - 1
        PROVE  v[s[i]].next = IF i = n - 1 THEN EndOfList ELSE s[i + 1]
    <3>1. s[i] = l[i + 1] /\ i + 1 \in 1 .. n /\ v[s[i]].next = u[s[i]].next
      BY <1>6, <1>7
    <3>2. u[s[i]].next = IF i + 1 = n THEN EndOfList ELSE l[(i + 1) + 1]
      BY <1>1, <3>1
    <3>3. i # n - 1 => i + 1 \in 1 .. n - 1 /\ s[i + 1] = l[(i + 1) + 1]
      <4>1. i # n - 1 => i + 1 \in 1 .. n - 1
        BY <1>2
      <4>2. QED
        BY <1>7, <4>1
    <3>4. i = n - 1 <=> i + 1 = n
      BY <1>2
    <3>5. QED
      BY <3>1, <3>2, <3>3, <3>4
  <2>3. u[a].next = IF n - 1 = 0 THEN EndOfList ELSE s[1]
    <3>1. u[a].next = IF 1 = n THEN EndOfList ELSE l[1 + 1]
      BY <1>1, <1>2
    <3>2. n - 1 # 0 => 1 \in 1 .. n - 1 /\ s[1] = l[1 + 1]
      <4>1. \A m \in Nat : m # 0 => 1 \in 1 .. m
        OBVIOUS
      <4>2. n - 1 # 0 => 1 \in 1 .. n - 1
        BY <1>2, <4>1
      <4>3. QED
        BY <1>7, <4>2
    <3>3. n - 1 = 0 <=> 1 = n
      BY <1>2
    <3>4. QED
      BY <3>1, <3>2, <3>3
  <2>4. QED
    BY <1>8, <2>1, <2>2, <2>3 DEF Linked
<1>11. OthersStay(u, v, P, c, p, s)
  <2>1. SUFFICES ASSUME NEW q \in P \ {p}, NEW x \in Range(c[q])
                 PROVE  x \in FreeOf(v) /\ v[x].next = u[x].next /\ x \notin Range(s)
    BY DEF OthersStay
  <2>2. c[q] \in Seq(FreeOf(u)) /\ Range(c[q]) \cap Range(l) = {}
    BY DEF Chained, Linked, l
  <2>3. x \in FreeOf(u) /\ Range(c[q]) \cap Range(l) = {}
    BY <2>2, RangeOfSeq
  <2>4. QED
    BY <1>3, <1>5, <1>6, <1>9, <2>3
<1>12. Covers(v, P, c, p, s)
  <2>1. \A x \in FreeOf(u) : x \in Nat /\ \E q \in P : x \in Range(c[q])
    BY DEF Chained
  <2>2. QED
    BY <1>6, <1>9, <2>1 DEF Covers, l
<1>13. Chained(v, [heads EXCEPT ![p] = u[a].next], P, Relinked(c, p, s))
  BY <1>10, <1>11, <1>12, RelinkedIs
<1>14. QED
  BY <1>3, <1>5, <1>9, <1>13 DEF a, l, v, Pointed, Popped

\* Returned: a unit comes before those of a list.
LEMMA PushIs ==
  ASSUME NEW u, NEW heads, NEW P, NEW c, Chained(u, heads, P, c),
         NEW p \in P, NEW a \in DOMAIN u, a \notin FreeOf(u), a \in Nat
  PROVE  Pushed(u, Gave(u, a, heads[p]), heads, P, c, p, a)
<1> DEFINE l == c[p]
           v == Gave(u, a, heads[p])
           n == Len(l)
           s == [i \in 1 .. n + 1 |-> IF i = 1 THEN a ELSE l[i - 1]]
<1>1. /\ l \in Seq(FreeOf(u)) /\ IsInjective(l) /\ n \in Nat /\ DOMAIN l = 1 .. n
      /\ heads[p] = IF n = 0 THEN EndOfList ELSE l[1]
      /\ \A i \in 1 .. n : u[l[i]].next = IF i = n THEN EndOfList ELSE l[i + 1]
      /\ \A i \in 1 .. n : l[i] \in FreeOf(u)
  BY DEF Chained, Linked
<1>2. /\ DOMAIN v = DOMAIN u /\ v[a].allocated = NoSize /\ v[a].next = heads[p]
      /\ \A x \in DOMAIN u \ {a} : v[x] = u[x]
  BY DEF Gave
<1> HIDE DEF v
<1>3. FreeOf(v) = FreeOf(u) \cup {a}
  BY <1>2 DEF FreeOf
<1>4. \A x \in FreeOf(u) : x \in FreeOf(v) /\ x # a /\ v[x].next = u[x].next
  BY <1>2, <1>3 DEF FreeOf
<1>5. n + 1 \in Nat /\ 1 \in 1 .. n + 1 /\ s[1] = a
  BY <1>1
<1>6. \A i \in 1 .. n : i + 1 \in 1 .. n + 1 /\ s[i + 1] = l[i]
  <2>1. \A i \in 1 .. n : i + 1 \in 1 .. n + 1 /\ i + 1 # 1 /\ (i + 1) - 1 = i
    BY <1>1
  <2>2. QED
    BY <2>1
<1>7. \A i \in 1 .. n + 1 : i = 1 \/ (i - 1 \in 1 .. n /\ s[i] = l[i - 1])
  BY <1>1
<1>8. s \in Seq(FreeOf(v)) /\ Len(s) = n + 1 /\ DOMAIN s = 1 .. n + 1
  <2>1. s \in [1 .. n + 1 -> FreeOf(v)]
    BY <1>1, <1>3, <1>7
  <2> HIDE DEF s, n
  <2>2. QED
    BY <1>5, <2>1, SeqIs
<1> HIDE DEF s, l
<1>9. Range(s) = Range(l) \cup {a}
  <2>1. ASSUME NEW x \in Range(s)
        PROVE  x \in Range(l) \cup {a}
    <3>1. PICK i \in 1 .. n + 1 : x = s[i]
      BY <1>8, <2>1 DEF Range
    <3>2. i = 1 \/ (i - 1 \in DOMAIN l /\ x = l[i - 1])
      BY <1>1, <1>7, <3>1
    <3>3. QED
      BY <1>5, <3>1, <3>2 DEF Range
  <2>2. ASSUME NEW x \in Range(l)
        PROVE  x \in Range(s)
    <3>1. PICK i \in 1 .. n : x = l[i]
      BY <1>1, <2>2 DEF Range
    <3>2. i + 1 \in DOMAIN s /\ x = s[i + 1]
      BY <1>6, <1>8, <3>1
    <3>3. QED
      BY <3>2 DEF Range
  <2>3. a \in Range(s)
    BY <1>5, <1>8 DEF Range
  <2>4. QED
    BY <2>1, <2>2, <2>3
<1>10. Linked(v, a, s)
  <2>1. IsInjective(s)
    <3>1. SUFFICES ASSUME NEW i \in 1 .. n + 1, NEW j \in 1 .. n + 1, s[i] = s[j]
                   PROVE  i = j
      BY <1>8 DEF IsInjective
    <3>2. \A k \in 1 .. n + 1 : s[k] = a <=> k = 1
      BY <1>1, <1>4, <1>5, <1>7
    <3>3. CASE i = 1 \/ j = 1
      BY <3>1, <3>2, <3>3
    <3>4. CASE i # 1 /\ j # 1
      <4>1. i - 1 \in 1 .. n /\ j - 1 \in 1 .. n /\ l[i - 1] = l[j - 1]
        BY <1>7, <3>1, <3>4
      <4>2. i - 1 = j - 1
        BY <1>1, <4>1 DEF IsInjective
      <4>3. QED
        BY <4>2
    <3>5. QED
      BY <3>3, <3>4
  <2>2. ASSUME NEW i \in 1 .. n + 1
        PROVE  v[s[i]].next = IF i = n + 1 THEN EndOfList ELSE s[i + 1]
    <3>1. CASE i = 1
      <4>1. v[s[i]].next = heads[p]
        BY <1>2, <1>5, <3>1
      <4>2. 1 = n + 1 <=> n = 0
        <5>1. \A k \in Nat : 1 = k + 1 <=> k = 0
          OBVIOUS
        <5>2. n \in Nat
          BY <1>1
        <5>3. QED
          BY <5>1, <5>2
      <4>3. n # 0 => 1 \in 1 .. n /\ s[1 + 1] = l[1]
        <5>1. \A k \in Nat : k # 0 => 1 \in 1 .. k
          OBVIOUS
        <5>2. n \in Nat
          BY <1>1
        <5>3. n # 0 => 1 \in 1 .. n
          BY <5>1, <5>2
        <5>4. QED
          BY <1>6, <5>3
      <4>4. QED
        BY <1>1, <3>1, <4>1, <4>2, <4>3
    <3>2. CASE i # 1
      <4>1. i - 1 \in 1 .. n /\ s[i] = l[i - 1] /\ v[s[i]].next = u[s[i]].next
        BY <1>1, <1>4, <1>7, <3>2
      <4>2. u[s[i]].next = IF i - 1 = n THEN EndOfList ELSE l[(i - 1) + 1]
        BY <1>1, <4>1
      <4>3. i - 1 = n <=> i = n + 1
        <5>1. \A k \in Nat, j \in Int : j - 1 = k <=> j = k + 1
          OBVIOUS
        <5>2. n \in Nat
          BY <1>1
        <5>3. i \in Int
          OBVIOUS
        <5>4. QED
          BY <5>1, <5>2, <5>3
      <4>4. i # n + 1 => (i - 1) + 1 \in 1 .. n /\ (i - 1) + 1 = i /\ s[i + 1] = l[i]
        <5>1. \A k \in Nat : \A j \in 1 .. k + 1 :
                j # k + 1 => j \in 1 .. k /\ (j - 1) + 1 = j
          OBVIOUS
        <5>2. n \in Nat
          BY <1>1
        <5>3. i # n + 1 => i \in 1 .. n /\ (i - 1) + 1 = i
          BY <5>1, <5>2
        <5>4. QED
          BY <1>6, <5>3
      <4>5. QED
        BY <4>1, <4>2, <4>3, <4>4
    <3>3. QED
      BY <3>1, <3>2
  <2>3. n + 1 # 0
    <3>1. n \in Nat
      BY <1>1
    <3>2. QED
      BY <3>1
  <2>4. QED
    BY <1>5, <1>8, <2>1, <2>2, <2>3 DEF Linked
<1>11. OthersStay(u, v, P, c, p, s)
  <2>1. SUFFICES ASSUME NEW q \in P \ {p}, NEW x \in Range(c[q])
                 PROVE  x \in FreeOf(v) /\ v[x].next = u[x].next /\ x \notin Range(s)
    BY DEF OthersStay
  <2>2. c[q] \in Seq(FreeOf(u)) /\ Range(c[q]) \cap Range(l) = {}
    BY DEF Chained, Linked, l
  <2>3. x \in FreeOf(u) /\ Range(c[q]) \cap Range(l) = {}
    BY <2>2, RangeOfSeq
  <2>4. QED
    BY <1>4, <1>9, <2>3
<1>12. Covers(v, P, c, p, s)
  <2>1. \A x \in FreeOf(u) : x \in Nat /\ \E q \in P : x \in Range(c[q])
    BY DEF Chained
  <2>2. QED
    BY <1>3, <1>9, <2>1 DEF Covers, l
<1>13. Chained(v, [heads EXCEPT ![p] = a], P, Relinked(c, p, s))
  BY <1>10, <1>11, <1>12, RelinkedIs
<1>14. QED
  BY <1>3, <1>9, <1>13 DEF l, v, Pointed, Pushed

-----------------------------------------------------------------------------
(* Units that are carved.                                                  *)

\* n units from buf on.
Units(buf, n, R) == {buf + i * R : i \in 0 .. n - 1}

\* The headers once they are linked.
Grown(u, buf, n, R) ==
  [a \in DOMAIN u \cup Units(buf, n, R) |->
     IF a \in DOMAIN u THEN u[a]
     ELSE [next |-> IF a = buf + (n - 1) * R THEN EndOfList ELSE a + R, allocated |-> NoSize]]

\* That is what grow does when no unit is free.
LEMMA GrowIs ==
  ASSUME NEW u, NEW buf, NEW n, NEW R
  PROVE  /\ Classes!grow(u, EndOfList, buf, n, R) = Grown(u, buf, n, R)
         /\ Pooled!grow(u, EndOfList, buf, n, R) = Grown(u, buf, n, R)
BY DEF Classes!grow, Pooled!grow, Classes!addPadding, Pooled!addPadding, Classes!Carved,
       Pooled!Carved, Grown, Units

\* The units of a batch lie side by side.
LEMMA UnitsAre ==
  ASSUME NEW buf \in Nat, NEW n \in Nat, NEW R \in Nat, R > 0
  PROVE  /\ IsFiniteSet(Units(buf, n, R))
         /\ n * R \in Nat /\ n > 0 => buf \in Units(buf, n, R)
         /\ \A a \in Units(buf, n, R) : a \in Nat /\ buf <= a /\ a + R <= buf + n * R
<1>1. \A i \in 0 .. n - 1 : i \in Nat /\ i < n /\ i * R \in Nat /\ i * R + R <= n * R
  BY ProductIs
<1>2. n * R \in Nat
  BY ProductIs
<1>3. IsFiniteSet(Units(buf, n, R))
  <2> DEFINE I == 0 .. n - 1
             f == [i \in I |-> buf + i * R]
  <2>1. IsFiniteSet(I)
    BY FS_Interval
  <2>2. f \in Surjection(I, Units(buf, n, R))
    BY DEF Units, Surjection
  <2> HIDE DEF f, I
  <2>3. QED
    BY <2>1, <2>2, FS_Surjection
<1>4. n > 0 => buf \in Units(buf, n, R)
  <2>1. n > 0 => 0 \in 0 .. n - 1
    OBVIOUS
  <2>2. buf + 0 * R = buf
    OBVIOUS
  <2>3. QED
    BY <2>1, <2>2 DEF Units
<1>5. ASSUME NEW a \in Units(buf, n, R)
      PROVE  a \in Nat /\ buf <= a /\ a + R <= buf + n * R
  <2>1. PICK i \in 0 .. n - 1 : a = buf + i * R
    BY DEF Units
  <2>2. i * R \in Nat /\ i * R + R <= n * R
    BY <1>1
  <2>3. QED
    BY <1>2, <2>1, <2>2
<1>6. QED
  BY <1>2, <1>3, <1>4, <1>5

\* They are linked in their order.
LEMMA UnitsLinked ==
  ASSUME NEW buf \in Nat, NEW n \in Nat, NEW R \in Nat, R > 0, NEW v,
         \A a \in Units(buf, n, R) :
           /\ a \in DOMAIN v /\ v[a].allocated = NoSize
           /\ v[a].next = IF a = buf + (n - 1) * R THEN EndOfList ELSE a + R
  PROVE  \E s : /\ Range(s) = Units(buf, n, R)
                /\ Linked(v, IF n = 0 THEN EndOfList ELSE buf, s)
<1> DEFINE s == [i \in 1 .. n |-> buf + (i - 1) * R]
           U == Units(buf, n, R)
<1>1. \A i \in 1 .. n : /\ i - 1 \in 0 .. n - 1 /\ i \in Nat /\ (i - 1) * R \in Nat
                        /\ s[i] = buf + (i - 1) * R /\ s[i] \in U
  <2>1. \A i \in 1 .. n : i - 1 \in 0 .. n - 1 /\ i - 1 \in Nat /\ i \in Nat
    OBVIOUS
  <2>2. \A i \in 1 .. n : (i - 1) * R \in Nat
    BY <2>1, ProductIs
  <2>3. \A i \in 1 .. n : s[i] = buf + (i - 1) * R
    OBVIOUS
  <2> HIDE DEF s
  <2>4. \A i \in 1 .. n : s[i] \in U
    BY <2>1, <2>3 DEF Units
  <2>5. QED
    BY <2>1, <2>2, <2>3, <2>4
<1>2. \A i, j \in 1 .. n : s[i] = s[j] => i = j
  <2>1. SUFFICES ASSUME NEW i \in 1 .. n, NEW j \in 1 .. n, i < j
                 PROVE  s[i] # s[j]
    OBVIOUS
  <2>2. i - 1 \in Nat /\ j - 1 \in Nat /\ i - 1 < j - 1
    BY <2>1
  <2>3. (i - 1) * R + R <= (j - 1) * R
    BY <2>2, ProductIs
  <2> HIDE DEF s
  <2>4. QED
    BY <1>1, <2>3
<1>3. s \in Seq(FreeOf(v)) /\ Len(s) = n /\ DOMAIN s = 1 .. n
  <2>1. s \in [1 .. n -> FreeOf(v)]
    BY <1>1 DEF FreeOf
  <2> HIDE DEF s
  <2>2. QED
    BY <2>1, SeqIs
<1>4. Range(s) = U
  <2>1. ASSUME NEW a \in U
        PROVE  a \in Range(s)
    <3>1. PICK i \in 0 .. n - 1 : a = buf + i * R
      BY DEF Units
    <3>2. i + 1 \in 1 .. n /\ (i + 1) - 1 = i
      OBVIOUS
    <3> HIDE DEF s
    <3>3. a = s[i + 1]
      BY <1>1, <3>1, <3>2
    <3>4. QED
      BY <1>3, <3>2, <3>3 DEF Range
  <2> HIDE DEF s
  <2>2. Range(s) \subseteq U
    BY <1>1, <1>3 DEF Range
  <2>3. QED
    BY <2>1, <2>2
<1>5. ASSUME NEW i \in 1 .. n
      PROVE  v[s[i]].next = IF i = n THEN EndOfList ELSE s[i + 1]
  <2>1. v[s[i]].next = IF s[i] = buf + (n - 1) * R THEN EndOfList ELSE s[i] + R
    BY <1>1
  <2>2. n \in 1 .. n /\ s[n] = buf + (n - 1) * R
    BY <1>1
  <2>3. s[i] = buf + (n - 1) * R <=> i = n
    BY <1>2, <2>2
  <2>4. ASSUME i # n
        PROVE  s[i] + R = s[i + 1]
    <3>1. i + 1 \in 1 .. n /\ (i + 1) - 1 = (i - 1) + 1 /\ i - 1 \in Nat
      BY <2>4
    <3>2. ((i - 1) + 1) * R = (i - 1) * R + R
      BY <3>1
    <3> HIDE DEF s
    <3>3. s[i + 1] = buf + ((i - 1) * R + R)
      BY <1>1, <3>1, <3>2
    <3>4. QED
      BY <1>1, <3>3
  <2> HIDE DEF s
  <2>5. QED
    BY <2>1, <2>3, <2>4
<1>6. (IF n = 0 THEN EndOfList ELSE buf) = IF Len(s) = 0 THEN EndOfList ELSE s[1]
  <2>1. n # 0 => 1 \in 1 .. n /\ (1 - 1) * R = 0
    OBVIOUS
  <2>2. n # 0 => s[1] = buf
    BY <2>1
  <2> HIDE DEF s
  <2>3. QED
    BY <1>3, <2>2
<1>7. IsInjective(s)
  BY <1>2, <1>3 DEF IsInjective
<1> HIDE DEF s
<1>8. Linked(v, IF n = 0 THEN EndOfList ELSE buf, s)
  BY <1>3, <1>5, <1>6, <1>7 DEF Linked
<1>9. QED
  BY <1>4, <1>8

\* What that makes of the headers and of the chains.
Batched(u, v, heads, P, c, p, buf, U) ==
  /\ DOMAIN v = DOMAIN u \cup U /\ DOMAIN u \cap U = {}
  /\ \A a \in DOMAIN u : v[a] = u[a]
  /\ FreeOf(v) = FreeOf(u) \cup U
  /\ Range(c[p]) = {}
  /\ \E s : Range(s) = U /\ Chained(v, Pointed(heads, p, buf), P, Relinked(c, p, s))

\* Every address that is used is less than buf.
Ends(u, buf) == \A a \in DOMAIN u : a \in Nat /\ a < buf

\* A batch becomes the free list of a head that had none.
LEMMA BatchIs ==
  ASSUME NEW u, NEW heads, NEW P, NEW c, Chained(u, heads, P, c),
         NEW p \in P, heads[p] = EndOfList,
         NEW buf \in Nat, NEW n \in Nat, n > 0, NEW R \in Nat, R > 0,
         Ends(u, buf)
  PROVE  Batched(u, Grown(u, buf, n, R), heads, P, c, p, buf, Units(buf, n, R))
<1> DEFINE v == Grown(u, buf, n, R)
           U == Units(buf, n, R)
<1>1. \A a \in U : a \in Nat /\ buf <= a
  BY UnitsAre
<1>2. DOMAIN u \cap U = {}
  BY <1>1 DEF Ends
<1>3. /\ DOMAIN v = DOMAIN u \cup U
      /\ \A a \in DOMAIN u : v[a] = u[a]
      /\ \A a \in U : v[a] = [next |-> IF a = buf + (n - 1) * R THEN EndOfList ELSE a + R,
                              allocated |-> NoSize]
  BY <1>2 DEF Grown
<1> HIDE DEF v, U
<1>4. \A a \in U : /\ a \in DOMAIN v /\ v[a].allocated = NoSize
                   /\ v[a].next = IF a = buf + (n - 1) * R THEN EndOfList ELSE a + R
  BY <1>3
<1>5. FreeOf(v) = FreeOf(u) \cup U
  <2>1. \A a \in DOMAIN u : a \in FreeOf(v) <=> a \in FreeOf(u)
    BY <1>3 DEF FreeOf
  <2>2. \A a \in U : a \in FreeOf(v)
    BY <1>4 DEF FreeOf
  <2>3. FreeOf(v) \subseteq DOMAIN u \cup U /\ FreeOf(u) \subseteq DOMAIN u
    BY <1>3 DEF FreeOf
  <2>4. QED
    BY <2>1, <2>2, <2>3
<1>6. PICK s : Range(s) = U /\ Linked(v, buf, s)
  <2>1. n # 0
    OBVIOUS
  <2>2. QED
    BY <1>4, <2>1, UnitsLinked DEF U
<1>7. Range(c[p]) = {}
  <2>1. /\ c[p] \in Seq(FreeOf(u)) /\ Len(c[p]) \in Nat /\ DOMAIN c[p] = 1 .. Len(c[p])
        /\ EndOfList = IF Len(c[p]) = 0 THEN EndOfList ELSE c[p][1]
        /\ \A i \in 1 .. Len(c[p]) : c[p][i] \in FreeOf(u)
        /\ EndOfList \notin FreeOf(u)
    BY DEF Chained, Linked, EndOfList
  <2>2. Len(c[p]) = 0
    BY <2>1
  <2>3. QED
    BY <2>1, <2>2 DEF Range
<1>8. OthersStay(u, v, P, c, p, s)
  <2>1. SUFFICES ASSUME NEW q \in P \ {p}, NEW x \in Range(c[q])
                 PROVE  x \in FreeOf(v) /\ v[x].next = u[x].next /\ x \notin Range(s)
    BY DEF OthersStay
  <2>2. c[q] \in Seq(FreeOf(u))
    BY DEF Chained, Linked
  <2>3. x \in FreeOf(u) /\ x \in DOMAIN u
    BY <2>2, RangeOfSeq DEF FreeOf
  <2>4. QED
    BY <1>2, <1>3, <1>5, <1>6, <2>3 DEF U
<1>9. Covers(v, P, c, p, s)
  <2>1. \A x \in FreeOf(u) : x \in Nat /\ \E q \in P : x \in Range(c[q])
    BY DEF Chained
  <2>2. QED
    BY <1>1, <1>5, <1>6, <1>7, <2>1 DEF Covers, U
<1>10. Chained(v, [heads EXCEPT ![p] = buf], P, Relinked(c, p, s))
  BY <1>6, <1>8, <1>9, RelinkedIs
<1>11. QED
  BY <1>2, <1>3, <1>5, <1>6, <1>7, <1>10 DEF U, v, Pointed, Batched

-----------------------------------------------------------------------------
(* The size classes.                                                       *)

\* The fields of a header.
Headers(u) == \A a \in DOMAIN u : u[a] = [next |-> u[a].next, allocated |-> u[a].allocated]

\* The units that were carved for p and are allocated.
Lent(u, home, p) == {a \in DOMAIN u \ FreeOf(u) : home[a] = p}

(* Free lists have the units that were carved for them, counters count the *)
(* others, and their headers name the pool.                                *)
Accounted(u, heads, count, home, c) ==
  /\ Headers(u) /\ IsFiniteSet(DOMAIN u)
  /\ Chained(u, heads, Classes!Pools, c)
  /\ count \in [Classes!Pools -> Int]
  /\ \A p \in Classes!Pools :
       /\ \A a : a \in Range(c[p]) <=> a \in FreeOf(u) /\ home[a] = p
       /\ count[p] = Cardinality(Lent(u, home, p))
  /\ \A a \in DOMAIN u \ FreeOf(u) : Classes!PoolOf(u[a].allocated) = home[a]

\* Allocated units can be counted.
LEMMA LentIs ==
  ASSUME NEW u, IsFiniteSet(DOMAIN u), NEW home, NEW p
  PROVE  IsFiniteSet(Lent(u, home, p)) /\ Cardinality(Lent(u, home, p)) \in Nat
BY FS_Subset, FS_CardinalityType DEF Lent

\* alloc of a class that has a free unit.
LEMMA TakesKeeps ==
  ASSUME NEW u, NEW heads, NEW count, NEW home, NEW c, Accounted(u, heads, count, home, c),
         NEW p \in Classes!Pools, heads[p] # EndOfList,
         NEW size, size # NoSize, Classes!PoolOf(size) = p
  PROVE  \E d : Accounted(Took(u, heads[p], size), Pointed(heads, p, u[heads[p]].next),
                          [count EXCEPT ![p] = @ + 1], home, d)
<1> DEFINE a == heads[p]
           v == Took(u, a, size)
           h == Pointed(heads, p, u[a].next)
           n == [count EXCEPT ![p] = @ + 1]
<1>1. /\ Headers(u) /\ IsFiniteSet(DOMAIN u) /\ Chained(u, heads, Classes!Pools, c)
      /\ count \in [Classes!Pools -> Int]
  BY DEF Accounted
<1>3. /\ a \in Range(c[p]) /\ a \in FreeOf(u) /\ FreeOf(v) = FreeOf(u) \ {a}
      /\ \E s : /\ Range(s) = Range(c[p]) \ {a}
                /\ Chained(v, h, Classes!Pools, Relinked(c, p, s))
  <2>1. Popped(u, Took(u, heads[p], size), heads, Classes!Pools, c, p)
    BY <1>1, PopIs
  <2>2. QED
    BY <2>1 DEF Popped
<1>2. PICK s : /\ Range(s) = Range(c[p]) \ {a}
               /\ Chained(v, h, Classes!Pools, Relinked(c, p, s))
  BY <1>3
<1>4. /\ DOMAIN v = DOMAIN u /\ v[a] = [next |-> 0, allocated |-> size]
      /\ \A x \in DOMAIN u \ {a} : v[x] = u[x]
  BY <1>3 DEF FreeOf, Took
<1>5. home[a] = p
  BY <1>3 DEF Accounted
<1>6. Lent(v, home, p) = Lent(u, home, p) \cup {a} /\ a \notin Lent(u, home, p)
  BY <1>3, <1>4, <1>5 DEF Lent, FreeOf
<1>7. \A q \in Classes!Pools \ {p} : Lent(v, home, q) = Lent(u, home, q)
  BY <1>3, <1>4, <1>5 DEF Lent
<1> HIDE DEF a, h, v
<1> DEFINE d == Relinked(c, p, s)
<1>8. Headers(v)
  BY <1>1, <1>4 DEF Headers
<1>9. /\ n \in [Classes!Pools -> Int] /\ n[p] = count[p] + 1
      /\ \A q \in Classes!Pools \ {p} : n[q] = count[q]
  BY <1>1
<1>10. d[p] = s /\ \A q \in Classes!Pools \ {p} : d[q] = c[q]
  BY <1>1 DEF Chained, Relinked
<1> HIDE DEF n, d
<1>11. ASSUME NEW q \in Classes!Pools
       PROVE  \A x : x \in Range(d[q]) <=> x \in FreeOf(v) /\ home[x] = q
  <2>1. \A x : x \in Range(c[q]) <=> x \in FreeOf(u) /\ home[x] = q
    BY DEF Accounted
  <2>2. CASE q = p
    BY <1>2, <1>3, <1>10, <2>1, <2>2
  <2>3. CASE q # p
    BY <1>3, <1>5, <1>10, <2>1, <2>3
  <2>4. QED
    BY <2>2, <2>3
<1>12. ASSUME NEW q \in Classes!Pools
       PROVE  n[q] = Cardinality(Lent(v, home, q))
  <2>1. count[q] = Cardinality(Lent(u, home, q))
    BY DEF Accounted
  <2>2. CASE q = p
    <3>1. IsFiniteSet(Lent(u, home, p))
      BY <1>1, LentIs
    <3>2. Cardinality(Lent(v, home, p)) = Cardinality(Lent(u, home, p)) + 1
      BY <1>6, <3>1, FS_AddElement
    <3>3. QED
      BY <1>9, <2>1, <2>2, <3>2
  <2>3. CASE q # p
    BY <1>7, <1>9, <2>1, <2>3
  <2>4. QED
    BY <2>2, <2>3
<1>13. ASSUME NEW x \in DOMAIN v \ FreeOf(v)
       PROVE  Classes!PoolOf(v[x].allocated) = home[x]
  <2>1. CASE x = a
    BY <1>4, <1>5, <2>1
  <2>2. CASE x # a
    <3>1. x \in DOMAIN u \ FreeOf(u) /\ v[x] = u[x]
      BY <1>3, <1>4, <2>2
    <3>2. QED
      BY <3>1 DEF Accounted
  <2>3. QED
    BY <2>1, <2>2
<1>14. Accounted(v, h, n, home, d)
  BY <1>1, <1>2, <1>4, <1>8, <1>9, <1>11, <1>12, <1>13 DEF Accounted, d
<1>15. QED
  BY <1>14 DEF a, h, n, v

\* free of a unit that is allocated.
LEMMA FreesKeeps ==
  ASSUME NEW u, NEW heads, NEW count, NEW home, NEW c, Accounted(u, heads, count, home, c),
         NEW a \in DOMAIN u \ FreeOf(u), a \in Nat, NEW p \in Classes!Pools,
         p = Classes!PoolOf(u[a].allocated)
  PROVE  \E d : Accounted(Gave(u, a, heads[p]), Pointed(heads, p, a),
                          [count EXCEPT ![p] = @ - 1], home, d)
<1> DEFINE v == Gave(u, a, heads[p])
           h == Pointed(heads, p, a)
           n == [count EXCEPT ![p] = @ - 1]
<1>1. /\ Headers(u) /\ IsFiniteSet(DOMAIN u) /\ Chained(u, heads, Classes!Pools, c)
      /\ count \in [Classes!Pools -> Int]
  BY DEF Accounted
<1>3. /\ FreeOf(v) = FreeOf(u) \cup {a}
      /\ \E s : /\ Range(s) = Range(c[p]) \cup {a}
                /\ Chained(v, h, Classes!Pools, Relinked(c, p, s))
  <2>1. Pushed(u, Gave(u, a, heads[p]), heads, Classes!Pools, c, p, a)
    BY <1>1, PushIs
  <2>2. QED
    BY <2>1 DEF Pushed
<1>2. PICK s : /\ Range(s) = Range(c[p]) \cup {a}
               /\ Chained(v, h, Classes!Pools, Relinked(c, p, s))
  BY <1>3
<1>4. /\ DOMAIN v = DOMAIN u /\ v[a] = [next |-> heads[p], allocated |-> NoSize]
      /\ \A x \in DOMAIN u \ {a} : v[x] = u[x]
  BY DEF Gave
<1>5. home[a] = p
  BY DEF Accounted
<1>6. Lent(v, home, p) = Lent(u, home, p) \ {a} /\ a \in Lent(u, home, p)
  BY <1>3, <1>4, <1>5 DEF Lent
<1>7. \A q \in Classes!Pools \ {p} : Lent(v, home, q) = Lent(u, home, q)
  BY <1>3, <1>4, <1>5 DEF Lent
<1> HIDE DEF h, v
<1> DEFINE d == Relinked(c, p, s)
<1>8. Headers(v)
  BY <1>1, <1>4 DEF Headers
<1>9. /\ n \in [Classes!Pools -> Int] /\ n[p] = count[p] - 1
      /\ \A q \in Classes!Pools \ {p} : n[q] = count[q]
  BY <1>1
<1>10. d[p] = s /\ \A q \in Classes!Pools \ {p} : d[q] = c[q]
  BY <1>1 DEF Chained, Relinked
<1> HIDE DEF n, d
<1>11. ASSUME NEW q \in Classes!Pools
       PROVE  \A x : x \in Range(d[q]) <=> x \in FreeOf(v) /\ home[x] = q
  <2>1. \A x : x \in Range(c[q]) <=> x \in FreeOf(u) /\ home[x] = q
    BY DEF Accounted
  <2>2. CASE q = p
    BY <1>2, <1>3, <1>5, <1>10, <2>1, <2>2
  <2>3. CASE q # p
    BY <1>3, <1>5, <1>10, <2>1, <2>3
  <2>4. QED
    BY <2>2, <2>3
<1>12. ASSUME NEW q \in Classes!Pools
       PROVE  n[q] = Cardinality(Lent(v, home, q))
  <2>1. count[q] = Cardinality(Lent(u, home, q))
    BY DEF Accounted
  <2>2. CASE q = p
    <3>1. IsFiniteSet(Lent(u, home, p))
      BY <1>1, LentIs
    <3>2. Cardinality(Lent(v, home, p)) = Cardinality(Lent(u, home, p)) - 1
      BY <1>6, <3>1, FS_RemoveElement
    <3>3. QED
      BY <1>9, <2>1, <2>2, <3>2
  <2>3. CASE q # p
    BY <1>7, <1>9, <2>1, <2>3
  <2>4. QED
    BY <2>2, <2>3
<1>13. ASSUME NEW x \in DOMAIN v \ FreeOf(v)
       PROVE  Classes!PoolOf(v[x].allocated) = home[x]
  <2>1. x \in DOMAIN u \ FreeOf(u) /\ v[x] = u[x]
    BY <1>3, <1>4
  <2>2. QED
    BY <2>1 DEF Accounted
<1>14. Accounted(v, h, n, home, d)
  BY <1>1, <1>2, <1>4, <1>8, <1>9, <1>11, <1>12, <1>13 DEF Accounted, d
<1>15. QED
  BY <1>14 DEF h, n, v

\* setSize within the class.
LEMMA SetsKeeps ==
  ASSUME NEW u, NEW heads, NEW count, NEW home, NEW c, Accounted(u, heads, count, home, c),
         NEW a \in DOMAIN u \ FreeOf(u), NEW size, size # NoSize,
         Classes!PoolOf(size) = Classes!PoolOf(u[a].allocated), NEW v,
         v = [u EXCEPT ![a].allocated = size]
  PROVE  Accounted(v, heads, count, home, c)
<1>1. u[a] = [next |-> u[a].next, allocated |-> u[a].allocated]
  BY DEF Accounted, Headers
<1>2. /\ DOMAIN v = DOMAIN u /\ v[a] = [u[a] EXCEPT !.allocated = size]
      /\ \A x \in DOMAIN u \ {a} : v[x] = u[x]
  OBVIOUS
<1>3. v[a] = [next |-> u[a].next, allocated |-> size]
  BY <1>1, <1>2
<1>4. FreeOf(v) = FreeOf(u)
  BY <1>2, <1>3 DEF FreeOf
<1>5. \A x \in FreeOf(u) : v[x] = u[x]
  BY <1>2
<1>6. Headers(v)
  BY <1>2, <1>3 DEF Accounted, Headers
<1>7. Chained(v, heads, Classes!Pools, c)
  <2>1. ASSUME NEW p \in Classes!Pools
        PROVE  Linked(v, heads[p], c[p])
    <3>1. Linked(u, heads[p], c[p])
      BY DEF Accounted, Chained
    <3>2. \A x \in Range(c[p]) : x \in FreeOf(u)
      BY DEF Accounted
    <3>3. \A x \in Range(c[p]) : x \in FreeOf(v) /\ v[x].next = u[x].next
      BY <1>4, <1>5, <3>2
    <3>4. QED
      BY <3>1, <3>3, LinkedStays
  <2>2. QED
    BY <1>4, <2>1 DEF Accounted, Chained
<1>8. \A p : Lent(v, home, p) = Lent(u, home, p)
  BY <1>2, <1>4 DEF Lent
<1>9. ASSUME NEW x \in DOMAIN v \ FreeOf(v)
      PROVE  Classes!PoolOf(v[x].allocated) = home[x]
  <2>1. x \in DOMAIN u \ FreeOf(u) /\ Classes!PoolOf(u[x].allocated) = home[x]
    BY <1>2, <1>4 DEF Accounted
  <2>2. CASE x = a
    <3>1. v[x].allocated = size
      BY <1>3, <2>2
    <3>2. QED
      BY <2>1, <2>2, <3>1
  <2>3. CASE x # a
    BY <1>2, <2>1, <2>3
  <2>4. QED
    BY <2>2, <2>3
<1>10. QED
  BY <1>2, <1>4, <1>6, <1>7, <1>8, <1>9 DEF Accounted

\* The units U are carved for p.
CarvedFor(home, U, p) == [a \in DOMAIN home \cup U |-> IF a \in U THEN p ELSE home[a]]

\* grow of a class that has no free unit.
LEMMA GrowsKeeps ==
  ASSUME NEW u, NEW heads, NEW count, NEW home, NEW c, Accounted(u, heads, count, home, c),
         NEW p \in Classes!Pools, heads[p] = EndOfList, DOMAIN home = DOMAIN u,
         NEW buf \in Nat, NEW n \in Nat, n > 0, NEW R \in Nat, R > 0,
         Ends(u, buf)
  PROVE  \E d : Accounted(Grown(u, buf, n, R), Pointed(heads, p, buf), count,
                          CarvedFor(home, Units(buf, n, R), p), d)
<1> DEFINE v == Grown(u, buf, n, R)
           U == Units(buf, n, R)
           h == Pointed(heads, p, buf)
           to == CarvedFor(home, U, p)
<1>1. /\ Headers(u) /\ IsFiniteSet(DOMAIN u) /\ Chained(u, heads, Classes!Pools, c)
      /\ count \in [Classes!Pools -> Int]
  BY DEF Accounted
<1>2. /\ DOMAIN v = DOMAIN u \cup U /\ DOMAIN u \cap U = {}
      /\ \A a \in DOMAIN u : v[a] = u[a]
      /\ FreeOf(v) = FreeOf(u) \cup U
      /\ Range(c[p]) = {}
      /\ \E s : Range(s) = U /\ Chained(v, h, Classes!Pools, Relinked(c, p, s))
  <2>1. Batched(u, Grown(u, buf, n, R), heads, Classes!Pools, c, p, buf, Units(buf, n, R))
    BY <1>1, BatchIs
  <2>2. QED
    BY <2>1 DEF Batched
<1>3. PICK s : Range(s) = U /\ Chained(v, h, Classes!Pools, Relinked(c, p, s))
  BY <1>2
<1>4. FreeOf(u) \subseteq DOMAIN u
  BY DEF FreeOf
<1>5. Headers(v)
  <2>1. \A a \in U : v[a] = [next |-> v[a].next, allocated |-> v[a].allocated]
    BY <1>2 DEF Grown
  <2>2. QED
    BY <1>1, <1>2, <2>1 DEF Headers
<1>6. IsFiniteSet(DOMAIN v)
  <2>1. IsFiniteSet(U)
    BY UnitsAre
  <2>2. DOMAIN v = DOMAIN u \cup U
    BY <1>2
  <2>3. IsFiniteSet(DOMAIN u \cup U)
    BY <1>1, <2>1, FS_Union
  <2>4. QED
    BY <2>2, <2>3
<1>7. (\A a \in U : to[a] = p) /\ \A a \in DOMAIN u : to[a] = home[a]
  BY <1>2 DEF CarvedFor
<1> HIDE DEF U, v, h, to
<1> DEFINE d == Relinked(c, p, s)
<1>8. d[p] = s /\ \A q \in Classes!Pools \ {p} : d[q] = c[q]
  BY <1>1 DEF Chained, Relinked
<1> HIDE DEF d
<1>9. ASSUME NEW q \in Classes!Pools
      PROVE  \A x : x \in Range(d[q]) <=> x \in FreeOf(v) /\ to[x] = q
  <2>1. \A x : x \in Range(c[q]) <=> x \in FreeOf(u) /\ home[x] = q
    BY DEF Accounted
  <2>2. \A x \in FreeOf(u) : to[x] = home[x]
    BY <1>4, <1>7
  <2>3. CASE q = p
    <3>1. \A x \in FreeOf(u) : to[x] # q
      BY <1>2, <2>1, <2>2, <2>3
    <3>2. QED
      BY <1>2, <1>3, <1>7, <1>8, <2>3, <3>1
  <2>4. CASE q # p
    BY <1>2, <1>7, <1>8, <2>1, <2>2, <2>4
  <2>5. QED
    BY <2>3, <2>4
<1>10. DOMAIN v \ FreeOf(v) = DOMAIN u \ FreeOf(u)
  BY <1>2, <1>4
<1>11. \A q : Lent(v, to, q) = Lent(u, home, q)
  BY <1>7, <1>10 DEF Lent
<1>12. \A x \in DOMAIN v \ FreeOf(v) : Classes!PoolOf(v[x].allocated) = to[x]
  BY <1>2, <1>7, <1>10 DEF Accounted
<1>13. \A q \in Classes!Pools : count[q] = Cardinality(Lent(v, to, q))
  BY <1>11 DEF Accounted
<1>14. Accounted(v, h, count, to, d)
  BY <1>1, <1>3, <1>5, <1>6, <1>9, <1>12, <1>13 DEF Accounted, d
<1>15. QED
  BY <1>14 DEF U, v, h, to

\* The instances' operators are the library's, and the ones above.
LEMMA ClassesSame ==
  ASSUME NEW s
  PROVE  /\ Classes!Range(s) = Range(s) /\ Classes!IsInjective(s) = IsInjective(s)
         /\ Classes!Cardinality(s) = Cardinality(s)
         /\ Classes!Unallocated(s) = FreeOf(s)
BY DEF Classes!Range, Range, Classes!IsInjective, IsInjective, Classes!Cardinality, Cardinality,
       Classes!Unallocated, FreeOf

ClassesKept == \E c : Accounted(node, bucket, refcount, before, c)
KeptInv == part = "classes" => Classes!IInv /\ ClassesKept

\* The next state's accounts, with the values of the next state.
LEMMA KeptNext ==
  ASSUME NEW u, NEW heads, NEW count, NEW home, \E c : Accounted(u, heads, count, home, c),
         node' = u, bucket' = heads, refcount' = count, before' = home
  PROVE  ClassesKept'
<1>1. PICK c : Accounted(u, heads, count, home, c)
  OBVIOUS
<1>2. Accounted(node', bucket', refcount', before', c)
  BY <1>1
<1>3. Accounted(node, bucket, refcount, before, c)'
  BY <1>2
<1>4. QED
  BY <1>3 DEF ClassesKept

\* At first there is no unit.
LEMMA KeptInit ==
  ASSUME Classes!Init
  PROVE  ClassesKept
<1> DEFINE c == [p \in Classes!Pools |-> <<>>]
<1>1. /\ node = <<>> /\ before = <<>> /\ bucket = [p \in Classes!Pools |-> EndOfList]
      /\ refcount = [p \in Classes!Pools |-> 0] /\ DOMAIN <<>> = {}
  BY DEF Classes!Init
<1>2. DOMAIN node = {} /\ FreeOf(node) = {}
  BY <1>1 DEF FreeOf
<1>3. <<>> \in Seq(FreeOf(node)) /\ Len(<<>>) = 0 /\ Range(<<>>) = {} /\ IsInjective(<<>>)
  BY DEF Range, IsInjective
<1>4. Linked(node, EndOfList, <<>>)
  BY <1>3 DEF Linked
<1>5. \A p : Lent(node, before, p) = {}
  BY <1>2 DEF Lent
<1>6. IsFiniteSet({}) /\ Cardinality({}) = 0
  BY FS_EmptySet
<1>7. Chained(node, bucket, Classes!Pools, c)
  BY <1>1, <1>2, <1>3, <1>4 DEF Chained
<1>8. \A p \in Classes!Pools : c[p] = <<>> /\ refcount[p] = 0
  BY <1>1
<1>9. refcount \in [Classes!Pools -> Int]
  BY <1>1
<1> HIDE DEF c
<1>10. \A p \in Classes!Pools :
         /\ \A a : a \in Range(c[p]) <=> a \in FreeOf(node) /\ before[a] = p
         /\ refcount[p] = Cardinality(Lent(node, before, p))
  BY <1>2, <1>3, <1>5, <1>6, <1>8
<1>11. Headers(node) /\ IsFiniteSet(DOMAIN node)
  BY <1>2, <1>6 DEF Headers
<1>12. Accounted(node, bucket, refcount, before, c)
  BY <1>2, <1>7, <1>9, <1>10, <1>11 DEF Accounted
<1>13. QED
  BY <1>12 DEF ClassesKept

\* All addresses are below brk, and the batches and sizes are numbers.
LEMMA ClassesEnds ==
  ASSUME Classes!IInv
  PROVE  /\ Ends(node, b) /\ b \in Nat /\ DOMAIN before = DOMAIN node
         /\ \A a \in DOMAIN node : before[a] \in Classes!Pools
         /\ \A p \in Classes!Pools :
              /\ op[p] \in Nat /\ op[p] > 0
              /\ Classes!Realsize[p] \in Nat /\ Classes!Realsize[p] > 0
<1>1. /\ b \in Nat /\ DOMAIN node = DOMAIN before /\ DOMAIN node \subseteq Nat
      /\ \A a \in DOMAIN before : before[a] \in Classes!Pools
      /\ Classes!Below /\ op \in [Classes!Pools -> Nat \ {0}]
  BY DEF Classes!IInv, Classes!Types
<1>2. \A p \in Classes!Pools : /\ op[p] \in Nat /\ op[p] > 0
                               /\ Classes!Realsize[p] \in Nat /\ Classes!Realsize[p] > 0
  BY <1>1, SizesAssumption
<1>3. ASSUME NEW a \in DOMAIN node
      PROVE  a \in Nat /\ a < b
  <2>1. a \in Nat /\ Classes!Realsize[before[a]] \in Nat /\ Classes!Realsize[before[a]] > 0
    BY <1>1, <1>2
  <2>2. PICK r \in retval : r[1] <= a /\ a + Classes!Realsize[before[a]] <= r[1] + r[2]
    BY DEF Classes!IInv, Classes!UnitsApart
  <2>3. r[1] \in Nat /\ r[2] \in Nat /\ r[1] + r[2] <= b
    BY <1>1 DEF Classes!Below
  <2>4. QED
    BY <1>1, <2>1, <2>2, <2>3
<1>4. QED
  BY <1>1, <1>2, <1>3 DEF Ends

\* Every call of the size classes keeps the accounts.
LEMMA KeptStep ==
  ASSUME Classes!IInv, ClassesKept, Classes!Next
  PROVE  ClassesKept'
<1>1. PICK c : Accounted(node, bucket, refcount, before, c)
  BY DEF ClassesKept
<1>2. \A size \in Requests : size # NoSize
  <2>1. \A size \in Requests : size \in Nat
    BY SizesAssumption
  <2>2. QED
    BY <2>1 DEF NoSize
<1>3. ASSUME NEW size \in Requests, Classes!alloc(size)
      PROVE  ClassesKept'
  <2> DEFINE p == Classes!PoolOf(size)
  <2>1. CASE Classes!Refuses(size)
    BY <1>1, <2>1, KeptNext DEF Classes!Refuses, Classes!memory
  <2>2. CASE /\ p \in Classes!Pools /\ bucket[p] # EndOfList
             /\ Classes!Takes(p, node, bucket[p], size) /\ UNCHANGED <<b, retval, before>>
    <3>1. \E d : Accounted(Took(node, bucket[p], size), Pointed(bucket, p, node[bucket[p]].next),
                           [refcount EXCEPT ![p] = @ + 1], before, d)
      BY <1>1, <1>2, <2>2, TakesKeeps
    <3>2. /\ node' = Took(node, bucket[p], size) /\ bucket' = Pointed(bucket, p, node[bucket[p]].next)
          /\ refcount' = [refcount EXCEPT ![p] = @ + 1] /\ before' = before
      BY <2>2 DEF Classes!Takes, Classes!Taken, Took, Pointed
    <3>3. QED
      BY <3>1, <3>2, KeptNext
  <2>3. CASE p \in Classes!Pools /\ bucket[p] = EndOfList /\ Classes!Grows(p, size)
    <3> DEFINE n == op[p]
               R == Classes!Realsize[p]
               u == Grown(node, b, n, R)
               h == Pointed(bucket, p, b)
               home == CarvedFor(before, Units(b, n, R), p)
    <3>1. /\ n \in Nat /\ n > 0 /\ R \in Nat /\ R > 0 /\ b \in Nat
          /\ Ends(node, b) /\ DOMAIN before = DOMAIN node
      BY <2>3, ClassesEnds
    <3>2. \E d : Accounted(u, h, refcount, home, d)
      BY <1>1, <2>3, <3>1, GrowsKeeps
    <3>3. PICK d : Accounted(u, h, refcount, home, d)
      BY <3>2
    <3>4. h[p] = b /\ b # EndOfList
      <4>1. DOMAIN bucket = Classes!Pools
        BY <1>1 DEF Accounted, Chained
      <4>2. QED
        BY <2>3, <3>1, <4>1 DEF Pointed, EndOfList
    <3>5. /\ node' = Took(u, b, size) /\ bucket' = [bucket EXCEPT ![p] = u[b].next]
          /\ refcount' = [refcount EXCEPT ![p] = @ + 1] /\ before' = home
      <4>1. Classes!grow(node, EndOfList, b, n, R) = u
        BY GrowIs
      <4>2. Classes!Carved(b, n, R) = Units(b, n, R)
        BY DEF Classes!Carved, Units
      <4>3. Classes!Takes(p, u, b, size)
        BY <2>3, <4>1 DEF Classes!Grows
      <4>4. before' = home
        BY <2>3, <4>2 DEF Classes!Grows, CarvedFor
      <4> HIDE DEF u, home
      <4>5. QED
        BY <4>3, <4>4 DEF Classes!Takes, Classes!Taken, Took
    <3>6. Pointed(h, p, u[b].next) = [bucket EXCEPT ![p] = u[b].next]
      BY DEF Pointed
    <3> HIDE DEF u, h, home, p
    <3>7. \E e : Accounted(Took(u, h[p], size), Pointed(h, p, u[h[p]].next),
                           [refcount EXCEPT ![p] = @ + 1], home, e)
      BY <1>2, <2>3, <3>3, <3>4, TakesKeeps DEF p
    <3>8. /\ node' = Took(u, h[p], size) /\ bucket' = Pointed(h, p, u[h[p]].next)
      BY <3>4, <3>5, <3>6
    <3>9. QED
      BY <3>5, <3>7, <3>8, KeptNext
  <2>4. QED
    BY <1>3, <2>1, <2>2, <2>3 DEF Classes!alloc
<1>4. ASSUME NEW a \in Classes!Allocated
      PROVE  /\ a \in DOMAIN node \ FreeOf(node) /\ a \in Nat
             /\ Classes!PoolOf(node[a].allocated) = before[a] /\ before[a] \in Classes!Pools
  <2>1. a \in DOMAIN node \ FreeOf(node)
    BY ClassesSame DEF Classes!Allocated
  <2>2. QED
    BY <1>1, <2>1, ClassesEnds DEF Accounted, Ends
<1>5. ASSUME NEW a \in Classes!Allocated, Classes!free(a)
      PROVE  ClassesKept'
  <2> DEFINE p == Classes!PoolOf(node[a].allocated)
  <2>1. a \in DOMAIN node \ FreeOf(node) /\ a \in Nat /\ p \in Classes!Pools
    BY <1>4
  <2>2. \E d : Accounted(Gave(node, a, bucket[p]), Pointed(bucket, p, a),
                         [refcount EXCEPT ![p] = @ - 1], before, d)
    BY <1>1, <2>1, FreesKeeps
  <2>3. /\ node' = Gave(node, a, bucket[p]) /\ bucket' = Pointed(bucket, p, a)
        /\ refcount' = [refcount EXCEPT ![p] = @ - 1] /\ before' = before
    BY <1>5 DEF Classes!free, Classes!Returned, Gave, Pointed
  <2>4. QED
    BY <2>2, <2>3, KeptNext
<1>6. ASSUME NEW a \in Classes!Allocated, NEW size \in Requests,
             Classes!KeepsClass(a, size), Classes!setSize(a, size)
      PROVE  ClassesKept'
  <2> DEFINE v == [node EXCEPT ![a].allocated = size]
  <2>1. a \in DOMAIN node \ FreeOf(node)
    BY <1>4
  <2>2. size # NoSize /\ Classes!PoolOf(size) = Classes!PoolOf(node[a].allocated)
    BY <1>2, <1>6 DEF Classes!KeepsClass
  <2>3. Accounted(v, bucket, refcount, before, c)
    BY <1>1, <2>1, <2>2, SetsKeeps
  <2>4. node' = v /\ bucket' = bucket /\ refcount' = refcount /\ before' = before
    BY <1>6 DEF Classes!setSize
  <2>5. QED
    BY <2>3, <2>4, KeptNext
<1>7. QED
  BY <1>3, <1>5, <1>6 DEF Classes!Next

\* The accounts say where every unit is.
LEMMA KeptMeans ==
  ASSUME ClassesKept
  PROVE  Classes!UnitsAccounted
<1>1. PICK c : Accounted(node, bucket, refcount, before, c)
  BY DEF ClassesKept
<1>2. Chained(node, bucket, Classes!Pools, c)
  BY <1>1 DEF Accounted
<1>3. ASSUME NEW p \in Classes!Pools
      PROVE  LET free_ == Classes!FreeList(node, bucket[p])
             IN /\ Classes!IsInjective(free_)
                /\ Classes!Range(free_) = {a \in Classes!Unallocated(node) : before[a] = p}
                /\ refcount[p] = Classes!Cardinality({a \in Classes!Allocated : before[a] = p})
  <2>1. Classes!FreeList(node, bucket[p]) = c[p]
    BY <1>2, FreeListIs
  <2>2. IsInjective(c[p])
    BY <1>2 DEF Chained, Linked
  <2>3. Range(c[p]) = {a \in FreeOf(node) : before[a] = p}
    BY <1>1 DEF Accounted
  <2>4. {a \in Classes!Allocated : before[a] = p} = Lent(node, before, p)
    BY ClassesSame DEF Classes!Allocated, Lent
  <2>5. refcount[p] = Cardinality(Lent(node, before, p))
    BY <1>1 DEF Accounted
  <2>6. QED
    BY <2>1, <2>2, <2>3, <2>4, <2>5, ClassesSame
<1>4. QED
  BY <1>3 DEF Classes!UnitsAccounted

-----------------------------------------------------------------------------
(* Sums.                                                                   *)

\* s has the sums of the first numbers f[0], f[1], ..., m of them at most.
IsSum(s, m, f) == s = [n \in 0 .. m |-> IF n = 0 THEN 0 ELSE s[n - 1] + f[n - 1]]
Sums(m, f) == CHOOSE s : IsSum(s, m, f)

\* The sums exist.
LEMMA SumsAre ==
  ASSUME NEW m \in Nat, NEW f
  PROVE  /\ Sums(m, f)[0] = 0
         /\ \A n \in 1 .. m : Sums(m, f)[n] = Sums(m, f)[n - 1] + f[n - 1]
<1> DEFINE S == {k \in 0 .. m : \E s : IsSum(s, k, f)}
<1>1. 0 \in S
  <2> DEFINE s == [n \in 0 .. 0 |-> 0]
  <2>1. s = [n \in 0 .. 0 |-> IF n = 0 THEN 0 ELSE s[n - 1] + f[n - 1]]
    OBVIOUS
  <2> HIDE DEF s
  <2>2. IsSum(s, 0, f)
    BY <2>1 DEF IsSum
  <2>3. QED
    BY <2>2
<1>2. ASSUME NEW k \in 0 .. m - 1, k \in S
      PROVE  k + 1 \in S
  <2>1. PICK s : IsSum(s, k, f)
    BY <1>2
  <2> DEFINE t == [n \in 0 .. k + 1 |-> IF n = k + 1 THEN s[k] + f[k] ELSE s[n]]
  <2>2. \A n \in 0 .. k : s[n] = IF n = 0 THEN 0 ELSE s[n - 1] + f[n - 1]
    BY <2>1 DEF IsSum
  <2>3. \A n \in 0 .. k : t[n] = s[n]
    <3>1. \A n \in 0 .. k : n \in 0 .. k + 1 /\ n # k + 1
      OBVIOUS
    <3>2. QED
      BY <3>1
  <2>4. t[k + 1] = s[k] + f[k]
    <3>1. k + 1 \in 0 .. k + 1
      OBVIOUS
    <3>2. QED
      BY <3>1
  <2>5. t = [n \in 0 .. k + 1 |-> t[n]]
    OBVIOUS
  <2> HIDE DEF t
  <2>6. ASSUME NEW n \in 0 .. k + 1
        PROVE  t[n] = IF n = 0 THEN 0 ELSE t[n - 1] + f[n - 1]
    <3>1. CASE n = k + 1
      <4>1. n # 0 /\ n - 1 = k /\ k \in 0 .. k
        BY <3>1
      <4>2. t[n] = t[n - 1] + f[n - 1]
        BY <2>3, <2>4, <3>1, <4>1
      <4>3. QED
        BY <4>1, <4>2
    <3>2. CASE n # k + 1
      <4>1. n \in 0 .. k /\ (n # 0 => n - 1 \in 0 .. k)
        BY <3>2
      <4>2. QED
        BY <2>2, <2>3, <4>1
    <3>3. QED
      BY <3>1, <3>2
  <2>7. IsSum(t, k + 1, f)
    BY <2>5, <2>6 DEF IsSum
  <2>8. k + 1 \in 0 .. m
    OBVIOUS
  <2>9. QED
    BY <2>7, <2>8
<1>3. m \in S
  <2>1. m \in 0 .. m
    OBVIOUS
  <2> HIDE DEF S
  <2>2. QED
    BY <1>1, <1>2, <2>1, Induct
<1>4. IsSum(Sums(m, f), m, f)
  BY <1>3 DEF Sums
<1>5. \A n \in 0 .. m : Sums(m, f)[n] = IF n = 0 THEN 0 ELSE Sums(m, f)[n - 1] + f[n - 1]
  BY <1>4 DEF IsSum
<1>6. 0 \in 0 .. m /\ \A n \in 1 .. m : n \in 0 .. m /\ n # 0
  OBVIOUS
<1>7. QED
  BY <1>5, <1>6

\* Of numbers it is a number, and of zeros it is zero.
LEMMA SumsInt ==
  ASSUME NEW m \in Nat, NEW f \in [0 .. m - 1 -> Int]
  PROVE  /\ \A n \in 0 .. m : Sums(m, f)[n] \in Int
         /\ (\A n \in 0 .. m - 1 : f[n] = 0) => Sums(m, f)[m] = 0
<1> DEFINE s == Sums(m, f)
           S == {k \in 0 .. m : s[k] \in Int}
           Z == {k \in 0 .. m : s[k] = 0}
<1>1. s[0] = 0 /\ \A n \in 1 .. m : s[n] = s[n - 1] + f[n - 1]
  BY SumsAre
<1> HIDE DEF s
<1>2. \A k \in 0 .. m - 1 : /\ k + 1 \in 1 .. m /\ k + 1 \in 0 .. m /\ (k + 1) - 1 = k
                            /\ f[k] \in Int
  OBVIOUS
<1>3. \A k \in 0 .. m - 1 : s[k + 1] = s[k] + f[k]
  BY <1>1, <1>2
<1>4. 0 \in S /\ 0 \in Z
  <2>1. 0 \in 0 .. m
    OBVIOUS
  <2>2. QED
    BY <1>1, <2>1
<1>5. \A k \in 0 .. m - 1 : k \in S => k + 1 \in S
  BY <1>2, <1>3
<1>6. \A n \in 0 .. m : s[n] \in Int
  <2>1. \A k \in 0 .. m : k \in S
    <3> HIDE DEF S
    <3>1. QED
      BY <1>4, <1>5, Induct
  <2>2. QED
    BY <2>1
<1>7. ASSUME \A n \in 0 .. m - 1 : f[n] = 0
      PROVE  s[m] = 0
  <2>1. \A k \in 0 .. m - 1 : k \in Z => k + 1 \in Z
    <3>1. \A k \in 0 .. m - 1 : s[k] = 0 => s[k + 1] = 0
      <4>1. TAKE k \in 0 .. m - 1
      <4>2. f[k] = 0 /\ s[k + 1] = s[k] + f[k]
        BY <1>3, <1>7
      <4>3. QED
        BY <4>2
    <3>2. QED
      BY <1>2, <3>1
  <2>2. m \in 0 .. m
    OBVIOUS
  <2>3. m \in Z
    <3> HIDE DEF Z
    <3>1. QED
      BY <1>4, <2>1, <2>2, Induct
  <2>4. QED
    BY <2>3
<1>8. QED
  BY <1>6, <1>7 DEF s

\* It changes as much as one of the numbers does.
LEMMA SumsChange ==
  ASSUME NEW m \in Nat, NEW f \in [0 .. m - 1 -> Int], NEW p \in 0 .. m - 1, NEW d \in Int
  PROVE  Sums(m, [f EXCEPT ![p] = @ + d])[m] = Sums(m, f)[m] + d
<1> DEFINE g == [f EXCEPT ![p] = @ + d]
           s == Sums(m, f)
           t == Sums(m, g)
           S == {k \in 0 .. m : t[k] = s[k] + (IF k <= p THEN 0 ELSE d)}
<1>1. s[0] = 0 /\ \A n \in 1 .. m : s[n] = s[n - 1] + f[n - 1]
  BY SumsAre
<1>2. t[0] = 0 /\ \A n \in 1 .. m : t[n] = t[n - 1] + g[n - 1]
  BY SumsAre
<1>3. \A n \in 0 .. m : s[n] \in Int
  BY SumsInt
<1>4. g[p] = f[p] + d /\ \A n \in 0 .. m - 1 : n # p => g[n] = f[n]
  OBVIOUS
<1> HIDE DEF s, t, g
<1>5. \A k \in 0 .. m - 1 : /\ k + 1 \in 1 .. m /\ k + 1 \in 0 .. m /\ (k + 1) - 1 = k
                            /\ f[k] \in Int
  OBVIOUS
<1>6. \A k \in 0 .. m - 1 : s[k + 1] = s[k] + f[k] /\ t[k + 1] = t[k] + g[k]
  BY <1>1, <1>2, <1>5
<1>7. 0 \in S
  <2>1. 0 \in 0 .. m /\ 0 <= p
    OBVIOUS
  <2>2. QED
    BY <1>1, <1>2, <2>1
<1>8. ASSUME NEW k \in 0 .. m - 1, k \in S
      PROVE  k + 1 \in S
  <2>1. /\ s[k] \in Int /\ f[k] \in Int /\ k + 1 \in 0 .. m /\ k \in Int /\ p \in Int
        /\ s[k + 1] = s[k] + f[k] /\ t[k + 1] = t[k] + g[k]
        /\ t[k] = s[k] + (IF k <= p THEN 0 ELSE d)
    BY <1>3, <1>5, <1>6, <1>8
  <2>2. CASE k = p
    <3>1. k <= p /\ ~ (k + 1 <= p) /\ g[k] = f[k] + d
      BY <1>4, <2>1, <2>2
    <3>2. t[k + 1] = s[k + 1] + d
      BY <2>1, <3>1
    <3>3. QED
      BY <2>1, <3>1, <3>2
  <2>3. CASE k # p
    <3>1. (k <= p <=> k + 1 <= p) /\ g[k] = f[k]
      BY <1>4, <2>1, <2>3
    <3>2. t[k + 1] = s[k + 1] + (IF k <= p THEN 0 ELSE d)
      BY <2>1, <3>1
    <3>3. QED
      BY <2>1, <3>1, <3>2
  <2>4. QED
    BY <2>2, <2>3
<1>9. m \in S
  <2>1. m \in 0 .. m
    OBVIOUS
  <2> HIDE DEF S
  <2>2. QED
    BY <1>7, <1>8, <2>1, Induct
<1>10. ~ (m <= p)
  OBVIOUS
<1>11. QED
  BY <1>9, <1>10 DEF s, t, g

-----------------------------------------------------------------------------
(* The pools that threads share.                                           *)

ChainsAre == \E c : Chained(node, bucket, Pooled!Pools, c)
OutsApart == \A t, u \in Threads : t # u => Pooled!Out(t) \cap Pooled!Out(u) = {}
OutsAre == \A a : (\E t \in Threads : a \in Pooled!Out(t)) <=> a \in DOMAIN node \ FreeOf(node)
CountIs ==
  /\ IsFiniteSet(DOMAIN node)
  /\ Pooled!Counted = Cardinality(DOMAIN node \ FreeOf(node))

(* A unit that is out is with one thread, the others are linked, and all    *)
(* the counters together count the former.                                  *)
UnitsKept == ChainsAre /\ OutsApart /\ OutsAre /\ CountIs
CallsKept == Pooled!Types /\ Pooled!LocksHeld /\ Pooled!CallsRight
PooledInv == part = "pooled" => CallsKept /\ UnitsKept /\ shared

\* The numbers of the assumptions.
LEMMA PoolNumbers ==
  /\ NPools \in Nat /\ NPools > 0 /\ Grow \in Nat /\ Grow > 0 /\ StartPool \in Nat
  /\ Real \in Nat /\ Real > 0 /\ Unit \in Nat /\ Unit # NoSize /\ Starts \subseteq Nat
  /\ Pooled!Pools = 0 .. NPools - 1
  /\ \A n \in Nat : n % NPools \in Pooled!Pools
<1>1. /\ NPools \in Nat \ {0} /\ Grow \in Nat \ {0} /\ StartPool \in Nat
      /\ Starts \subseteq Nat /\ Unit \in Nat /\ Real \in Nat /\ Unit < Real
  BY ConstantsAssumption DEF Pooled!PoolsRight
<1>2. \A n \in Nat : n % NPools \in 0 .. NPools - 1
  BY <1>1
<1>3. QED
  BY <1>1, <1>2 DEF Pooled!Pools, NoSize

\* The counters' sum, now and next.
LEMMA CountedIs ==
  /\ Pooled!Counted = Sums(NPools, refcount)[NPools]
  /\ Pooled!Counted' = Sums(NPools, refcount')[NPools]
BY DEF Pooled!Counted, Sums, IsSum

\* The chains of the next state, with the values of the next state.
LEMMA ChainsNext ==
  ASSUME NEW u, NEW heads, \E c : Chained(u, heads, Pooled!Pools, c), node' = u, bucket' = heads
  PROVE  ChainsAre'
<1>1. PICK c : Chained(u, heads, Pooled!Pools, c)
  OBVIOUS
<1>2. Chained(node', bucket', Pooled!Pools, c)
  BY <1>1
<1>3. Chained(node, bucket, Pooled!Pools, c)'
  BY <1>2
<1>4. QED
  BY <1>3 DEF ChainsAre

\* The first unit of a list is free.
LEMMA HeadIs ==
  ASSUME NEW u, NEW heads, NEW P, NEW c, Chained(u, heads, P, c), NEW p \in P, heads[p] # EndOfList
  PROVE  heads[p] \in FreeOf(u)
<1>1. /\ c[p] \in Seq(FreeOf(u)) /\ Len(c[p]) \in Nat
      /\ heads[p] = IF Len(c[p]) = 0 THEN EndOfList ELSE c[p][1]
      /\ \A i \in 1 .. Len(c[p]) : c[p][i] \in FreeOf(u)
  BY DEF Chained, Linked
<1>2. \A n \in Nat : n # 0 => 1 \in 1 .. n
  OBVIOUS
<1>3. QED
  BY <1>1, <1>2

\* What a step needs to know of the units that are out.
LEMMA OutsFacts ==
  ASSUME UnitsKept
  PROVE  /\ \A t \in Threads : /\ retval[t] \subseteq DOMAIN node \ FreeOf(node)
                               /\ Pooled!Out(t) \subseteq DOMAIN node \ FreeOf(node)
         /\ \A p \in Pooled!Pools : bucket[p] # EndOfList => bucket[p] \in FreeOf(node)
         /\ FreeOf(node) \subseteq DOMAIN node
<1>1. \A t \in Threads : retval[t] \subseteq Pooled!Out(t)
  BY DEF Pooled!Out
<1>2. \A t \in Threads : Pooled!Out(t) \subseteq DOMAIN node \ FreeOf(node)
  BY DEF UnitsKept, OutsAre
<1>3. \A p \in Pooled!Pools : bucket[p] # EndOfList => bucket[p] \in FreeOf(node)
  BY HeadIs DEF UnitsKept, ChainsAre
<1>4. QED
  BY <1>1, <1>2, <1>3 DEF FreeOf

\* The types, one by one.
LEMMA PoolTypes ==
  ASSUME Pooled!Types
  PROVE  /\ key \in Nat /\ b \in Nat /\ Ends(node, b) /\ DOMAIN bucket = Pooled!Pools
         /\ refcount \in [Pooled!Pools -> Int]
         /\ Bucket_l \in [Pooled!Pools -> Threads \cup {NoThread}]
         /\ retval \in [Threads -> SUBSET DOMAIN node]
         /\ pc \in [Threads -> {"ready", "lock to alloc", "lock to free", "take", "taken", "check", "put"}]
         /\ found \in [Threads -> Pooled!Pools] /\ DOMAIN removedU = Threads
BY DEF Pooled!Types, Ends

\* What a step does to the headers and to the memory that is used.
LEMMA PoolGrows ==
  ASSUME CallsKept, UnitsKept, Pooled!Next
  PROVE  b' \in Nat /\ Ends(node', b') /\ DOMAIN node \subseteq DOMAIN node'
<1>1. b \in Nat /\ Ends(node, b)
  BY PoolTypes DEF CallsKept
<1>2. CASE DOMAIN node' = DOMAIN node /\ b' = b
  BY <1>1, <1>2 DEF Ends
<1>3. CASE node' = Pooled!grow(node, EndOfList, b, Grow, Real) /\ b' = b + Grow * Real
  <2>1. DOMAIN node' = DOMAIN node \cup Units(b, Grow, Real)
    <3>1. node' = Grown(node, b, Grow, Real)
      BY <1>3, GrowIs
    <3>2. QED
      BY <3>1 DEF Grown
  <2>2. /\ Grow * Real \in Nat
        /\ \A a \in Units(b, Grow, Real) : a \in Nat /\ a + Real <= b + Grow * Real
    BY <1>1, PoolNumbers, UnitsAre
  <2>3. b' \in Nat /\ b <= b'
    BY <1>1, <1>3, <2>2
  <2>4. \A a \in Units(b, Grow, Real) : a \in Nat /\ a < b'
    BY <1>3, <2>2, <2>3, PoolNumbers
  <2>5. \A a \in DOMAIN node : a \in Nat /\ a < b'
    BY <1>1, <2>3 DEF Ends
  <2>6. QED
    BY <2>1, <2>3, <2>4, <2>5 DEF Ends
<1>4. ASSUME NEW t \in Threads, Pooled!ThreadStep(t)
      PROVE  \/ DOMAIN node' = DOMAIN node /\ b' = b
             \/ node' = Pooled!grow(node, EndOfList, b, Grow, Real) /\ b' = b + Grow * Real
  BY <1>4 DEF Pooled!ThreadStep, Pooled!alloc, Pooled!free, Pooled!Lock, Pooled!Take, Pooled!Unlink,
       Pooled!Check, Pooled!Put, Pooled!Taken, Pooled!Returned
<1>5. Pooled!Ended => node' = node /\ b' = b
  BY DEF Pooled!Ended, Pooled!vars
<1>6. QED
  BY <1>2, <1>3, <1>4, <1>5 DEF Pooled!Next

\* What pb is while a call is under way: in no free list, and nobody's.
LEMMA PbIs ==
  ASSUME CallsKept, UnitsKept, NEW t \in Threads
  PROVE  /\ pc[t] = "taken" => removedU[t] \in FreeOf(node) /\ removedU[t] = bucket[found[t]]
         /\ pc[t] \in {"check", "lock to free", "put"} =>
              removedU[t] \in DOMAIN node \ (FreeOf(node) \cup retval[t])
<1>1. found[t] \in Pooled!Pools
  BY PoolTypes DEF CallsKept
<1>2. /\ pc[t] = "taken" => removedU[t] = bucket[found[t]] /\ removedU[t] # EndOfList
      /\ pc[t] \in {"check", "lock to free", "put"} => removedU[t] \in DOMAIN node \ retval[t]
  BY DEF CallsKept, Pooled!CallsRight
<1>3. pc[t] \in {"check", "lock to free", "put"} => removedU[t] \in Pooled!Out(t)
  BY DEF Pooled!Out
<1>4. QED
  BY <1>1, <1>2, <1>3, OutsFacts

\* Every step keeps the types.
LEMMA PoolTypesNext ==
  ASSUME CallsKept, UnitsKept, Pooled!Next
  PROVE  Pooled!Types'
<1>1. /\ key \in Nat /\ DOMAIN bucket = Pooled!Pools
      /\ refcount \in [Pooled!Pools -> Int]
      /\ Bucket_l \in [Pooled!Pools -> Threads \cup {NoThread}]
      /\ found \in [Threads -> Pooled!Pools] /\ DOMAIN removedU = Threads
  BY PoolTypes DEF CallsKept
<1>2. pc \in [Threads -> {"ready", "lock to alloc", "lock to free", "take", "taken", "check", "put"}]
  BY PoolTypes DEF CallsKept
<1>3. retval \in [Threads -> SUBSET DOMAIN node]
  BY PoolTypes DEF CallsKept
<1>4. b' \in Nat /\ Ends(node', b') /\ DOMAIN node \subseteq DOMAIN node'
  BY PoolGrows
<1>5. \A n \in Nat : n % NPools \in Pooled!Pools
  BY PoolNumbers
<1>6. ASSUME NEW t \in Threads, Pooled!ThreadStep(t)
      PROVE  /\ key' \in Nat /\ DOMAIN bucket' = Pooled!Pools
             /\ refcount' \in [Pooled!Pools -> Int]
             /\ Bucket_l' \in [Pooled!Pools -> Threads \cup {NoThread}]
             /\ found' \in [Threads -> Pooled!Pools] /\ DOMAIN removedU' = Threads
             /\ pc' \in [Threads -> {"ready", "lock to alloc", "lock to free", "take", "taken", "check", "put"}]
             /\ retval' \in [Threads -> SUBSET DOMAIN node]
  <2> DEFINE k == key + 1
             q == k % NPools
             m == [refcount EXCEPT ![found[t]] = @ + 1]
             l == [refcount EXCEPT ![found[t]] = @ - 1]
  <2>9. k \in Nat /\ q \in Pooled!Pools
    <3>1. k \in Nat
      BY <1>1
    <3> HIDE DEF k
    <3>2. QED
      BY <1>5, <3>1
  <2>10. m \in [Pooled!Pools -> Int] /\ l \in [Pooled!Pools -> Int]
    BY <1>1
  <2> HIDE DEF q, k, m, l
  <2>1. CASE Pooled!alloc(t)
    BY <1>1, <1>2, <1>3, <2>9, <2>1 DEF Pooled!alloc, Pooled!TakesTurn, q, k
  <2>2. CASE Pooled!free(t)
    <3>1. /\ key' = k /\ found' = [found EXCEPT ![t] = q] /\ refcount' = refcount
          /\ Bucket_l' = Bucket_l /\ bucket' = bucket
      BY <2>2 DEF Pooled!free, Pooled!TakesTurn, q, k
    <3>2. PICK a \in retval[t] : /\ removedU' = [removedU EXCEPT ![t] = a]
                                 /\ retval' = [retval EXCEPT ![t] = @ \ {a}]
      BY <2>2 DEF Pooled!free
    <3>3. pc' = [pc EXCEPT ![t] = "lock to free"]
      BY <2>2 DEF Pooled!free
    <3>4. retval' \in [Threads -> SUBSET DOMAIN node]
      BY <1>3, <3>2
    <3>5. QED
      BY <1>1, <1>2, <2>9, <3>1, <3>2, <3>3, <3>4
  <2>3. CASE Pooled!Lock(t)
    BY <1>1, <1>2, <1>3, <2>3 DEF Pooled!Lock
  <2>4. CASE Pooled!Take(t)
    BY <1>1, <1>2, <1>3, <2>4 DEF Pooled!Take
  <2>5. CASE Pooled!Unlink(t)
    BY <1>1, <1>2, <1>3, <2>5, <2>10 DEF Pooled!Unlink, m
  <2>6. CASE Pooled!Check(t)
    <3>1. removedU[t] \in DOMAIN node
      BY <2>6, PbIs DEF Pooled!Check
    <3>2. QED
      BY <1>1, <1>2, <1>3, <2>6, <3>1 DEF Pooled!Check
  <2>7. CASE Pooled!Put(t)
    BY <1>1, <1>2, <1>3, <2>7, <2>10 DEF Pooled!Put, l
  <2>8. QED
    BY <1>6, <2>1, <2>2, <2>3, <2>4, <2>5, <2>6, <2>7 DEF Pooled!ThreadStep
<1>7. CASE Pooled!Ended
  BY <1>7 DEF CallsKept, Pooled!Ended, Pooled!vars, Pooled!Types, Pooled!Pools
<1>8. CASE \E t \in Threads : Pooled!ThreadStep(t)
  BY <1>4, <1>6, <1>8 DEF Pooled!Types, Ends
<1>9. QED
  BY <1>7, <1>8 DEF Pooled!Next

\* Every step keeps who holds which lock, and what the calls know: another
\* thread does not have the lock of the pool whose head they read.
LEMMA PoolCallsNext ==
  ASSUME CallsKept, UnitsKept, NEW t \in Threads, Pooled!ThreadStep(t)
  PROVE  (Pooled!LocksHeld /\ Pooled!CallsRight)'
<1> DEFINE Holds(u, p) == Bucket_l[p] = u <=> pc[u] \in {"take", "taken", "put"} /\ found[u] = p
           Knows(u) ==
             /\ pc[u] = "taken" => removedU[u] = bucket[found[u]] /\ removedU[u] # EndOfList
             /\ pc[u] \in {"check", "lock to free", "put"} => removedU[u] \in DOMAIN node \ retval[u]
<1>1. /\ DOMAIN bucket = Pooled!Pools /\ DOMAIN Bucket_l = Pooled!Pools /\ DOMAIN found = Threads
      /\ DOMAIN removedU = Threads /\ DOMAIN pc = Threads /\ DOMAIN retval = Threads
  BY PoolTypes DEF CallsKept
<1>2. /\ \A u \in Threads : found[u] \in Pooled!Pools
      /\ \A p \in Pooled!Pools : Bucket_l[p] \in Threads \cup {NoThread}
      /\ \A u \in Threads : retval[u] \subseteq DOMAIN node
  BY PoolTypes DEF CallsKept
<1>3. \A u \in Threads, p \in Pooled!Pools : Holds(u, p)
  BY DEF CallsKept, Pooled!LocksHeld
<1>4. \A u \in Threads : Knows(u)
  BY DEF CallsKept, Pooled!CallsRight
<1>5. NoThread \notin Threads
  BY TableAssumption
<1>6. DOMAIN node \subseteq DOMAIN node' /\ b # EndOfList
  <2>1. b \in Nat
    BY PoolTypes DEF CallsKept
  <2>2. Pooled!Next
    BY DEF Pooled!Next
  <2>3. QED
    BY <2>1, <2>2, PoolGrows DEF EndOfList
<1>7. ASSUME NEW u \in Threads, NEW p \in Pooled!Pools
      PROVE  Holds(u, p)'
  <2>1. Holds(u, p) /\ Holds(t, p) /\ Holds(t, found[t]) /\ Holds(u, found[t])
    BY <1>2, <1>3
  <2>2. CASE Pooled!alloc(t) \/ Pooled!free(t)
    BY <1>1, <2>1, <2>2 DEF Pooled!alloc, Pooled!free, Pooled!TakesTurn
  <2>3. CASE Pooled!Lock(t)
    BY <1>1, <1>2, <1>5, <2>1, <2>3 DEF Pooled!Lock, Pooled!LockFree
  <2>4. CASE Pooled!Take(t) \/ Pooled!Check(t)
    BY <1>1, <2>1, <2>4 DEF Pooled!Take, Pooled!Check
  <2>5. CASE Pooled!Unlink(t) \/ Pooled!Put(t)
    BY <1>1, <1>2, <1>5, <2>1, <2>5 DEF Pooled!Unlink, Pooled!Put
  <2>6. QED
    BY <2>2, <2>3, <2>4, <2>5 DEF Pooled!ThreadStep
<1>8. ASSUME NEW u \in Threads
      PROVE  Knows(u)'
  <2>1. /\ Knows(u) /\ Knows(t) /\ Holds(t, found[t]) /\ Holds(u, found[t])
        /\ found[u] \in Pooled!Pools /\ found[t] \in Pooled!Pools
    BY <1>2, <1>3, <1>4
  <2>2. CASE Pooled!alloc(t)
    BY <1>1, <2>1, <2>2 DEF Pooled!alloc, Pooled!TakesTurn
  <2>3. CASE Pooled!free(t)
    <3>1. PICK a \in retval[t] : /\ removedU' = [removedU EXCEPT ![t] = a]
                                 /\ retval' = [retval EXCEPT ![t] = @ \ {a}]
      BY <2>3 DEF Pooled!free
    <3>2. pc' = [pc EXCEPT ![t] = "lock to free"] /\ node' = node /\ bucket' = bucket
      BY <2>3 DEF Pooled!free
    <3>3. \A v \in Threads \ {t} : found'[v] = found[v]
      BY <1>1, <2>3 DEF Pooled!free, Pooled!TakesTurn
    <3>4. CASE u = t
      BY <1>1, <1>2, <3>1, <3>2, <3>4
    <3>5. CASE u # t
      BY <1>1, <2>1, <3>1, <3>2, <3>3, <3>5
    <3>6. QED
      BY <3>4, <3>5
  <2>4. CASE Pooled!Lock(t)
    BY <1>1, <2>1, <2>4 DEF Pooled!Lock
  <2>5. CASE Pooled!Take(t)
    BY <1>1, <1>6, <2>1, <2>5 DEF Pooled!Take
  <2>6. CASE Pooled!Unlink(t)
    <3>1. removedU[t] \in DOMAIN node \ retval[t]
      <4>1. removedU[t] \in FreeOf(node)
        BY <2>6, PbIs DEF Pooled!Unlink
      <4>2. QED
        BY <4>1, OutsFacts
    <3>2. QED
      BY <1>1, <1>6, <2>1, <2>6, <3>1 DEF Pooled!Unlink
  <2>7. CASE Pooled!Check(t)
    BY <1>1, <2>1, <2>7 DEF Pooled!Check
  <2>8. CASE Pooled!Put(t)
    BY <1>1, <1>6, <2>1, <2>8 DEF Pooled!Put
  <2>9. QED
    BY <2>2, <2>3, <2>4, <2>5, <2>6, <2>7, <2>8 DEF Pooled!ThreadStep
<1>9. QED
  BY <1>7, <1>8 DEF Pooled!LocksHeld, Pooled!CallsRight, Pooled!Pools

\* All three.
LEMMA CallsStayKept ==
  ASSUME CallsKept, UnitsKept, Pooled!Next
  PROVE  CallsKept'
<1>1. Pooled!Types'
  BY PoolTypesNext
<1>2. CASE \E t \in Threads : Pooled!ThreadStep(t)
  BY <1>1, <1>2, PoolCallsNext DEF CallsKept
<1>3. CASE Pooled!Ended
  <2>1. UNCHANGED <<pc, Bucket_l, found, removedU, bucket, node, retval>>
    BY <1>3 DEF Pooled!Ended, Pooled!vars
  <2>2. Pooled!LocksHeld /\ Pooled!CallsRight
    BY DEF CallsKept
  <2>3. Pooled!LocksHeld'
    BY <2>1, <2>2 DEF Pooled!LocksHeld
  <2>4. Pooled!CallsRight'
    BY <2>1, <2>2 DEF Pooled!CallsRight
  <2>5. QED
    BY <1>1, <2>3, <2>4 DEF CallsKept
<1>4. QED
  BY <1>2, <1>3 DEF Pooled!Next

\* A step that moves no unit.
LEMMA OutsStay ==
  ASSUME UnitsKept, DOMAIN node' \ FreeOf(node') = DOMAIN node \ FreeOf(node), refcount' = refcount,
         IsFiniteSet(DOMAIN node'), ChainsAre', \A t \in Threads : Pooled!Out(t)' = Pooled!Out(t)
  PROVE  UnitsKept'
<1>1. OutsApart'
  BY DEF UnitsKept, OutsApart
<1>2. OutsAre'
  <2>1. \A a : (\E t \in Threads : a \in Pooled!Out(t)') <=> a \in DOMAIN node' \ FreeOf(node')
    BY DEF UnitsKept, OutsAre
  <2>2. QED
    BY <2>1 DEF OutsAre, FreeOf, NoSize
<1>3. CountIs'
  <2>1. Pooled!Counted' = Pooled!Counted
    BY CountedIs
  <2>2. Pooled!Counted' = Cardinality(DOMAIN node' \ FreeOf(node'))
    BY <2>1 DEF UnitsKept, CountIs
  <2>3. QED
    BY <2>2 DEF CountIs, FreeOf, NoSize
<1>4. QED
  BY <1>1, <1>2, <1>3 DEF UnitsKept

\* Who has which unit, if the others have what they had.
LEMMA OutsMove ==
  ASSUME UnitsKept, NEW t \in Threads, NEW a,
         \A u \in Threads \ {t} : Pooled!Out(u)' = Pooled!Out(u),
         \/ /\ Pooled!Out(t)' = Pooled!Out(t) \cup {a} /\ a \in FreeOf(node)
            /\ DOMAIN node' \ FreeOf(node') = (DOMAIN node \ FreeOf(node)) \cup {a}
         \/ /\ Pooled!Out(t)' = Pooled!Out(t) \ {a} /\ a \in Pooled!Out(t)
            /\ DOMAIN node' \ FreeOf(node') = (DOMAIN node \ FreeOf(node)) \ {a}
  PROVE  OutsApart' /\ OutsAre'
<1>1. \A u \in Threads : Pooled!Out(u) \subseteq DOMAIN node \ FreeOf(node)
  BY DEF UnitsKept, OutsAre
<1>2. \A u, v \in Threads : u # v => Pooled!Out(u) \cap Pooled!Out(v) = {}
  BY DEF UnitsKept, OutsApart
<1>3. \A x : x \in DOMAIN node \ FreeOf(node) => \E u \in Threads : x \in Pooled!Out(u)
  BY DEF UnitsKept, OutsAre
<1>4. \A u, v \in Threads : u # v => Pooled!Out(u)' \cap Pooled!Out(v)' = {}
  BY <1>1, <1>2
<1>5. ASSUME NEW x
      PROVE  (\E u \in Threads : x \in Pooled!Out(u)') <=> x \in DOMAIN node' \ FreeOf(node')
  <2>1. CASE /\ Pooled!Out(t)' = Pooled!Out(t) \cup {a} /\ a \in FreeOf(node)
             /\ DOMAIN node' \ FreeOf(node') = (DOMAIN node \ FreeOf(node)) \cup {a}
    <3>1. CASE x = a
      BY <2>1, <3>1
    <3>2. CASE x # a
      <4>1. \A u \in Threads : x \in Pooled!Out(u)' <=> x \in Pooled!Out(u)
        BY <2>1, <3>2
      <4>2. x \in DOMAIN node' \ FreeOf(node') <=> x \in DOMAIN node \ FreeOf(node)
        BY <2>1, <3>2
      <4>3. QED
        BY <1>1, <1>3, <4>1, <4>2
    <3>3. QED
      BY <3>1, <3>2
  <2>2. CASE /\ Pooled!Out(t)' = Pooled!Out(t) \ {a} /\ a \in Pooled!Out(t)
             /\ DOMAIN node' \ FreeOf(node') = (DOMAIN node \ FreeOf(node)) \ {a}
    <3>1. CASE x = a
      <4>1. \A u \in Threads : a \notin Pooled!Out(u)'
        BY <1>2, <2>2
      <4>2. QED
        BY <2>2, <3>1, <4>1
    <3>2. CASE x # a
      <4>1. \A u \in Threads : x \in Pooled!Out(u)' <=> x \in Pooled!Out(u)
        BY <2>2, <3>2
      <4>2. x \in DOMAIN node' \ FreeOf(node') <=> x \in DOMAIN node \ FreeOf(node)
        BY <2>2, <3>2
      <4>3. QED
        BY <1>1, <1>3, <4>1, <4>2
    <3>3. QED
      BY <3>1, <3>2
  <2>3. QED
    BY <2>1, <2>2
<1>6. OutsApart'
  BY <1>4 DEF OutsApart
<1>7. QED
  BY <1>5, <1>6 DEF OutsAre, FreeOf, NoSize

\* A thread takes the first unit of its pool.
LEMMA UnlinkKeeps ==
  ASSUME CallsKept, UnitsKept, NEW t \in Threads, Pooled!Unlink(t)
  PROVE  UnitsKept'
<1> DEFINE p == found[t]
           a == bucket[p]
           v == Took(node, a, Unit)
           out == DOMAIN node \ FreeOf(node)
<1>1. p \in Pooled!Pools /\ refcount \in [Pooled!Pools -> Int] /\ DOMAIN pc = Threads
  BY PoolTypes DEF CallsKept
<1>2. pc[t] = "taken" /\ removedU[t] = a /\ a \in FreeOf(node) /\ a # EndOfList
  <2>1. pc[t] = "taken"
    BY DEF Pooled!Unlink
  <2>2. QED
    BY <2>1, PbIs DEF CallsKept, Pooled!CallsRight
<1>3. /\ node' = v /\ bucket' = Pointed(bucket, p, node[a].next)
      /\ refcount' = [refcount EXCEPT ![p] = @ + 1] /\ pc' = [pc EXCEPT ![t] = "check"]
      /\ retval' = retval /\ removedU' = removedU
  BY <1>2 DEF Pooled!Unlink, Pooled!Taken, Took, Pointed
<1>4. PICK c : Chained(node, bucket, Pooled!Pools, c)
  BY DEF UnitsKept, ChainsAre
<1>5. Popped(node, v, bucket, Pooled!Pools, c, p)
  BY <1>1, <1>2, <1>4, PopIs, PoolNumbers
<1>6. \E d : Chained(v, Pointed(bucket, p, node[a].next), Pooled!Pools, d)
  BY <1>5 DEF Popped
<1>7. ChainsAre'
  BY <1>3, <1>6, ChainsNext
<1>8. FreeOf(node') = FreeOf(node) \ {a} /\ DOMAIN node' = DOMAIN node
  BY <1>3, <1>5 DEF Popped, Took
<1>9. DOMAIN node' \ FreeOf(node') = out \cup {a} /\ a \notin out
  BY <1>2, <1>8 DEF FreeOf
<1>10. /\ Pooled!Out(t)' = Pooled!Out(t) \cup {a}
       /\ \A u \in Threads \ {t} : Pooled!Out(u)' = Pooled!Out(u)
  BY <1>1, <1>2, <1>3 DEF Pooled!Out
<1>11. OutsApart' /\ OutsAre'
  BY <1>2, <1>9, <1>10, OutsMove
<1>12. CountIs'
  <2>1. IsFiniteSet(DOMAIN node) /\ Pooled!Counted = Cardinality(out)
    BY DEF UnitsKept, CountIs
  <2>2. Pooled!Counted' = Pooled!Counted + 1
    <3>1. Sums(NPools, [refcount EXCEPT ![p] = @ + 1])[NPools] = Sums(NPools, refcount)[NPools] + 1
      <4>1. /\ refcount \in [0 .. NPools - 1 -> Int] /\ p \in 0 .. NPools - 1
            /\ NPools \in Nat /\ 1 \in Int
        BY <1>1, PoolNumbers
      <4> HIDE DEF p
      <4>2. QED
        BY <4>1, SumsChange
    <3>2. QED
      BY <1>3, <3>1, CountedIs
  <2>3. IsFiniteSet(out)
    BY <2>1, FS_Subset
  <2> HIDE DEF out
  <2>4. Cardinality(out \cup {a}) = Cardinality(out) + 1
    BY <1>9, <2>3, FS_AddElement
  <2>5. Pooled!Counted' = Cardinality(DOMAIN node' \ FreeOf(node')) /\ IsFiniteSet(DOMAIN node')
    BY <1>8, <1>9, <2>1, <2>2, <2>4
  <2>6. QED
    BY <2>5 DEF CountIs, FreeOf, NoSize
<1>13. QED
  BY <1>7, <1>11, <1>12 DEF UnitsKept

\* A thread puts its unit before those of its pool.
LEMMA PutKeeps ==
  ASSUME CallsKept, UnitsKept, NEW t \in Threads, Pooled!Put(t)
  PROVE  UnitsKept'
<1> DEFINE p == found[t]
           a == removedU[t]
           v == Gave(node, a, bucket[p])
           out == DOMAIN node \ FreeOf(node)
<1>1. /\ p \in Pooled!Pools /\ refcount \in [Pooled!Pools -> Int] /\ DOMAIN pc = Threads
      /\ Ends(node, b)
  BY PoolTypes DEF CallsKept
<1>2. pc[t] = "put" /\ a \in out /\ a \notin retval[t] /\ a \in Nat
  <2>1. pc[t] = "put"
    BY DEF Pooled!Put
  <2>2. QED
    BY <1>1, <2>1, PbIs DEF Ends
<1>3. /\ node' = v /\ bucket' = Pointed(bucket, p, a)
      /\ refcount' = [refcount EXCEPT ![p] = @ - 1] /\ pc' = [pc EXCEPT ![t] = "ready"]
      /\ retval' = retval /\ removedU' = removedU
  BY <1>2 DEF Pooled!Put, Pooled!Returned, Gave, Pointed
<1>4. PICK c : Chained(node, bucket, Pooled!Pools, c)
  BY DEF UnitsKept, ChainsAre
<1>5. Pushed(node, v, bucket, Pooled!Pools, c, p, a)
  <2>1. a \in DOMAIN node /\ a \notin FreeOf(node)
    BY <1>2
  <2>2. QED
    BY <1>1, <1>2, <1>4, <2>1, PushIs
<1>6. \E d : Chained(v, Pointed(bucket, p, a), Pooled!Pools, d)
  BY <1>5 DEF Pushed
<1>7. ChainsAre'
  BY <1>3, <1>6, ChainsNext
<1>8. FreeOf(node') = FreeOf(node) \cup {a} /\ DOMAIN node' = DOMAIN node
  BY <1>3, <1>5 DEF Pushed, Gave
<1>9. DOMAIN node' \ FreeOf(node') = out \ {a}
  BY <1>8
<1>10. /\ Pooled!Out(t)' = Pooled!Out(t) \ {a} /\ a \in Pooled!Out(t)
       /\ \A u \in Threads \ {t} : Pooled!Out(u)' = Pooled!Out(u)
  BY <1>1, <1>2, <1>3 DEF Pooled!Out
<1>11. OutsApart' /\ OutsAre'
  BY <1>9, <1>10, OutsMove
<1>12. CountIs'
  <2>1. IsFiniteSet(DOMAIN node) /\ Pooled!Counted = Cardinality(out)
    BY DEF UnitsKept, CountIs
  <2>2. Pooled!Counted' = Pooled!Counted - 1
    <3>1. Sums(NPools, [refcount EXCEPT ![p] = @ + (-1)])[NPools]
            = Sums(NPools, refcount)[NPools] + (-1)
      <4>1. /\ refcount \in [0 .. NPools - 1 -> Int] /\ p \in 0 .. NPools - 1
            /\ NPools \in Nat /\ (-1) \in Int
        BY <1>1, PoolNumbers
      <4> HIDE DEF p
      <4>2. QED
        BY <4>1, SumsChange
    <3>2. refcount' = [refcount EXCEPT ![p] = @ + (-1)]
      BY <1>1, <1>3
    <3>3. Pooled!Counted' = Pooled!Counted + (-1)
      BY <3>1, <3>2, CountedIs
    <3>4. Pooled!Counted \in Int
      <4>1. NPools \in 0 .. NPools
        BY PoolNumbers
      <4>2. QED
        BY <1>1, <4>1, CountedIs, SumsInt, PoolNumbers
    <3>5. QED
      BY <3>3, <3>4
  <2>3. IsFiniteSet(out)
    BY <2>1, FS_Subset
  <2>4. a \in out
    BY <1>2
  <2> HIDE DEF out
  <2>5. Cardinality(out \ {a}) = Cardinality(out) - 1
    BY <2>3, <2>4, FS_RemoveElement
  <2>6. Pooled!Counted' = Cardinality(DOMAIN node' \ FreeOf(node')) /\ IsFiniteSet(DOMAIN node')
    BY <1>8, <1>9, <2>1, <2>2, <2>5
  <2>7. QED
    BY <2>6 DEF CountIs, FreeOf, NoSize
<1>13. QED
  BY <1>7, <1>11, <1>12 DEF UnitsKept

\* A thread takes note of the first unit, of a new batch if there was none.
LEMMA TakeKeeps ==
  ASSUME CallsKept, UnitsKept, NEW t \in Threads, Pooled!Take(t)
  PROVE  UnitsKept'
<1> DEFINE p == found[t]
           U == Units(b, Grow, Real)
           v == Grown(node, b, Grow, Real)
<1>1. p \in Pooled!Pools /\ DOMAIN pc = Threads /\ b \in Nat /\ Ends(node, b) /\ DOMAIN removedU = Threads
  BY PoolTypes DEF CallsKept
<1>2. \A u \in Threads : Pooled!Out(u)' = Pooled!Out(u)
  BY <1>1 DEF Pooled!Take, Pooled!Out
<1>3. IsFiniteSet(DOMAIN node)
  BY DEF UnitsKept, CountIs
<1>4. refcount' = refcount
  BY DEF Pooled!Take
<1>5. CASE node' = node /\ bucket' = bucket
  <2>1. ChainsAre'
    BY <1>5, ChainsNext DEF UnitsKept, ChainsAre
  <2>2. QED
    BY <1>2, <1>3, <1>4, <1>5, <2>1, OutsStay
<1>6. CASE /\ bucket[p] = EndOfList /\ node' = Pooled!grow(node, EndOfList, b, Grow, Real)
           /\ bucket' = [bucket EXCEPT ![p] = b]
  <2>1. node' = v /\ bucket' = Pointed(bucket, p, b)
    BY <1>6, GrowIs DEF Pointed
  <2>2. PICK c : Chained(node, bucket, Pooled!Pools, c)
    BY DEF UnitsKept, ChainsAre
  <2>3. Batched(node, v, bucket, Pooled!Pools, c, p, b, U)
    BY <1>1, <1>6, <2>2, BatchIs, PoolNumbers
  <2>4. \E d : Chained(v, Pointed(bucket, p, b), Pooled!Pools, d)
    BY <2>3 DEF Batched
  <2>5. ChainsAre'
    BY <2>1, <2>4, ChainsNext
  <2>6. DOMAIN v = DOMAIN node \cup U /\ DOMAIN node \cap U = {} /\ FreeOf(v) = FreeOf(node) \cup U
    BY <2>3 DEF Batched
  <2>7. IsFiniteSet(U)
    BY <1>1, UnitsAre, PoolNumbers
  <2> HIDE DEF U, v
  <2>8. IsFiniteSet(DOMAIN node')
    BY <1>3, <2>1, <2>6, <2>7, FS_Union
  <2>9. DOMAIN node' \ FreeOf(node') = DOMAIN node \ FreeOf(node)
    BY <2>1, <2>6
  <2>10. QED
    BY <1>2, <1>4, <2>5, <2>8, <2>9, OutsStay
<1>7. QED
  BY <1>5, <1>6 DEF Pooled!Take

\* Every step keeps every unit in one place, and no assertion fails.
LEMMA PoolNext ==
  ASSUME CallsKept, UnitsKept, shared, Pooled!Next
  PROVE  UnitsKept' /\ shared'
<1>1. /\ DOMAIN pc = Threads /\ DOMAIN retval = Threads /\ DOMAIN removedU = Threads
  BY PoolTypes DEF CallsKept
<1>2. IsFiniteSet(DOMAIN node) /\ ChainsAre
  BY DEF UnitsKept, CountIs
<1>3. ASSUME node' = node, bucket' = bucket, refcount' = refcount,
             \A u \in Threads : Pooled!Out(u)' = Pooled!Out(u)
      PROVE  UnitsKept'
  <2>1. ChainsAre'
    BY <1>2, <1>3, ChainsNext DEF ChainsAre
  <2>2. QED
    BY <1>2, <1>3, <2>1, OutsStay
<1>4. ASSUME NEW t \in Threads, Pooled!alloc(t)
      PROVE  UnitsKept' /\ shared'
  <2>1. \A u \in Threads : Pooled!Out(u)' = Pooled!Out(u)
    BY <1>1, <1>4 DEF Pooled!alloc, Pooled!TakesTurn, Pooled!Out
  <2>2. QED
    BY <1>3, <1>4, <2>1 DEF Pooled!alloc
<1>5. ASSUME NEW t \in Threads, Pooled!free(t)
      PROVE  UnitsKept' /\ shared'
  <2>1. PICK a \in retval[t] : /\ removedU' = [removedU EXCEPT ![t] = a]
                               /\ retval' = [retval EXCEPT ![t] = @ \ {a}]
                               /\ shared' = (shared /\ Pooled!Checked(a))
    BY <1>5 DEF Pooled!free
  <2>2. pc[t] = "ready" /\ pc' = [pc EXCEPT ![t] = "lock to free"]
    BY <1>5 DEF Pooled!free
  <2>3. \A u \in Threads : Pooled!Out(u)' = Pooled!Out(u)
    BY <1>1, <2>1, <2>2 DEF Pooled!Out
  <2>4. shared'
    <3>1. a \in DOMAIN node \ FreeOf(node)
      BY <2>1, OutsFacts
    <3>2. Pooled!Checked(a)
      BY <3>1 DEF Pooled!Checked, FreeOf
    <3>3. QED
      BY <2>1, <3>2
  <2>5. QED
    BY <1>3, <1>5, <2>3, <2>4 DEF Pooled!free
<1>6. ASSUME NEW t \in Threads, Pooled!Lock(t)
      PROVE  UnitsKept' /\ shared'
  <2>1. \A u \in Threads : Pooled!Out(u)' = Pooled!Out(u)
    BY <1>1, <1>6 DEF Pooled!Lock, Pooled!Out
  <2>2. QED
    BY <1>3, <1>6, <2>1 DEF Pooled!Lock
<1>7. ASSUME NEW t \in Threads, Pooled!Check(t)
      PROVE  UnitsKept' /\ shared'
  <2>1. \A u \in Threads : Pooled!Out(u)' = Pooled!Out(u)
    BY <1>1, <1>7 DEF Pooled!Check, Pooled!Out
  <2>2. shared'
    <3>1. removedU[t] \in DOMAIN node \ FreeOf(node)
      BY <1>7, PbIs DEF Pooled!Check
    <3>2. Pooled!Checked(removedU[t])
      BY <3>1 DEF Pooled!Checked, FreeOf
    <3>3. QED
      BY <1>7, <3>2 DEF Pooled!Check
  <2>3. QED
    BY <1>3, <1>7, <2>1, <2>2 DEF Pooled!Check
<1>8. ASSUME NEW t \in Threads, Pooled!Take(t) \/ Pooled!Unlink(t) \/ Pooled!Put(t)
      PROVE  UnitsKept' /\ shared'
  <2>1. shared' = shared
    BY <1>8 DEF Pooled!Take, Pooled!Unlink, Pooled!Put
  <2>2. QED
    BY <1>8, <2>1, TakeKeeps, UnlinkKeeps, PutKeeps
<1>9. CASE Pooled!Ended
  <2>1. \A u \in Threads : Pooled!Out(u)' = Pooled!Out(u)
    BY <1>9 DEF Pooled!Ended, Pooled!vars, Pooled!Out
  <2>2. QED
    BY <1>3, <1>9, <2>1 DEF Pooled!Ended, Pooled!vars
<1>10. QED
  BY <1>4, <1>5, <1>6, <1>7, <1>8, <1>9 DEF Pooled!Next, Pooled!ThreadStep

\* A pool ends where the next one begins.
LEMMA BeginsAre ==
  ASSUME NEW p \in Nat, NEW q \in Nat, p < q
  PROVE  /\ Pooled!Begins(p) \in Nat /\ Pooled!Begins(q) \in Nat
         /\ Pooled!Begins(p) + StartPool * Real <= Pooled!Begins(q)
<1> DEFINE S == StartPool * Real
<1>1. S \in Nat
  BY PoolNumbers, ProductIs
<1>2. p * StartPool * Real = p * S /\ q * StartPool * Real = q * S
  BY PoolNumbers
<1> HIDE DEF S
<1>3. p * S \in Nat /\ q * S \in Nat /\ p * S + S <= q * S
  BY <1>1, ProductIs
<1>4. Pooled!Begins(p) = 1 + p * S /\ Pooled!Begins(q) = 1 + q * S
  BY <1>2 DEF Pooled!Begins
<1>5. QED
  BY <1>1, <1>3, <1>4 DEF S

\* The first units of a pool.
Firsts(p) == Units(Pooled!Begins(p), StartPool, Real)

\* They are no other pool's, and lie below brk.
LEMMA FirstsAre ==
  ASSUME NEW p \in Pooled!Pools
  PROVE  /\ Pooled!Begins(p) \in Nat /\ IsFiniteSet(Firsts(p))
         /\ Pooled!Carved(Pooled!Begins(p), StartPool, Real) = Firsts(p)
         /\ \A a \in Firsts(p) : a \in Nat /\ a < Pooled!Begins(NPools)
         /\ \A q \in Pooled!Pools : p # q => Firsts(p) \cap Firsts(q) = {}
<1>1. \A q \in Pooled!Pools : q \in Nat /\ q < NPools
  BY PoolNumbers
<1>2. NPools \in Nat
  BY PoolNumbers
<1>3. \A q \in Pooled!Pools : /\ Pooled!Begins(q) \in Nat /\ Pooled!Begins(NPools) \in Nat
                              /\ Pooled!Begins(q) + StartPool * Real <= Pooled!Begins(NPools)
  BY <1>1, <1>2, BeginsAre
<1>4. \A q \in Pooled!Pools :
        /\ IsFiniteSet(Firsts(q))
        /\ \A a \in Firsts(q) : a \in Nat /\ Pooled!Begins(q) <= a
                                /\ a + Real <= Pooled!Begins(q) + StartPool * Real
  BY <1>3, UnitsAre, PoolNumbers DEF Firsts
<1>5. StartPool * Real \in Nat
  BY PoolNumbers, ProductIs
<1>6. ASSUME NEW q \in Pooled!Pools, NEW r \in Pooled!Pools, q < r
      PROVE  Firsts(q) \cap Firsts(r) = {}
  <2>1. Pooled!Begins(q) + StartPool * Real <= Pooled!Begins(r)
    BY <1>1, <1>6, BeginsAre
  <2>2. SUFFICES ASSUME NEW a \in Firsts(q), a \in Firsts(r)
                 PROVE  FALSE
    OBVIOUS
  <2>3. /\ a \in Nat /\ Pooled!Begins(r) <= a /\ a + Real <= Pooled!Begins(q) + StartPool * Real
        /\ Pooled!Begins(q) \in Nat /\ Pooled!Begins(r) \in Nat
    BY <1>3, <1>4, <2>2
  <2>4. QED
    BY <1>5, <2>1, <2>3, PoolNumbers
<1>7. \A q \in Pooled!Pools : p # q => Firsts(p) \cap Firsts(q) = {}
  <2>1. \A q \in Pooled!Pools : p # q => p < q \/ q < p
    BY <1>1
  <2>2. QED
    BY <1>6, <2>1
<1>8. \A a \in Firsts(p) : a \in Nat /\ a < Pooled!Begins(NPools)
  <2>1. TAKE a \in Firsts(p)
  <2>2. /\ a \in Nat /\ a + Real <= Pooled!Begins(p) + StartPool * Real
        /\ Pooled!Begins(p) \in Nat /\ Pooled!Begins(NPools) \in Nat
        /\ Pooled!Begins(p) + StartPool * Real <= Pooled!Begins(NPools)
    BY <1>3, <1>4
  <2>3. QED
    BY <1>5, <2>2, PoolNumbers
<1>9. Pooled!Carved(Pooled!Begins(p), StartPool, Real) = Firsts(p)
  BY DEF Pooled!Carved, Firsts, Units
<1>10. QED
  BY <1>3, <1>4, <1>7, <1>8, <1>9

\* At first the units of every pool are linked.
LEMMA PoolInit ==
  ASSUME Pooled!Init
  PROVE  CallsKept /\ UnitsKept /\ shared
<1> DEFINE all == UNION {Firsts(p) : p \in Pooled!Pools}
           first(p) == IF StartPool = 0 THEN EndOfList ELSE Pooled!Begins(p)
<1>1. /\ key \in Starts
      /\ bucket = [p \in Pooled!Pools |-> first(p)]
      /\ refcount = [p \in Pooled!Pools |-> 0]
      /\ Bucket_l = [p \in Pooled!Pools |-> NoThread]
      /\ b = Pooled!Begins(NPools)
      /\ retval = [t \in Threads |-> {}] /\ pc = [t \in Threads |-> "ready"]
      /\ found = [t \in Threads |-> 0] /\ removedU = [t \in Threads |-> 0] /\ shared = TRUE
  BY DEF Pooled!Init
<1>2. all = UNION {Pooled!Carved(Pooled!Begins(p), StartPool, Real) : p \in Pooled!Pools}
  BY FirstsAre
<1>3. DOMAIN node = all
  BY <1>2 DEF Pooled!Init
<1>4. ASSUME NEW p \in Pooled!Pools, NEW a \in Firsts(p)
      PROVE  /\ a \in DOMAIN node /\ node[a].allocated = NoSize
             /\ node[a].next = IF a = Pooled!Begins(p) + (StartPool - 1) * Real THEN EndOfList ELSE a + Real
  <2> DEFINE poolOf == CHOOSE q \in Pooled!Pools : a \in Pooled!Carved(Pooled!Begins(q), StartPool, Real)
  <2>1. a \in Pooled!Carved(Pooled!Begins(p), StartPool, Real)
    BY FirstsAre
  <2>2. \A q \in Pooled!Pools : a \in Pooled!Carved(Pooled!Begins(q), StartPool, Real) => q = p
    BY FirstsAre
  <2>3. poolOf = p
    BY <2>1, <2>2
  <2>4. node[a] = Pooled!grow(<<>>, EndOfList, Pooled!Begins(poolOf), StartPool, Real)[a]
    BY <1>2 DEF Pooled!Init
  <2> HIDE DEF poolOf
  <2>5. node[a] = Grown(<<>>, Pooled!Begins(p), StartPool, Real)[a]
    BY <2>3, <2>4, GrowIs
  <2>6. DOMAIN <<>> = {}
    OBVIOUS
  <2>7. node[a] = [next |-> IF a = Pooled!Begins(p) + (StartPool - 1) * Real THEN EndOfList ELSE a + Real,
                   allocated |-> NoSize]
    BY <2>5, <2>6 DEF Grown, Firsts
  <2>8. QED
    BY <1>3, <2>7
<1>5. FreeOf(node) = DOMAIN node
  BY <1>3, <1>4 DEF FreeOf
<1>6. IsFiniteSet(DOMAIN node)
  <2> DEFINE I == 0 .. NPools - 1
             f == [p \in I |-> Firsts(p)]
  <2>1. IsFiniteSet(I) /\ I = Pooled!Pools
    BY FS_Interval, PoolNumbers
  <2>2. f \in Surjection(I, {Firsts(p) : p \in Pooled!Pools})
    BY <2>1 DEF Surjection
  <2> HIDE DEF f, I
  <2>3. IsFiniteSet({Firsts(p) : p \in Pooled!Pools})
    BY <2>1, <2>2, FS_Surjection
  <2>4. \A T \in {Firsts(p) : p \in Pooled!Pools} : IsFiniteSet(T)
    BY FirstsAre
  <2>5. QED
    BY <1>3, <2>3, <2>4, FS_UNION
<1>7. ChainsAre
  <2> DEFINE IsChain(p, s) == Range(s) = Firsts(p) /\ Linked(node, first(p), s)
             c == [p \in Pooled!Pools |-> CHOOSE s : IsChain(p, s)]
  <2>1. ASSUME NEW p \in Pooled!Pools
        PROVE  \E s : IsChain(p, s)
    <3>1. Pooled!Begins(p) \in Nat
      BY FirstsAre
    <3>2. \A a \in Units(Pooled!Begins(p), StartPool, Real) :
            /\ a \in DOMAIN node /\ node[a].allocated = NoSize
            /\ node[a].next = IF a = Pooled!Begins(p) + (StartPool - 1) * Real THEN EndOfList ELSE a + Real
      BY <1>4 DEF Firsts
    <3>3. QED
      BY <3>1, <3>2, UnitsLinked, PoolNumbers DEF Firsts
  <2> HIDE DEF IsChain
  <2>2. \A p \in Pooled!Pools : IsChain(p, c[p])
    BY <2>1
  <2>3. DOMAIN c = Pooled!Pools
    OBVIOUS
  <2> HIDE DEF c
  <2>4. \A p \in Pooled!Pools : Range(c[p]) = Firsts(p) /\ Linked(node, bucket[p], c[p])
    BY <1>1, <2>2 DEF IsChain
  <2>5. \A p, q \in Pooled!Pools : p # q => Range(c[p]) \cap Range(c[q]) = {}
    BY <2>4, FirstsAre
  <2>6. \A a \in FreeOf(node) : a \in Nat /\ \E p \in Pooled!Pools : a \in Range(c[p])
    BY <1>3, <1>5, <2>4, FirstsAre
  <2>7. DOMAIN bucket = Pooled!Pools
    BY <1>1
  <2>8. QED
    BY <2>3, <2>4, <2>5, <2>6, <2>7 DEF ChainsAre, Chained
<1>8. \A t \in Threads : Pooled!Out(t) = {}
  BY <1>1 DEF Pooled!Out
<1>9. OutsApart /\ OutsAre
  BY <1>5, <1>8 DEF OutsApart, OutsAre
<1>10. CountIs
  <2>1. DOMAIN node \ FreeOf(node) = {}
    BY <1>5
  <2>2. Cardinality(DOMAIN node \ FreeOf(node)) = 0
    BY <2>1, FS_EmptySet
  <2>3. refcount \in [0 .. NPools - 1 -> Int] /\ \A n \in 0 .. NPools - 1 : refcount[n] = 0
    BY <1>1, PoolNumbers
  <2>4. Sums(NPools, refcount)[NPools] = 0
    BY <2>3, SumsInt, PoolNumbers
  <2>5. QED
    BY <1>6, <2>2, <2>4, CountedIs DEF CountIs
<1>11. CallsKept
  <2>1. key \in Nat /\ 0 \in Pooled!Pools /\ NoThread \notin Threads
    BY <1>1, PoolNumbers, TableAssumption
  <2>2. b \in Nat
    <3>1. 0 \in Pooled!Pools /\ 0 < NPools /\ 0 \in Nat /\ NPools \in Nat
      BY PoolNumbers
    <3>2. QED
      BY <1>1, <3>1, BeginsAre
  <2>3. \A a \in DOMAIN node : a \in Nat /\ a < b
    BY <1>1, <1>3, FirstsAre
  <2>4. Pooled!Types
    BY <1>1, <2>1, <2>2, <2>3 DEF Pooled!Types
  <2>5. Pooled!LocksHeld /\ Pooled!CallsRight
    BY <1>1, <2>1 DEF Pooled!LocksHeld, Pooled!CallsRight
  <2>6. QED
    BY <2>4, <2>5 DEF CallsKept
<1>12. QED
  BY <1>1, <1>7, <1>9, <1>10, <1>11 DEF UnitsKept

\* The library's operators again.
LEMMA PooledSame ==
  ASSUME NEW s
  PROVE  /\ Pooled!Range(s) = Range(s) /\ Pooled!IsInjective(s) = IsInjective(s)
         /\ Pooled!Cardinality(s) = Cardinality(s)
         /\ Pooled!Unallocated(s) = FreeOf(s)
BY DEF Pooled!Range, Range, Pooled!IsInjective, IsInjective, Pooled!Cardinality, Cardinality,
       Pooled!Unallocated, FreeOf

\* The invariant says where every unit is.
LEMMA PoolMeans ==
  ASSUME UnitsKept, shared
  PROVE  Pooled!UnitsSound
<1> DEFINE out == UNION {Pooled!Out(t) : t \in Threads}
<1>1. PICK c : Chained(node, bucket, Pooled!Pools, c)
  BY DEF UnitsKept, ChainsAre
<1>2. \A p \in Pooled!Pools : Pooled!Free(p) = c[p]
  BY <1>1, FreeListIs DEF Pooled!Free
<1>3. \A p \in Pooled!Pools : IsInjective(c[p]) /\ Range(c[p]) \subseteq FreeOf(node)
  <2>1. \A p \in Pooled!Pools : IsInjective(c[p]) /\ c[p] \in Seq(FreeOf(node))
    BY <1>1 DEF Chained, Linked
  <2>2. QED
    BY <2>1, RangeOfSeq
<1>4. \A p, q \in Pooled!Pools : p # q => Range(c[p]) \cap Range(c[q]) = {}
  BY <1>1 DEF Chained
<1>5. UNION {Range(c[p]) : p \in Pooled!Pools} = FreeOf(node)
  <2>1. \A a \in FreeOf(node) : \E p \in Pooled!Pools : a \in Range(c[p])
    BY <1>1 DEF Chained
  <2>2. QED
    BY <1>3, <2>1
<1>6. out = DOMAIN node \ FreeOf(node)
  BY DEF UnitsKept, OutsAre
<1>7. DOMAIN node \ FreeOf(node) = {a \in DOMAIN node : Pooled!Checked(a)}
  BY DEF FreeOf, Pooled!Checked
<1>8. \A p \in Pooled!Pools :
        /\ Pooled!IsInjective(Pooled!Free(p)) /\ Pooled!Range(Pooled!Free(p)) = Range(c[p])
  BY <1>2, <1>3, PooledSame
<1>9. UNION {Pooled!Range(Pooled!Free(p)) : p \in Pooled!Pools} = Pooled!Unallocated(node)
  <2>1. {Pooled!Range(Pooled!Free(p)) : p \in Pooled!Pools} = {Range(c[p]) : p \in Pooled!Pools}
    BY <1>8
  <2>2. QED
    BY <1>5, <2>1, PooledSame
<1>10. Pooled!Counted = Pooled!Cardinality(out)
  BY <1>6, PooledSame DEF UnitsKept, CountIs
<1>11. \A p \in Pooled!Pools :
         /\ Pooled!IsInjective(Pooled!Free(p))
         /\ \A q \in Pooled!Pools \ {p} : Pooled!Range(Pooled!Free(p)) \cap Pooled!Range(Pooled!Free(q)) = {}
  BY <1>4, <1>8
<1>12. \A t, u \in Threads : t # u => Pooled!Out(t) \cap Pooled!Out(u) = {}
  BY DEF UnitsKept, OutsApart
<1> HIDE DEF out
<1>13. QED
  BY <1>6, <1>7, <1>9, <1>10, <1>11, <1>12 DEF Pooled!UnitsSound, out

-----------------------------------------------------------------------------
(* Both.                                                                   *)

UnitsInv == KeptInv /\ PooledInv

\* The other parts do not touch the units.
LEMMA UnitsPart ==
  ASSUME [NextLocking]_vars
  PROVE  /\ part = "classes" => Classes!Next \/ UNCHANGED vars
         /\ part = "pooled" => Pooled!Next \/ UNCHANGED vars
BY DEF NextLocking, vars, ClassesStep, PooledStep, TableStep, SemaphoreStep, EventStep

\* What is the same in two states.
LEMMA UnitsSame ==
  ASSUME UNCHANGED vars
  PROVE  /\ Classes!IInv /\ ClassesKept => (Classes!IInv /\ ClassesKept)'
         /\ CallsKept /\ UnitsKept /\ shared => (CallsKept /\ UnitsKept /\ shared)'
<1>1. Classes!IInv => Classes!IInv'
  BY UnitsStay DEF vars
<1>2. ClassesKept => ClassesKept'
  <2>1. \E c : Accounted(node, bucket, refcount, before, c) => ClassesKept'
    BY KeptNext DEF vars
  <2>2. QED
    BY KeptNext DEF vars, ClassesKept
<1>3. CallsKept => CallsKept'
  BY DEF vars, CallsKept, Pooled!Types, Pooled!LocksHeld, Pooled!CallsRight, Pooled!Pools
<1>4. UnitsKept => UnitsKept'
  <2>1. \A t \in Threads : Pooled!Out(t)' = Pooled!Out(t)
    BY DEF vars, Pooled!Out
  <2>2. ChainsAre => ChainsAre'
    BY ChainsNext DEF vars, ChainsAre
  <2>3. UnitsKept => IsFiniteSet(DOMAIN node) /\ ChainsAre
    BY DEF UnitsKept, CountIs
  <2>4. node' = node /\ refcount' = refcount
    BY DEF vars
  <2>5. QED
    BY <2>1, <2>2, <2>3, <2>4, OutsStay
<1>5. shared' = shared
  BY DEF vars
<1>6. QED
  BY <1>1, <1>2, <1>3, <1>4, <1>5

(* A unit of a size class is allocated or in the free list of the class it *)
(* was carved for, which counts those that are not; a unit of the shared   *)
(* pools is with one thread or in one free list, the counters together     *)
(* count those that are out, and no checkPadding fails: for any classes,   *)
(* pools, batches, sizes and threads.                                      *)
THEOREM UnitsAreAccounted == SpecLocking => []UnitsAccounted
<1>1. InitLocking => UnitsInv
  <2>1. InitLocking /\ part = "classes" => Classes!IInv /\ ClassesKept
    BY ClassesInit, KeptInit DEF InitLocking
  <2>2. InitLocking /\ part = "pooled" => CallsKept /\ UnitsKept /\ shared
    BY PoolInit DEF InitLocking
  <2>3. QED
    BY <2>1, <2>2 DEF UnitsInv, KeptInv, PooledInv
<1>2. UnitsInv /\ [NextLocking]_vars => UnitsInv'
  <2>1. SUFFICES ASSUME UnitsInv, [NextLocking]_vars
                 PROVE  UnitsInv'
    OBVIOUS
  <2>2. part' = part
    BY <2>1, PartStays
  <2>3. ASSUME part = "classes"
        PROVE  (Classes!IInv /\ ClassesKept)'
    <3>1. Classes!IInv /\ ClassesKept
      BY <2>1, <2>3 DEF UnitsInv, KeptInv
    <3>2. QED
      BY <2>1, <2>3, <3>1, UnitsPart, ClassesNext, KeptStep, UnitsSame
  <2>4. ASSUME part = "pooled"
        PROVE  (CallsKept /\ UnitsKept /\ shared)'
    <3>1. CallsKept /\ UnitsKept /\ shared
      BY <2>1, <2>4 DEF UnitsInv, PooledInv
    <3>2. CASE Pooled!Next
      BY <3>1, <3>2, CallsStayKept, PoolNext
    <3>3. QED
      BY <2>1, <2>4, <3>1, <3>2, UnitsPart, UnitsSame
  <2>5. QED
    BY <2>2, <2>3, <2>4 DEF UnitsInv, KeptInv, PooledInv
<1>3. UnitsInv => UnitsAccounted
  BY KeptMeans, PoolMeans DEF UnitsInv, KeptInv, PooledInv, UnitsAccounted
<1>4. QED
  BY <1>1, <1>2, <1>3, PTL DEF SpecLocking
==============================================================================
