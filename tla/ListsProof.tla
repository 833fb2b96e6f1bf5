------------------------------ MODULE ListsProof ------------------------------
(***************************************************************************)
(* The counted pointers of MCLists, for any number of threads, of Ptrs and *)
(* of objects: the counts are right, and nothing is deleted too early or   *)
(* never.                                                                  *)
(***************************************************************************)
EXTENDS MCLists, FiniteSetTheorems, SequenceTheorems, TLAPS

PtrsInv == part = "counted" => Counted!IInv

\* The instance's Cardinality is the library's.
LEMMA PtrsCount == \A S : Counted!Cardinality(S) = Cardinality(S)
BY DEF Counted!Cardinality, Cardinality

\* What the constants are, as the model of the Ptrs names them.
LEMMA PtrConstants ==
  /\ IsFiniteSet(Threads) /\ IsFiniteSet(Ptrs) /\ \A p \in Ptrs : OwnerOf(p) \in Threads
  /\ None \notin Values /\ None # a0 /\ None \notin Int /\ a0 \notin Values
BY PtrAssumption

\* The images of the members of a finite set are finitely many.
LEMMA ImageIs ==
  ASSUME NEW S, IsFiniteSet(S), NEW f
  PROVE  IsFiniteSet({f[x] : x \in S})
<1> DEFINE T == {f[x] : x \in S}
           g == [x \in S |-> f[x]]
<1>1. g \in Surjection(S, T)
  BY DEF Surjection
<1>2. QED
  BY <1>1, FS_Surjection

\* A step that a call has left is one of its thread, which has at most one
\* increment left and one decrement, in this order.
LEMMA PendingIs ==
  ASSUME Counted!Types, Counted!CallsRight
  PROVE  /\ Counted!Pending \subseteq Counted!Steps /\ IsFiniteSet(Counted!Pending)
         /\ \A s, r \in Counted!Pending :
              s.change = r.change /\ OwnerOf(s.to) = OwnerOf(r.to) => s = r
         /\ \A t \in Threads : all[t] = <<>> <=> \A s \in Counted!Pending : OwnerOf(s.to) # t
<1>1. \A t \in Threads :
        /\ all[t] \in Seq(Counted!Steps) /\ Len(all[t]) \in Nat /\ DOMAIN all[t] = 1..Len(all[t])
        /\ \A i \in DOMAIN all[t] : all[t][i] \in Counted!Steps /\ OwnerOf(all[t][i].to) = t
  BY DEF Counted!Types, Counted!CallsRight
<1>2. Counted!Pending \subseteq Counted!Steps
  BY <1>1 DEF Counted!Pending
<1>3. IsFiniteSet(Counted!Pending)
  <2> DEFINE Of(t) == {all[t][i] : i \in DOMAIN all[t]}
             Ofs == [t \in Threads |-> Of(t)]
  <2>1. \A t \in Threads : IsFiniteSet(Of(t))
    <3>1. TAKE t \in Threads
    <3>2. IsFiniteSet(DOMAIN all[t])
      BY <1>1, FS_Interval
    <3>3. QED
      BY <3>2, ImageIs
  <2>2. Counted!Pending = UNION {Ofs[t] : t \in Threads}
    BY DEF Counted!Pending
  <2>3. IsFiniteSet({Ofs[t] : t \in Threads})
    BY PtrConstants, ImageIs
  <2>4. \A T \in {Ofs[t] : t \in Threads} : IsFiniteSet(T)
    BY <2>1
  <2>5. QED
    BY <2>2, <2>3, <2>4, FS_UNION
<1>4. ASSUME NEW s \in Counted!Pending, NEW r \in Counted!Pending,
             s.change = r.change, OwnerOf(s.to) = OwnerOf(r.to)
      PROVE  s = r
  <2>1. PICK t \in Threads : \E i \in DOMAIN all[t] : s = all[t][i]
    BY DEF Counted!Pending
  <2>2. PICK u \in Threads : \E j \in DOMAIN all[u] : r = all[u][j]
    BY DEF Counted!Pending
  <2>3. t = u
    BY <1>1, <1>4, <2>1, <2>2
  <2>4. Len(all[t]) <= 2 /\ (Len(all[t]) = 2 => all[t][1].change = 1 /\ all[t][2].change = -1)
    BY DEF Counted!CallsRight
  <2>5. Len(all[t]) \in Nat /\ DOMAIN all[t] = 1..Len(all[t])
    BY <1>1
  <2>6. PICK i \in 1..Len(all[t]) : s = all[t][i]
    BY <2>1, <2>5
  <2>7. PICK j \in 1..Len(all[t]) : r = all[t][j]
    BY <2>2, <2>3, <2>5
  <2>8. CASE Len(all[t]) = 2
    <3>1. i \in {1, 2} /\ j \in {1, 2}
      BY <2>6, <2>7, <2>8
    <3>2. QED
      BY <1>4, <2>4, <2>6, <2>7, <2>8, <3>1
  <2>9. CASE Len(all[t]) # 2
    <3>1. i \in Nat /\ j \in Nat /\ 1 <= i /\ 1 <= j /\ i <= Len(all[t]) /\ j <= Len(all[t])
      BY <2>5
    <3>2. Len(all[t]) <= 1
      <4>1. \A n \in Nat : n <= 2 /\ n # 2 => n <= 1
        OBVIOUS
      <4>2. Len(all[t]) <= 2
        BY <2>4
      <4>3. QED
        BY <2>5, <2>9, <4>1, <4>2
    <3>3. i = 1 /\ j = 1
      BY <2>5, <3>1, <3>2
    <3>4. QED
      BY <2>6, <2>7, <3>3
  <2>10. QED
    BY <2>8, <2>9
<1>5. ASSUME NEW t \in Threads
      PROVE  all[t] = <<>> <=> \A s \in Counted!Pending : OwnerOf(s.to) # t
  <2>1. CASE all[t] = <<>>
    <3>1. \A u \in Threads : \A i \in DOMAIN all[u] : OwnerOf(all[u][i].to) # t
      BY <1>1, <2>1
    <3>2. QED
      BY <2>1, <3>1 DEF Counted!Pending
  <2>2. CASE all[t] # <<>>
    <3>1. Len(all[t]) # 0
      BY <1>1, <2>2
    <3>2. 1 \in DOMAIN all[t]
      BY <1>1, <3>1
    <3>3. all[t][1] \in Counted!Pending /\ OwnerOf(all[t][1].to) = t
      BY <1>1, <3>2 DEF Counted!Pending
    <3>4. QED
      BY <2>2, <3>3
  <2>3. QED
    BY <2>1, <2>2
<1>6. QED
  BY <1>2, <1>3, <1>4, <1>5

\* The steps of a call that sets the Ptr p to v, which it takes from q.
Owed(p, v, q) ==
  Counted!Step(1, IF v \in Values THEN v ELSE a0, q, p)
    \o Counted!Step(-1, IF link[p] \in Values THEN link[p] ELSE a0, p, p)

\* The value v is nothing to count, or that of a Ptr q whose thread has no
\* step left; or v is a new object.
Taken(v, q) == v \in Values => link[q] = v /\ all[OwnerOf(q)] = <<>>
New(p, v, q) == v \in Values /\ q = p /\ link[p] = None /\ made[v] = None

\* A call of the thread of p that sets p to v, with its steps still to do.
Sets(p, v, q) ==
  /\ all[OwnerOf(p)] = <<>>
  /\ \A s \in Counted!Pending : s.change = 1 => s.from # p
  /\ link' = [link EXCEPT ![p] = v]
  /\ all' = [all EXCEPT ![OwnerOf(p)] = Owed(p, v, q)]
  /\ \/ Taken(v, q) /\ made' = made
     \/ New(p, v, q) /\ made' = [made EXCEPT ![v] = 0]

\* Nobody copies a Ptr that does not exist.
LEMMA FreshIs ==
  ASSUME Counted!IInv, NEW p \in Ptrs, link[p] = None \/ ~Counted!Copied(p)
  PROVE  \A s \in Counted!Pending : s.change = 1 => s.from # p
<1>1. CASE link[p] = None
  <2>1. \A s \in Counted!Pending : s.change = 1 => link[s.from] = s.object /\ s.object \in Values
    BY PendingIs DEF Counted!IInv, Counted!Sourced, Counted!Steps
  <2>2. QED
    BY <1>1, <2>1, PtrConstants
<1>2. CASE ~Counted!Copied(p)
  BY <1>2 DEF Counted!Copied, Counted!Pending
<1>3. QED
  BY <1>1, <1>2

\* Every call is one of these, whatever its kind.
LEMMA CallIs ==
  ASSUME Counted!IInv, NEW p \in Ptrs, Counted!Call(p)
  PROVE  \E v \in Values \cup {None, a0}, q \in Ptrs : Sets(p, v, q)
<1>1. /\ \A q \in Ptrs : link[q] \in Values \cup {None, a0}
      /\ None \notin Values /\ None # a0 /\ a0 \notin Values
  BY PtrConstants DEF Counted!IInv, Counted!Types
<1>2. \A c \in {1, -1}, o \in Values \cup {a0}, q \in Ptrs :
        /\ Counted!Step(c, o, q, p) \in Seq(Counted!Steps)
        /\ Counted!Step(c, a0, q, p) = <<>>
        /\ Counted!Step(c, o, q, p) \o <<>> = Counted!Step(c, o, q, p)
        /\ <<>> \o Counted!Step(c, o, q, p) = Counted!Step(c, o, q, p)
  <2>1. \A c \in {1, -1}, o \in Values \cup {a0}, q \in Ptrs :
          /\ Counted!Step(c, o, q, p) \in Seq(Counted!Steps)
          /\ Counted!Step(c, a0, q, p) = <<>>
    <3>1. \A c, q : Counted!Step(c, a0, q, p) = <<>>
      BY DEF Counted!Step
    <3>2. TAKE c \in {1, -1}, o \in Values \cup {a0}, q \in Ptrs
    <3>3. CASE o = a0
      BY <3>3 DEF Counted!Step
    <3>4. CASE o # a0
      <4>1. [change |-> c, object |-> o, from |-> q, to |-> p] \in Counted!Steps
        BY <3>4 DEF Counted!Steps
      <4>2. QED
        BY <3>1, <3>4, <4>1 DEF Counted!Step
    <3>5. QED
      BY <3>3, <3>4
  <2>2. \A s \in Seq(Counted!Steps) : s \o <<>> = s /\ <<>> \o s = s
    BY ConcatEmptySeq
  <2>3. QED
    BY <2>1, <2>2
<1> USE DEF Sets, Taken, New, Owed, Counted!Idle
<1>3. CASE Counted!Construct(p)
  <2>1. PICK o \in Values :
          /\ made[o] = None
          /\ link' = [link EXCEPT ![p] = o] /\ made' = [made EXCEPT ![o] = 0]
          /\ all' = [all EXCEPT ![OwnerOf(p)] = Counted!Step(1, o, p, p)]
    BY <1>3 DEF Counted!Construct, Counted!Allocated
  <2>2. link[p] = None /\ all[OwnerOf(p)] = <<>>
    BY <1>3 DEF Counted!Construct
  <2>3. Owed(p, o, p) = Counted!Step(1, o, p, p)
    BY <1>1, <1>2, <2>2
  <2>4. Sets(p, o, p)
    BY <2>1, <2>2, <2>3, FreshIs DEF New
  <2>5. QED
    BY <2>4
<1>4. CASE Counted!ConstructNull(p)
  <2>1. link[p] = None /\ ~Counted!Copied(p)
    BY <1>4 DEF Counted!ConstructNull, Counted!Starts
  <2>2. Owed(p, a0, p) = <<>>
    BY <1>1, <1>2, <2>1
  <2>3. Sets(p, a0, p)
    BY <1>1, <1>4, <2>1, <2>2, FreshIs DEF Counted!ConstructNull, Counted!Starts
  <2>4. QED
    BY <2>3
<1>5. CASE Counted!Destroy(p)
  <2>1. link[p] # None /\ ~Counted!Copied(p)
    BY <1>5 DEF Counted!Destroy, Counted!Starts
  <2>2. link[p] \in Values \/ link[p] = a0
    BY <1>1, <2>1
  <2>3. Owed(p, None, p) = Counted!Step(-1, link[p], p, p)
    BY <1>1, <1>2, <2>2
  <2>4. Sets(p, None, p)
    BY <1>1, <1>5, <2>1, <2>3, FreshIs DEF Counted!Destroy, Counted!Starts
  <2>5. QED
    BY <2>4
<1>6. ASSUME NEW q \in Ptrs, Counted!CopyConstruct(p, q)
      PROVE  \E v \in Values \cup {None, a0}, r \in Ptrs : Sets(p, v, r)
  <2>1. link[p] = None /\ ~Counted!Copied(p) /\ link[q] # None /\ all[OwnerOf(q)] = <<>>
    BY <1>6 DEF Counted!CopyConstruct, Counted!Starts, Counted!Readable
  <2>2. link[q] \in Values \/ link[q] = a0
    BY <1>1, <2>1
  <2>3. Owed(p, link[q], q) = Counted!Step(1, link[q], q, p)
    BY <1>1, <1>2, <2>1, <2>2
  <2>4. Sets(p, link[q], q)
    BY <1>1, <1>6, <2>1, <2>3, FreshIs DEF Counted!CopyConstruct, Counted!Starts
  <2>5. QED
    BY <1>1, <2>4
<1>7. ASSUME NEW q \in Ptrs, Counted!Assign(p, q)
      PROVE  \E v \in Values \cup {None, a0}, r \in Ptrs : Sets(p, v, r)
  <2>1. /\ link[p] # None /\ ~Counted!Copied(p) /\ link[q] # None
        /\ all[OwnerOf(q)] = <<>>
    BY <1>7 DEF Counted!Assign, Counted!Starts, Counted!Readable
  <2>2. (link[q] \in Values \/ link[q] = a0) /\ (link[p] \in Values \/ link[p] = a0)
    BY <1>1, <2>1
  <2>3. Owed(p, link[q], q) = Counted!CountFirst(p, q)
    BY <1>1, <2>2 DEF Counted!CountFirst
  <2>4. Sets(p, link[q], q)
    BY <1>1, <1>7, <2>1, <2>3, FreshIs DEF Counted!Assign, Counted!Starts
  <2>5. QED
    BY <1>1, <2>4
<1>8. QED
  BY <1>3, <1>4, <1>5, <1>6, <1>7 DEF Counted!Call

\* The steps as they are added to those that the calls have left.
Inc(p, v, q) == [change |-> 1, object |-> v, from |-> q, to |-> p]
Dec(p) == [change |-> -1, object |-> link[p], from |-> p, to |-> p]
Added(p, v, q) ==
  {s \in {Inc(p, v, q), Dec(p)} : s.object \in Values}

\* The steps owed are at most one increment and one decrement, in this order.
LEMMA OwedIs ==
  ASSUME NEW p \in Ptrs, NEW q \in Ptrs, NEW v
  PROVE  /\ Owed(p, v, q) \in Seq(Counted!Steps)
         /\ {Owed(p, v, q)[i] : i \in DOMAIN Owed(p, v, q)} = Added(p, v, q)
         /\ Len(Owed(p, v, q)) <= 2
         /\ Len(Owed(p, v, q)) = 2 =>
              Owed(p, v, q)[1].change = 1 /\ Owed(p, v, q)[2].change = -1
         /\ \A i \in DOMAIN Owed(p, v, q) : Owed(p, v, q)[i].to = p
<1>1. a0 \notin Values
  BY PtrConstants
<1>2. /\ v \in Values => Inc(p, v, q) \in Counted!Steps
      /\ link[p] \in Values => Dec(p) \in Counted!Steps
      /\ Inc(p, v, q).object = v /\ Dec(p).object = link[p]
      /\ Inc(p, v, q).change = 1 /\ Dec(p).change = -1
      /\ Inc(p, v, q).to = p /\ Dec(p).to = p
  BY DEF Inc, Dec, Counted!Steps
<1>3. CASE v \in Values /\ link[p] \in Values
  <2>1. Owed(p, v, q) = <<Inc(p, v, q), Dec(p)>>
    <3>1. Owed(p, v, q) = <<Inc(p, v, q)>> \o <<Dec(p)>>
      BY <1>1, <1>3 DEF Owed, Inc, Dec, Counted!Step
    <3>2. ASSUME NEW a, NEW b
          PROVE  <<a>> \o <<b>> = <<a, b>>
      <4>1. <<a>> \in Seq({a, b}) /\ <<b>> \in Seq({a, b}) /\ <<a, b>> \in Seq({a, b})
        OBVIOUS
      <4>2. /\ <<a>> \o <<b>> \in Seq({a, b}) /\ Len(<<a>> \o <<b>>) = 2
            /\ (<<a>> \o <<b>>)[1] = a /\ (<<a>> \o <<b>>)[2] = b
        BY <4>1, ConcatProperties
      <4> DEFINE c == <<a>> \o <<b>>
                 d == <<a, b>>
      <4>3. Len(d) = 2 /\ d[1] = a /\ d[2] = b
        OBVIOUS
      <4>4. \A i \in 1..2 : i = 1 \/ i = 2
        OBVIOUS
      <4>5. c \in Seq({a, b}) /\ d \in Seq({a, b}) /\ Len(c) = Len(d)
        BY <4>1, <4>2, <4>3
      <4>6. Len(c) = 2 /\ c[1] = d[1] /\ c[2] = d[2]
        BY <4>2, <4>3
      <4> HIDE DEF c, d
      <4>7. \A i \in 1..Len(c) : c[i] = d[i]
        BY <4>4, <4>6
      <4>8. c = d
        BY <4>5, <4>7, SeqEqual
      <4>9. QED
        BY <4>8 DEF c, d
    <3>3. QED
      BY <3>1, <3>2
  <2>2. Added(p, v, q) = {Inc(p, v, q), Dec(p)}
    BY <1>2, <1>3 DEF Added
  <2>3. QED
    BY <1>2, <1>3, <2>1, <2>2
<1>4. CASE v \in Values /\ link[p] \notin Values
  <2>1. Owed(p, v, q) = <<Inc(p, v, q)>>
    BY <1>1, <1>4 DEF Owed, Inc, Dec, Counted!Step
  <2>2. Added(p, v, q) = {Inc(p, v, q)}
    BY <1>2, <1>4 DEF Added
  <2>3. QED
    BY <1>2, <1>4, <2>1, <2>2
<1>5. CASE v \notin Values /\ link[p] \in Values
  <2>1. Owed(p, v, q) = <<Dec(p)>>
    BY <1>1, <1>5 DEF Owed, Inc, Dec, Counted!Step
  <2>2. Added(p, v, q) = {Dec(p)}
    BY <1>2, <1>5 DEF Added
  <2>3. QED
    BY <1>2, <1>5, <2>1, <2>2
<1>6. CASE v \notin Values /\ link[p] \notin Values
  <2>1. Owed(p, v, q) = <<>>
    BY <1>1, <1>6 DEF Owed, Inc, Dec, Counted!Step
  <2>2. Added(p, v, q) = {}
    BY <1>2, <1>6 DEF Added
  <2>3. QED
    BY <2>1, <2>2
<1>7. QED
  BY <1>3, <1>4, <1>5, <1>6

\* A call adds its steps to those left, and no other thread's.
LEMMA CallAdds ==
  ASSUME Counted!Types, Counted!CallsRight,
         NEW p \in Ptrs, NEW q \in Ptrs, NEW v \in Values \cup {None, a0}, Sets(p, v, q)
  PROVE  /\ Counted!Types' /\ Counted!CallsRight'
         /\ Counted!Pending' = Counted!Pending \cup Added(p, v, q)
<1>1. OwnerOf(p) \in Threads
  BY PtrConstants
<1>2. \A t \in Threads : all'[t] = IF t = OwnerOf(p) THEN Owed(p, v, q) ELSE all[t]
  BY <1>1 DEF Counted!Types, Sets
<1>3. Counted!Types'
  <2>1. link' \in [Ptrs -> Values \cup {None, a0}]
    BY DEF Counted!Types, Sets
  <2>2. made' \in [Values -> Int \cup {None}]
    BY DEF Counted!Types, Sets, New
  <2>3. all' \in [Threads -> Seq(Counted!Steps)]
    BY <1>1, OwedIs DEF Counted!Types, Sets
  <2>4. QED
    BY <2>1, <2>2, <2>3 DEF Counted!Types, Counted!Steps
<1>4. Counted!CallsRight'
  <2>1. \A t \in Threads :
          /\ Len(all'[t]) <= 2
          /\ Len(all'[t]) = 2 => all'[t][1].change = 1 /\ all'[t][2].change = -1
          /\ \A i \in DOMAIN all'[t] : OwnerOf(all'[t][i].to) = t
    <3>1. TAKE t \in Threads
    <3>2. CASE t = OwnerOf(p)
      BY <1>2, <3>2, OwedIs
    <3>3. CASE t # OwnerOf(p)
      BY <1>2, <3>3 DEF Counted!CallsRight
    <3>4. QED
      BY <3>2, <3>3
  <2>2. QED
    BY <2>1 DEF Counted!CallsRight
<1>5. Counted!Pending' = Counted!Pending \cup Added(p, v, q)
  <2> DEFINE Of(s) == {s[i] : i \in DOMAIN s}
  <2>1. Of(all[OwnerOf(p)]) = {}
    BY DEF Sets
  <2>2. Of(all'[OwnerOf(p)]) = Added(p, v, q)
    BY <1>1, <1>2, OwedIs
  <2>3. \A t \in Threads : t # OwnerOf(p) => Of(all'[t]) = Of(all[t])
    BY <1>2
  <2>4. Counted!Pending = UNION {Of(all[t]) : t \in Threads}
    BY DEF Counted!Pending
  <2>5. Counted!Pending' = UNION {Of(all'[t]) : t \in Threads}
    BY DEF Counted!Pending
  <2> HIDE DEF Of
  <2>6. QED
    BY <1>1, <2>1, <2>2, <2>3, <2>4, <2>5
<1>6. QED
  BY <1>3, <1>4, <1>5

\* A sequence of one or two elements, and what is behind its head.
LEMMA ShortIs ==
  ASSUME NEW S, NEW f \in Seq(S)
  PROVE  /\ Len(f) = 1 => Tail(f) = <<>> /\ {f[i] : i \in DOMAIN f} = {f[1]}
         /\ Len(f) = 2 => Tail(f) = <<f[2]>> /\ {f[i] : i \in DOMAIN f} = {f[1], f[2]}
<1>1. ASSUME Len(f) = 1
      PROVE  Tail(f) = <<>> /\ {f[i] : i \in DOMAIN f} = {f[1]}
  <2>1. DOMAIN f = {1} /\ f # <<>>
    BY <1>1
  <2>2. Len(Tail(f)) = 0 /\ Tail(f) \in Seq(S)
    BY <1>1, <2>1
  <2>3. Tail(f) = <<>>
    BY <2>2, EmptySeq
  <2>4. QED
    BY <2>1, <2>3
<1>2. ASSUME Len(f) = 2
      PROVE  Tail(f) = <<f[2]>> /\ {f[i] : i \in DOMAIN f} = {f[1], f[2]}
  <2>1. DOMAIN f = {1, 2} /\ f # <<>>
    BY <1>2
  <2>2. Len(Tail(f)) = 1 /\ Tail(f) \in Seq(S) /\ Tail(f)[1] = f[2]
    BY <1>2, <2>1
  <2>3. Tail(f) = <<f[2]>>
    <3>1. f[2] \in S
      <4>1. 2 \in 1..Len(f)
        BY <1>2
      <4>2. QED
        BY <4>1, ElementOfSeq
    <3>2. <<f[2]>> \in Seq(S) /\ Len(<<f[2]>>) = 1 /\ <<f[2]>>[1] = f[2]
      BY <3>1
    <3>3. \A i \in 1..1 : i = 1
      OBVIOUS
    <3>4. \A i \in 1..Len(Tail(f)) : Tail(f)[i] = <<f[2]>>[i]
      BY <2>2, <3>2, <3>3
    <3>5. QED
      BY <2>2, <3>2, <3>4, SeqEqual
  <2>4. QED
    BY <2>1, <2>3
<1>3. QED
  BY <1>1, <1>2

\* A step done leaves the others; an increment comes before a decrement.
LEMMA CountRemoves ==
  ASSUME Counted!Types, Counted!CallsRight, NEW t \in Threads, Counted!Count(t)
  PROVE  \E s \in Counted!Pending :
           /\ Counted!Pending' = Counted!Pending \ {s}
           /\ link' = link
           /\ made' = [made EXCEPT ![s.object] =
                         IF s.change = -1 /\ made[s.object] + s.change = 0
                         THEN None ELSE made[s.object] + s.change]
           /\ \A r \in Counted!Pending :
                OwnerOf(r.to) = OwnerOf(s.to) /\ r.change = 1 => s.change = 1
           /\ all' \in [Threads -> Seq(Counted!Steps)] /\ Counted!CallsRight'
<1> DEFINE s == all[t][1]
           Of(f) == {f[i] : i \in DOMAIN f}
<1>1. /\ all[t] \in Seq(Counted!Steps) /\ all[t] # <<>> /\ Len(all[t]) \in {1, 2}
      /\ all' = [all EXCEPT ![t] = Tail(all[t])] /\ s = Head(all[t])
      /\ DOMAIN all[t] = 1..Len(all[t])
  <2>1. all[t] \in Seq(Counted!Steps) /\ all[t] # <<>>
    BY DEF Counted!Types, Counted!Count, Counted!Idle
  <2>2. Len(all[t]) \in Nat /\ Len(all[t]) # 0 /\ DOMAIN all[t] = 1..Len(all[t])
    BY <2>1
  <2>3. Len(all[t]) <= 2
    BY DEF Counted!CallsRight
  <2>4. \A n \in Nat : n # 0 /\ n <= 2 => n \in {1, 2}
    OBVIOUS
  <2>5. Len(all[t]) \in {1, 2}
    BY <2>2, <2>3, <2>4
  <2>6. s = Head(all[t])
    BY <2>1, <2>2
  <2>7. all' = [all EXCEPT ![t] = Tail(all[t])]
    BY DEF Counted!Count
  <2>8. QED
    BY <2>1, <2>2, <2>5, <2>6, <2>7
<1>2. \A u \in Threads : all'[u] = IF u = t THEN Tail(all[t]) ELSE all[u]
  BY <1>1 DEF Counted!Types
<1>3. s \in Counted!Pending /\ s \in Counted!Steps /\ OwnerOf(s.to) = t
  <2>1. 1 \in DOMAIN all[t]
    BY <1>1
  <2>2. QED
    BY <1>1, <2>1 DEF Counted!Pending, Counted!CallsRight
<1>4. /\ Len(all[t]) = 1 => Tail(all[t]) = <<>> /\ Of(all[t]) = {s}
      /\ Len(all[t]) = 2 => Tail(all[t]) = <<all[t][2]>> /\ Of(all[t]) = {s, all[t][2]}
  BY <1>1, ShortIs
<1>5. Len(all[t]) = 2 =>
        /\ s.change = 1 /\ all[t][2].change = -1 /\ OwnerOf(all[t][2].to) = t
        /\ all[t][2] \in Counted!Steps
  BY <1>1 DEF Counted!CallsRight
<1>6. Of(Tail(all[t])) = Of(all[t]) \ {s}
  <2>1. CASE Len(all[t]) = 1
    BY <1>4, <2>1
  <2>2. CASE Len(all[t]) = 2
    <3>1. s # all[t][2]
      BY <1>5, <2>2
    <3>2. Of(Tail(all[t])) = {all[t][2]}
      BY <1>4, <2>2
    <3>3. QED
      BY <1>4, <2>2, <3>1, <3>2
  <2>3. QED
    BY <1>1, <2>1, <2>2
<1>7. \A u \in Threads : u # t => s \notin Of(all[u])
  BY <1>3 DEF Counted!CallsRight
<1>8. Counted!Pending' = Counted!Pending \ {s}
  <2>1. Counted!Pending = UNION {Of(all[u]) : u \in Threads}
    BY DEF Counted!Pending
  <2>2. Counted!Pending' = UNION {Of(all'[u]) : u \in Threads}
    BY DEF Counted!Pending
  <2>3. \A u \in Threads : Of(all'[u]) = Of(all[u]) \ {s}
    <3>1. TAKE u \in Threads
    <3>2. CASE u = t
      <4>1. all'[u] = Tail(all[t])
        BY <1>2, <3>2
      <4> HIDE DEF Of, s
      <4>2. QED
        BY <1>6, <3>2, <4>1
    <3>3. CASE u # t
      <4>1. all'[u] = all[u] /\ s \notin Of(all[u])
        BY <1>2, <1>7, <3>3
      <4> HIDE DEF Of
      <4>2. QED
        BY <4>1
    <3>4. QED
      BY <3>2, <3>3
  <2> HIDE DEF Of, s
  <2>4. QED
    BY <2>1, <2>2, <2>3
<1>9. ASSUME NEW r \in Counted!Pending, OwnerOf(r.to) = OwnerOf(s.to), r.change = 1
      PROVE  s.change = 1
  <2>1. PICK u \in Threads : r \in Of(all[u])
    BY DEF Counted!Pending
  <2>2. u = t
    BY <1>3, <1>9, <2>1 DEF Counted!CallsRight
  <2>3. QED
    BY <1>1, <1>4, <1>5, <1>9, <2>1, <2>2
<1>10. all' \in [Threads -> Seq(Counted!Steps)]
  BY <1>1 DEF Counted!Types
<1>11. Counted!CallsRight'
  <2>1. \A u \in Threads :
          /\ Len(all'[u]) <= 2
          /\ Len(all'[u]) = 2 => all'[u][1].change = 1 /\ all'[u][2].change = -1
          /\ \A i \in DOMAIN all'[u] : OwnerOf(all'[u][i].to) = u
    <3>1. TAKE u \in Threads
    <3>2. CASE u = t
      <4>1. CASE Len(all[t]) = 1
        <5>1. all'[u] = <<>>
          BY <1>2, <1>4, <3>2, <4>1
        <5>2. Len(<<>>) = 0 /\ DOMAIN <<>> = {}
          OBVIOUS
        <5>3. QED
          BY <5>1, <5>2
      <4>2. CASE Len(all[t]) = 2
        <5>1. all'[u] = <<all[t][2]>>
          BY <1>2, <1>4, <3>2, <4>2
        <5>2. QED
          BY <1>5, <3>2, <4>2, <5>1
      <4>3. QED
        BY <1>1, <4>1, <4>2
    <3>3. CASE u # t
      BY <1>2, <3>3 DEF Counted!CallsRight
    <3>4. QED
      BY <3>2, <3>3
  <2>2. QED
    BY <2>1 DEF Counted!CallsRight
<1>12. /\ link' = link
       /\ made' = [made EXCEPT ![s.object] =
                     IF s.change = -1 /\ made[s.object] + s.change = 0
                     THEN None ELSE made[s.object] + s.change]
  BY <1>1 DEF Counted!Count, Counted!Freed
<1> HIDE DEF s
<1>13. QED
  BY <1>3, <1>8, <1>9, <1>10, <1>11, <1>12

Is(a, b) == IF a = b THEN 1 ELSE 0

\* What is counted is finite.
LEMMA TalliesFinite ==
  ASSUME Counted!Types, Counted!CallsRight, NEW x
  PROVE  /\ IsFiniteSet(Counted!Refer(x)) /\ Cardinality(Counted!Refer(x)) \in Nat
         /\ \A c : IsFiniteSet(Counted!Left(c, x)) /\ Cardinality(Counted!Left(c, x)) \in Nat
<1>1. IsFiniteSet(Counted!Refer(x))
  BY PtrConstants, FS_Subset DEF Counted!Refer
<1>2. \A c : IsFiniteSet(Counted!Left(c, x))
  BY PendingIs, FS_Subset DEF Counted!Left
<1>3. QED
  BY <1>1, <1>2, FS_CardinalityType

\* A call takes a reference from what p pointed to and gives one to v.
LEMMA CallRefers ==
  ASSUME Counted!Types, Counted!CallsRight, NEW p \in Ptrs, NEW q \in Ptrs,
         NEW v \in Values \cup {None, a0}, Sets(p, v, q), NEW x \in Values
  PROVE  Cardinality(Counted!Refer(x)') =
           Cardinality(Counted!Refer(x)) + Is(v, x) - Is(link[p], x)
<1> DEFINE R == Counted!Refer(x)
           S == Counted!Refer(x)'
<1>1. IsFiniteSet(R) /\ Cardinality(R) \in Nat
  BY TalliesFinite
<1>2. \A r \in Ptrs : link'[r] = IF r = p THEN v ELSE link[r]
  BY DEF Counted!Types, Sets
<1>3. R = {r \in Ptrs : link[r] = x} /\ S = {r \in Ptrs : link'[r] = x}
  BY DEF Counted!Refer
<1> HIDE DEF R, S
<1>4. CASE v = x /\ link[p] = x
  <2>1. S = R
    BY <1>2, <1>3, <1>4
  <2>2. Is(v, x) = 1 /\ Is(link[p], x) = 1
    BY <1>4 DEF Is
  <2>3. QED
    BY <1>1, <2>1, <2>2 DEF R, S
<1>5. CASE v = x /\ link[p] # x
  <2>1. S = R \cup {p} /\ p \notin R
    BY <1>2, <1>3, <1>5
  <2>2. Is(v, x) = 1 /\ Is(link[p], x) = 0
    BY <1>5 DEF Is
  <2>3. Cardinality(S) = Cardinality(R) + 1
    BY <1>1, <2>1, FS_AddElement
  <2>4. QED
    BY <1>1, <2>2, <2>3 DEF R, S
<1>6. CASE v # x /\ link[p] = x
  <2>1. S = R \ {p} /\ p \in R
    BY <1>2, <1>3, <1>6
  <2>2. Is(v, x) = 0 /\ Is(link[p], x) = 1
    BY <1>6 DEF Is
  <2>3. Cardinality(S) = Cardinality(R) - 1
    BY <1>1, <2>1, FS_RemoveElement
  <2>4. QED
    BY <1>1, <2>2, <2>3 DEF R, S
<1>7. CASE v # x /\ link[p] # x
  <2>1. S = R
    BY <1>2, <1>3, <1>7
  <2>2. Is(v, x) = 0 /\ Is(link[p], x) = 0
    BY <1>7 DEF Is
  <2>3. QED
    BY <1>1, <2>1, <2>2 DEF R, S
<1>8. QED
  BY <1>4, <1>5, <1>6, <1>7

\* A call has an increment left of v and a decrement of what p pointed to.
LEMMA CallLeaves ==
  ASSUME Counted!Types, Counted!CallsRight, NEW p \in Ptrs, NEW q \in Ptrs,
         NEW v \in Values \cup {None, a0}, Sets(p, v, q), NEW x \in Values
  PROVE  /\ Counted!Left(1, x)' =
              IF v = x THEN Counted!Left(1, x) \cup {Inc(p, v, q)} ELSE Counted!Left(1, x)
         /\ Counted!Left(-1, x)' =
              IF link[p] = x THEN Counted!Left(-1, x) \cup {Dec(p)} ELSE Counted!Left(-1, x)
         /\ Cardinality(Counted!Left(1, x)') = Cardinality(Counted!Left(1, x)) + Is(v, x)
         /\ Cardinality(Counted!Left(-1, x)') =
              Cardinality(Counted!Left(-1, x)) + Is(link[p], x)
<1>1. Counted!Pending' = Counted!Pending \cup Added(p, v, q)
  BY CallAdds
<1>2. /\ Inc(p, v, q).change = 1 /\ Inc(p, v, q).object = v /\ Inc(p, v, q).to = p
      /\ Dec(p).change = -1 /\ Dec(p).object = link[p] /\ Dec(p).to = p
      /\ 1 # -1
  BY DEF Inc, Dec
<1>3. \A s \in Counted!Pending : s.to # p
  BY PendingIs, PtrConstants DEF Sets
<1>4. \A s : s \in Added(p, v, q) <=>
               \/ s = Inc(p, v, q) /\ v \in Values
               \/ s = Dec(p) /\ link[p] \in Values
  BY <1>2 DEF Added
<1>5. /\ Counted!Left(1, x)' = {s \in Counted!Pending' : s.change = 1 /\ s.object = x}
      /\ Counted!Left(-1, x)' = {s \in Counted!Pending' : s.change = -1 /\ s.object = x}
      /\ Counted!Left(1, x) = {s \in Counted!Pending : s.change = 1 /\ s.object = x}
      /\ Counted!Left(-1, x) = {s \in Counted!Pending : s.change = -1 /\ s.object = x}
  BY DEF Counted!Left
<1>6. Counted!Left(1, x)' =
        IF v = x THEN Counted!Left(1, x) \cup {Inc(p, v, q)} ELSE Counted!Left(1, x)
  <2>1. \A s \in Added(p, v, q) :
          s.change = 1 /\ s.object = x <=> s = Inc(p, v, q) /\ v = x
    BY <1>2, <1>4
  <2>2. v = x => Inc(p, v, q) \in Added(p, v, q)
    BY <1>4
  <2>3. CASE v = x
    BY <1>1, <1>5, <2>1, <2>2, <2>3
  <2>4. CASE v # x
    BY <1>1, <1>5, <2>1, <2>4
  <2>5. QED
    BY <2>3, <2>4
<1>7. Counted!Left(-1, x)' =
        IF link[p] = x THEN Counted!Left(-1, x) \cup {Dec(p)} ELSE Counted!Left(-1, x)
  <2>1. \A s \in Added(p, v, q) :
          s.change = -1 /\ s.object = x <=> s = Dec(p) /\ link[p] = x
    BY <1>2, <1>4
  <2>2. link[p] = x => Dec(p) \in Added(p, v, q)
    BY <1>4
  <2>3. CASE link[p] = x
    BY <1>1, <1>5, <2>1, <2>2, <2>3
  <2>4. CASE link[p] # x
    BY <1>1, <1>5, <2>1, <2>4
  <2>5. QED
    BY <2>3, <2>4
<1>8. Inc(p, v, q) \notin Counted!Left(1, x) /\ Dec(p) \notin Counted!Left(-1, x)
  BY <1>2, <1>3, <1>5
<1>9. /\ IsFiniteSet(Counted!Left(1, x)) /\ Cardinality(Counted!Left(1, x)) \in Nat
      /\ IsFiniteSet(Counted!Left(-1, x)) /\ Cardinality(Counted!Left(-1, x)) \in Nat
  BY TalliesFinite
<1>10. Cardinality(Counted!Left(1, x)') = Cardinality(Counted!Left(1, x)) + Is(v, x)
  BY <1>6, <1>8, <1>9, FS_AddElement DEF Is
<1>11. Cardinality(Counted!Left(-1, x)') =
         Cardinality(Counted!Left(-1, x)) + Is(link[p], x)
  <2> DEFINE A == Counted!Left(-1, x)
             B == Counted!Left(-1, x)'
  <2>1. B = (IF link[p] = x THEN A \cup {Dec(p)} ELSE A) /\ Dec(p) \notin A
    BY <1>7, <1>8
  <2>2. IsFiniteSet(A) /\ Cardinality(A) \in Nat
    BY <1>9
  <2> HIDE DEF A, B
  <2>3. Cardinality(B) = Cardinality(A) + Is(link[p], x)
    <3>1. CASE link[p] = x
      BY <2>1, <2>2, <3>1, FS_AddElement DEF Is
    <3>2. CASE link[p] # x
      BY <2>1, <2>2, <3>2 DEF Is
    <3>3. QED
      BY <3>1, <3>2
  <2>4. QED
    BY <2>3 DEF A, B
<1>12. QED
  BY <1>6, <1>7, <1>10, <1>11

\* The counts stay right when a call begins.
LEMMA CallCounts ==
  ASSUME Counted!IInv, NEW p \in Ptrs, NEW q \in Ptrs,
         NEW v \in Values \cup {None, a0}, Sets(p, v, q)
  PROVE  Counted!CountsReferences'
<1>1. Counted!Types /\ Counted!CallsRight /\ Counted!CountsReferences
  BY DEF Counted!IInv
<1>2. SUFFICES ASSUME NEW x \in Values
               PROVE  /\ made'[x] # None <=> \/ Counted!Refer(x)' # {}
                                             \/ Counted!Left(1, x)' # {}
                                             \/ Counted!Left(-1, x)' # {}
                      /\ made'[x] # None =>
                           made'[x] = Cardinality(Counted!Refer(x)')
                             - Cardinality(Counted!Left(1, x)') + Cardinality(Counted!Left(-1, x)')
  BY PtrsCount DEF Counted!CountsReferences, Counted!Allocated
<1> DEFINE R == Counted!Refer(x)
           I == Counted!Left(1, x)
           D == Counted!Left(-1, x)
           R1 == Counted!Refer(x)'
           I1 == Counted!Left(1, x)'
           D1 == Counted!Left(-1, x)'
<1>3. /\ made[x] # None <=> R # {} \/ I # {} \/ D # {}
      /\ made[x] # None => made[x] = Cardinality(R) - Cardinality(I) + Cardinality(D)
  BY <1>1, PtrsCount DEF Counted!CountsReferences, Counted!Allocated
<1>4. R = {r \in Ptrs : link[r] = x} /\ R1 = {r \in Ptrs : link'[r] = x}
  BY DEF Counted!Refer
<1>5. \A r \in Ptrs : link'[r] = IF r = p THEN v ELSE link[r]
  BY <1>1 DEF Counted!Types, Sets
<1>6. /\ I1 = (IF v = x THEN I \cup {Inc(p, v, q)} ELSE I)
      /\ D1 = (IF link[p] = x THEN D \cup {Dec(p)} ELSE D)
      /\ Cardinality(I1) = Cardinality(I) + Is(v, x)
      /\ Cardinality(D1) = Cardinality(D) + Is(link[p], x)
      /\ Cardinality(R1) = Cardinality(R) + Is(v, x) - Is(link[p], x)
  BY <1>1, CallLeaves, CallRefers
<1>7. /\ IsFiniteSet(R) /\ Cardinality(R) \in Nat
      /\ Cardinality(I) \in Nat /\ Cardinality(D) \in Nat
      /\ Is(v, x) \in {0, 1} /\ Is(link[p], x) \in {0, 1}
  BY <1>1, TalliesFinite DEF Is
<1> HIDE DEF R, I, D, R1, I1, D1
<1>8. CASE New(p, v, q) /\ v = x /\ made' = [made EXCEPT ![v] = 0]
  <2>1. made[x] = None /\ made'[x] = 0 /\ link[p] = None /\ None # x /\ 0 # None
    BY <1>1, <1>8, PtrConstants DEF New, Counted!Types
  <2>2. R = {} /\ I = {} /\ D = {}
    BY <1>3, <2>1
  <2>3. Is(v, x) = 1 /\ Is(link[p], x) = 0
    BY <1>8, <2>1 DEF Is
  <2>4. Cardinality(R) = 0 /\ Cardinality(I) = 0 /\ Cardinality(D) = 0
    BY <2>2, FS_EmptySet
  <2>5. Cardinality(R1) = 1 /\ Cardinality(I1) = 1 /\ Cardinality(D1) = 0
    BY <1>6, <2>3, <2>4
  <2>6. I1 # {}
    BY <1>6, <1>8
  <2>7. QED
    BY <2>1, <2>5, <2>6 DEF R1, I1, D1
<1>9. CASE ~(New(p, v, q) /\ v = x /\ made' = [made EXCEPT ![v] = 0])
  <2>1. made'[x] = made[x] /\ (v = x => link[q] = x)
    <3>1. CASE Taken(v, q) /\ made' = made
      BY <3>1 DEF Taken
    <3>2. CASE New(p, v, q) /\ made' = [made EXCEPT ![v] = 0]
      BY <1>1, <1>9, <3>2 DEF Counted!Types
    <3>3. QED
      BY <3>1, <3>2 DEF Sets
  <2>2. R1 # {} \/ I1 # {} \/ D1 # {} <=> R # {} \/ I # {} \/ D # {}
    <3>1. CASE v = x
      <4>1. q \in R /\ p \in R1
        BY <1>4, <1>5, <2>1, <3>1
      <4>2. QED
        BY <4>1
    <3>2. CASE link[p] = x
      <4>1. p \in R /\ D1 # {}
        BY <1>4, <1>6, <3>2
      <4>2. QED
        BY <4>1
    <3>3. CASE v # x /\ link[p] # x
      <4>1. R1 = R /\ I1 = I /\ D1 = D
        BY <1>4, <1>5, <1>6, <3>3
      <4>2. QED
        BY <4>1
    <3>4. QED
      BY <3>1, <3>2, <3>3
  <2>3. Cardinality(R1) - Cardinality(I1) + Cardinality(D1)
          = Cardinality(R) - Cardinality(I) + Cardinality(D)
    BY <1>6, <1>7
  <2>4. QED
    BY <1>3, <2>1, <2>2, <2>3 DEF R1, I1, D1
<1>10. QED
  BY <1>8, <1>9

\* The increments left keep their sources when a call begins.
LEMMA CallSources ==
  ASSUME Counted!IInv, NEW p \in Ptrs, NEW q \in Ptrs,
         NEW v \in Values \cup {None, a0}, Sets(p, v, q)
  PROVE  Counted!Sourced'
<1>1. Counted!Types /\ Counted!CallsRight /\ Counted!CountsReferences /\ Counted!Sourced
  BY DEF Counted!IInv
<1>2. Counted!Pending' = Counted!Pending \cup Added(p, v, q)
  BY <1>1, CallAdds
<1>3. /\ Inc(p, v, q).change = 1 /\ Inc(p, v, q).object = v /\ Inc(p, v, q).to = p
      /\ Inc(p, v, q).from = q
      /\ Dec(p).change = -1 /\ Dec(p).object = link[p] /\ Dec(p).to = p
      /\ 1 # -1
  BY DEF Inc, Dec
<1>4. \A s \in Counted!Pending :
        /\ s.object \in Values /\ s.to \in Ptrs /\ s.from \in Ptrs
        /\ s.to # p /\ (s.change = 1 => s.from # p)
        /\ s.change = 1 \/ s.change = -1
  BY <1>1, PendingIs, PtrConstants DEF Sets, Counted!Steps
<1>5. \A s : s \in Added(p, v, q) <=>
               \/ s = Inc(p, v, q) /\ v \in Values
               \/ s = Dec(p) /\ link[p] \in Values
  BY <1>3 DEF Added
<1>6. \A r \in Ptrs : link'[r] = IF r = p THEN v ELSE link[r]
  BY <1>1 DEF Counted!Types, Sets
<1>7. \A x \in Values :
        made[x] = None => /\ \A r \in Ptrs : link[r] # x
                          /\ \A s \in Counted!Pending : s.object # x
  <2>1. TAKE x \in Values
  <2>2. HAVE made[x] = None
  <2>3. Counted!Refer(x) = {} /\ Counted!Left(1, x) = {} /\ Counted!Left(-1, x) = {}
    BY <1>1, <2>2 DEF Counted!CountsReferences, Counted!Allocated
  <2>4. QED
    BY <1>4, <2>3 DEF Counted!Refer, Counted!Left
<1> DEFINE Good(s) ==
      /\ link'[s.to] = s.object /\ link'[s.from] = s.object
      /\ s.from # s.to => \A r \in Counted!Pending' : r.change = 1 => r.to # s.from
      /\ s.from = s.to =>
           \/ \E r \in Counted!Pending' : r.change = -1 /\ r.object = s.object /\ r.to = s.to
           \/ /\ {r \in Ptrs : link'[r] = s.object} = {s.to}
              /\ \A r \in Counted!Pending' : r.object = s.object => r = s
<1>8. ASSUME v \in Values
      PROVE  Good(Inc(p, v, q))
  <2>1. CASE Taken(v, q)
    <3>1. link[q] = v /\ all[OwnerOf(q)] = <<>>
      BY <1>8, <2>1 DEF Taken
    <3>2. \A s \in Counted!Pending : s.to # q
      BY <1>1, <3>1, PendingIs, PtrConstants
    <3>3. link'[p] = v /\ link'[q] = v
      BY <1>6, <3>1
    <3>4. q # p => \A r \in Counted!Pending' : r.change = 1 => r.to # q
      BY <1>2, <1>3, <1>5, <3>2
    <3>5. q = p => Dec(p) \in Counted!Pending' /\ Dec(p).object = v
      BY <1>2, <1>3, <1>5, <1>8, <3>1
    <3>6. QED
      BY <1>3, <3>3, <3>4, <3>5
  <2>2. CASE New(p, v, q)
    <3>1. q = p /\ made[v] = None /\ link[p] = None
      BY <2>2 DEF New
    <3>2. link[p] \notin Values
      BY <3>1, PtrConstants
    <3>3. {r \in Ptrs : link'[r] = v} = {p} /\ link'[p] = v
      BY <1>6, <1>7, <1>8, <3>1
    <3>4. \A r \in Counted!Pending' : r.object = v => r = Inc(p, v, q)
      BY <1>2, <1>5, <1>7, <1>8, <3>1, <3>2
    <3>5. QED
      BY <1>3, <3>1, <3>3, <3>4
  <2>3. QED
    BY <2>1, <2>2 DEF Sets
<1>9. ASSUME NEW s \in Counted!Pending, s.change = 1
      PROVE  Good(s)
  <2>1. /\ link[s.to] = s.object /\ link[s.from] = s.object
        /\ s.from # s.to => \A r \in Counted!Pending : r.change = 1 => r.to # s.from
        /\ s.from = s.to =>
             \/ \E r \in Counted!Pending : r.change = -1 /\ r.object = s.object /\ r.to = s.to
             \/ /\ {r \in Ptrs : link[r] = s.object} = {s.to}
                /\ \A r \in Counted!Pending : r.object = s.object => r = s
    BY <1>1, <1>9 DEF Counted!Sourced, Counted!Refer
  <2>2. link'[s.to] = s.object /\ link'[s.from] = s.object
    BY <1>4, <1>6, <1>9, <2>1
  <2>3. s.from # s.to => \A r \in Counted!Pending' : r.change = 1 => r.to # s.from
    BY <1>2, <1>3, <1>4, <1>5, <1>9, <2>1
  <2>4. ASSUME {r \in Ptrs : link[r] = s.object} = {s.to},
               \A r \in Counted!Pending : r.object = s.object => r = s
        PROVE  /\ {r \in Ptrs : link'[r] = s.object} = {s.to}
               /\ \A r \in Counted!Pending' : r.object = s.object => r = s
    <3>1. link[p] # s.object
      BY <1>4, <2>4
    <3>2. v # s.object
      <4>1. CASE Taken(v, q)
        <5>1. SUFFICES ASSUME v = s.object
                       PROVE  FALSE
          OBVIOUS
        <5>2. link[q] = s.object /\ all[OwnerOf(q)] = <<>>
          BY <1>4, <4>1, <5>1 DEF Taken
        <5>3. q = s.to
          BY <2>4, <5>2
        <5>4. QED
          BY <1>1, <5>2, <5>3, PendingIs, PtrConstants
      <4>2. CASE New(p, v, q)
        BY <1>4, <1>7, <2>1, <4>2 DEF New
      <4>3. QED
        BY <4>1, <4>2 DEF Sets
    <3>3. {r \in Ptrs : link'[r] = s.object} = {r \in Ptrs : link[r] = s.object}
      BY <1>6, <3>1, <3>2
    <3>4. QED
      BY <1>2, <1>3, <1>5, <2>4, <3>1, <3>2, <3>3
  <2>5. QED
    BY <1>2, <2>1, <2>2, <2>3, <2>4
<1>10. \A s \in Counted!Pending' : s.change = 1 => Good(s)
  BY <1>2, <1>3, <1>5, <1>8, <1>9
<1>11. QED
  BY <1>10 DEF Counted!Sourced, Counted!Refer

\* An injection into a set: as many members at least.
LEMMA InjectionIs ==
  ASSUME NEW A, NEW T, IsFiniteSet(T), NEW f,
         \A s \in A : f[s] \in T, \A s, r \in A : f[s] = f[r] => s = r
  PROVE  /\ Cardinality(A) <= Cardinality(T)
         /\ Cardinality(A) = Cardinality(T) => \A y \in T : \E s \in A : f[s] = y
<1> DEFINE g == [s \in A |-> f[s]]
<1>1. g \in Injection(A, T)
  BY DEF Injection, IsInjective
<1>2. Cardinality(A) <= Cardinality(T) /\ (Cardinality(A) = Cardinality(T) <=> g \in Surjection(A, T))
  BY <1>1, FS_Injection
<1>3. g \in Surjection(A, T) => \A y \in T : \E s \in A : f[s] = y
  BY DEF Surjection
<1>4. QED
  BY <1>2, <1>3

\* An increment left of an object has a reference of its own; when there is
\* none more and no other decrement than d, then none is left.
LEMMA LastIs ==
  ASSUME Counted!IInv, NEW x \in Values, NEW d \in Counted!Left(-1, x),
         \A r \in Counted!Pending :
           OwnerOf(r.to) = OwnerOf(d.to) /\ r.change = 1 => d.change = 1
  PROVE  /\ Cardinality(Counted!Left(1, x)) <= Cardinality(Counted!Refer(x))
         /\ /\ Cardinality(Counted!Left(1, x)) = Cardinality(Counted!Refer(x))
            /\ Counted!Left(-1, x) = {d}
            => Counted!Left(1, x) = {} /\ Counted!Refer(x) = {}
<1> DEFINE I == Counted!Left(1, x)
           R == Counted!Refer(x)
           f == [s \in I |-> s.to]
<1>1. Counted!Types /\ Counted!CallsRight /\ Counted!Sourced
  BY DEF Counted!IInv
<1>2. \A s \in I : s \in Counted!Pending /\ s.change = 1 /\ s.object = x
  BY DEF Counted!Left
<1>3. d \in Counted!Pending /\ d.change = -1 /\ d.object = x /\ 1 # -1
  BY DEF Counted!Left
<1>4. \A s \in I : s.to \in R /\ s.from \in R
  BY <1>1, <1>2, PendingIs DEF Counted!Sourced, Counted!Refer, Counted!Steps
<1>5. \A s, r \in I : s.to = r.to => s = r
  BY <1>1, <1>2, PendingIs
<1>6. IsFiniteSet(R)
  BY <1>1, TalliesFinite
<1>7. /\ \A s \in I : f[s] = s.to
      /\ \A s \in I : f[s] \in R
      /\ \A s, r \in I : f[s] = f[r] => s = r
  BY <1>4, <1>5
<1> HIDE DEF f, I, R
<1>8. /\ Cardinality(I) <= Cardinality(R)
      /\ Cardinality(I) = Cardinality(R) => \A y \in R : \E s \in I : f[s] = y
  BY <1>6, <1>7, InjectionIs
<1>9. ASSUME Cardinality(I) = Cardinality(R), Counted!Left(-1, x) = {d}
      PROVE  I = {} /\ R = {}
  <2>1. \A y \in R : \E s \in I : s.to = y
    BY <1>7, <1>8, <1>9
  <2>2. ASSUME NEW r \in I
        PROVE  FALSE
    <3>1. r \in Counted!Pending /\ r.change = 1 /\ r.object = x /\ OwnerOf(r.to) # OwnerOf(d.to)
      BY <1>2, <1>3
    <3>2. r.from # r.to => \A s \in Counted!Pending : s.change = 1 => s.to # r.from
      BY <1>1, <3>1 DEF Counted!Sourced
    <3>3. r.from = r.to =>
            \/ \E s \in Counted!Pending : s.change = -1 /\ s.object = x /\ s.to = r.to
            \/ \A s \in Counted!Pending : s.object = x => s = r
      BY <1>1, <3>1 DEF Counted!Sourced
    <3>4. PICK s \in I : s.to = r.from
      BY <1>4, <2>1
    <3>5. r.from = r.to
      BY <1>2, <3>2, <3>4
    <3>6. \A s1 \in Counted!Pending : s1.change = -1 /\ s1.object = x => s1 = d
      BY <1>9 DEF Counted!Left
    <3>7. QED
      BY <1>3, <3>1, <3>3, <3>5, <3>6
  <2>3. QED
    BY <2>1, <2>2
<1>10. QED
  BY <1>8, <1>9 DEF I, R

\* A step done keeps the counts right: an object is deleted with its last
\* reference, when nobody has anything left to do with it.
LEMMA CountCounts ==
  ASSUME Counted!IInv, NEW t \in Threads, Counted!Count(t)
  PROVE  Counted!IInv'
<1>1. Counted!Types /\ Counted!CallsRight /\ Counted!Sourced /\ Counted!CountsReferences
  BY DEF Counted!IInv
<1>2. PICK s \in Counted!Pending :
        /\ Counted!Pending' = Counted!Pending \ {s}
        /\ link' = link
        /\ made' = [made EXCEPT ![s.object] =
                      IF s.change = -1 /\ made[s.object] + s.change = 0
                      THEN None ELSE made[s.object] + s.change]
        /\ \A r \in Counted!Pending :
             OwnerOf(r.to) = OwnerOf(s.to) /\ r.change = 1 => s.change = 1
        /\ all' \in [Threads -> Seq(Counted!Steps)] /\ Counted!CallsRight'
  BY <1>1, CountRemoves
<1>3. /\ s.object \in Values /\ s.to \in Ptrs /\ s.from \in Ptrs
      /\ s.change = 1 \/ s.change = -1
      /\ 1 # -1
  BY <1>1, PendingIs DEF Counted!Steps
<1> DEFINE x == s.object
           R == Counted!Refer(x)
           I == Counted!Left(1, x)
           D == Counted!Left(-1, x)
<1>4. \A y : Counted!Refer(y)' = Counted!Refer(y)
  BY <1>2 DEF Counted!Refer
<1>5. \A y, c : Counted!Left(c, y)' = Counted!Left(c, y) \ {s}
  BY <1>2 DEF Counted!Left
<1>6. \A y \in Values : /\ made[y] # None <=> \/ Counted!Refer(y) # {}
                                              \/ Counted!Left(1, y) # {}
                                              \/ Counted!Left(-1, y) # {}
                        /\ made[y] # None =>
                             made[y] = Cardinality(Counted!Refer(y))
                               - Cardinality(Counted!Left(1, y)) + Cardinality(Counted!Left(-1, y))
  BY <1>1, PtrsCount DEF Counted!CountsReferences, Counted!Allocated
<1>7. /\ IsFiniteSet(R) /\ IsFiniteSet(I) /\ IsFiniteSet(D)
      /\ Cardinality(R) \in Nat /\ Cardinality(I) \in Nat /\ Cardinality(D) \in Nat
  BY <1>1, TalliesFinite
<1>8. \A y, c : y # x \/ c # s.change => s \notin Counted!Left(c, y)
  BY DEF Counted!Left
<1>9. s \in Counted!Left(s.change, x)
  BY DEF Counted!Left
<1>10. /\ made[x] # None /\ made[x] \in Int
       /\ made[x] = Cardinality(R) - Cardinality(I) + Cardinality(D)
  <2>1. I # {} \/ D # {}
    BY <1>3, <1>9
  <2>2. QED
    BY <1>3, <1>6, <1>7, <2>1
<1>11. s.change = -1 /\ made[x] + s.change = 0 => R = {} /\ I = {} /\ D = {s}
  <2>1. SUFFICES ASSUME s.change = -1, made[x] + s.change = 0
                 PROVE  R = {} /\ I = {} /\ D = {s}
    OBVIOUS
  <2>2. s \in D
    BY <1>9, <2>1
  <2>3. /\ Cardinality(I) <= Cardinality(R)
        /\ Cardinality(I) = Cardinality(R) /\ D = {s} => I = {} /\ R = {}
    BY <1>2, <1>3, <2>2, LastIs
  <2> HIDE DEF R, I, D, x
  <2>4. Cardinality(D \ {s}) = Cardinality(D) - 1 /\ IsFiniteSet(D \ {s})
    BY <1>7, <2>2, FS_RemoveElement
  <2>5. Cardinality(D \ {s}) \in Nat
    BY <2>4, FS_CardinalityType
  <2>6. Cardinality(R) - Cardinality(I) + Cardinality(D) = 1
    BY <1>10, <2>1
  <2>7. Cardinality(D \ {s}) = 0 /\ Cardinality(I) = Cardinality(R)
    <3>1. \A r, i, d, e \in Nat : i <= r /\ e = d - 1 /\ r - i + d = 1 => e = 0 /\ i = r
      OBVIOUS
    <3>2. Cardinality(I) <= Cardinality(R)
      BY <2>3
    <3>3. QED
      BY <1>7, <2>4, <2>5, <2>6, <3>1, <3>2
  <2>8. D \ {s} = {}
    BY <2>4, <2>7, FS_EmptySet
  <2>9. D = {s}
    BY <2>2, <2>8
  <2>10. QED
    BY <2>3, <2>7, <2>9
<1>12. Counted!Types'
  <2>1. made' \in [Values -> Int \cup {None}]
    <3>1. made[x] + s.change \in Int
      BY <1>3, <1>10
    <3>2. QED
      BY <1>1, <1>2, <3>1 DEF Counted!Types
  <2>2. QED
    BY <1>1, <1>2, <2>1 DEF Counted!Types, Counted!Steps
<1>13. Counted!CountsReferences'
  <2>1. SUFFICES ASSUME NEW y \in Values
                 PROVE  /\ made'[y] # None <=> \/ Counted!Refer(y) # {}
                                               \/ Counted!Left(1, y) \ {s} # {}
                                               \/ Counted!Left(-1, y) \ {s} # {}
                        /\ made'[y] # None =>
                             made'[y] = Cardinality(Counted!Refer(y))
                               - Cardinality(Counted!Left(1, y) \ {s})
                               + Cardinality(Counted!Left(-1, y) \ {s})
    BY <1>4, <1>5, PtrsCount DEF Counted!CountsReferences, Counted!Allocated
  <2>2. made'[y] = IF y = x
                   THEN IF s.change = -1 /\ made[x] + s.change = 0
                        THEN None ELSE made[x] + s.change
                   ELSE made[y]
    BY <1>1, <1>2 DEF Counted!Types
  <2>3. CASE y # x
    <3>1. Counted!Left(1, y) \ {s} = Counted!Left(1, y) /\ Counted!Left(-1, y) \ {s} = Counted!Left(-1, y)
      BY <1>8, <2>3
    <3>2. QED
      BY <1>6, <2>2, <2>3, <3>1
  <2>4. CASE y = x /\ s.change = 1
    <3>1. s \in I /\ D \ {s} = D
      BY <1>3, <1>8, <1>9, <2>4
    <3>2. s.to \in R
      BY <1>1, <1>3, <2>4 DEF Counted!Sourced, Counted!Refer
    <3>3. made'[y] = made[x] + 1 /\ made'[y] # None
      <4>1. made[x] + 1 \in Int
        BY <1>10
      <4>2. QED
        BY <1>3, <2>2, <2>4, <4>1, PtrConstants
    <3> HIDE DEF R, I, D, x
    <3>4. Cardinality(I \ {s}) = Cardinality(I) - 1
      BY <1>7, <3>1, FS_RemoveElement
    <3>5. made'[y] = Cardinality(R) - Cardinality(I \ {s}) + Cardinality(D \ {s})
      <4>1. \A r, i, d \in Nat : r - i + d + 1 = r - (i - 1) + d
        OBVIOUS
      <4>2. Cardinality(R) - Cardinality(I) + Cardinality(D) + 1
              = Cardinality(R) - Cardinality(I \ {s}) + Cardinality(D)
        BY <1>7, <3>4, <4>1
      <4>3. QED
        BY <1>10, <3>1, <3>3, <4>2
    <3>6. QED
      BY <2>4, <3>2, <3>3, <3>5 DEF R, I, D
  <2>5. CASE y = x /\ s.change = -1
    <3>1. s \in D /\ I \ {s} = I
      BY <1>3, <1>8, <1>9, <2>5
    <3>2. CASE made[x] + s.change = 0
      <4>1. made'[y] = None /\ R = {} /\ I \ {s} = {} /\ D \ {s} = {}
        BY <1>11, <2>2, <2>5, <3>2
      <4>2. QED
        BY <2>5, <4>1
    <3>3. CASE made[x] + s.change # 0
      <4>1. made'[y] = made[x] - 1 /\ made'[y] # None
        <5>1. made[x] - 1 \in Int /\ made[x] + (-1) = made[x] - 1
          BY <1>10
        <5>2. QED
          BY <2>2, <2>5, <3>3, <5>1, PtrConstants
      <4> HIDE DEF R, I, D, x
      <4>2. Cardinality(D \ {s}) = Cardinality(D) - 1
        BY <1>7, <3>1, FS_RemoveElement
      <4>3. made'[y] = Cardinality(R) - Cardinality(I \ {s}) + Cardinality(D \ {s})
        <5>1. \A r, i, d \in Nat : (r - i + d) - 1 = r - i + (d - 1)
          OBVIOUS
        <5>2. Cardinality(R) \in Nat /\ Cardinality(I) \in Nat /\ Cardinality(D) \in Nat
          BY <1>7
        <5>3. (Cardinality(R) - Cardinality(I) + Cardinality(D)) - 1
                = Cardinality(R) - Cardinality(I) + (Cardinality(D) - 1)
          BY <5>1, <5>2
        <5>4. I \ {s} = I /\ Cardinality(D \ {s}) = Cardinality(D) - 1
          BY <3>1, <4>2
        <5>5. QED
          BY <1>10, <4>1, <5>3, <5>4
      <4>4. R # {} \/ I \ {s} # {} \/ D \ {s} # {}
        <5>1. SUFFICES ASSUME R = {}, I \ {s} = {}, D \ {s} = {}
                       PROVE  FALSE
          OBVIOUS
        <5>2. Cardinality(R) = 0 /\ Cardinality(I \ {s}) = 0 /\ Cardinality(D \ {s}) = 0
          BY <5>1, FS_EmptySet
        <5>3. made'[y] = 0
          BY <4>3, <5>2
        <5>4. made[x] - 1 = 0
          BY <4>1, <5>3
        <5>5. QED
          BY <1>10, <2>5, <3>3, <5>4
      <4>5. QED
        BY <2>5, <4>1, <4>3, <4>4 DEF R, I, D
    <3>4. QED
      BY <3>2, <3>3
  <2>6. QED
    BY <1>3, <2>3, <2>4, <2>5
<1>14. Counted!Sourced'
  <2>1. SUFFICES ASSUME NEW r \in Counted!Pending, r # s, r.change = 1
                 PROVE  /\ link[r.to] = r.object /\ link[r.from] = r.object
                        /\ r.from # r.to =>
                             \A r1 \in Counted!Pending \ {s} : r1.change = 1 => r1.to # r.from
                        /\ r.from = r.to =>
                             \/ \E r1 \in Counted!Pending \ {s} :
                                  r1.change = -1 /\ r1.object = r.object /\ r1.to = r.to
                             \/ /\ Counted!Refer(r.object) = {r.to}
                                /\ \A r1 \in Counted!Pending \ {s} : r1.object = r.object => r1 = r
    BY <1>2, <1>4 DEF Counted!Sourced
  <2>2. /\ link[r.to] = r.object /\ link[r.from] = r.object
        /\ r.from # r.to =>
             \A r1 \in Counted!Pending : r1.change = 1 => r1.to # r.from
        /\ r.from = r.to =>
             \/ \E r1 \in Counted!Pending :
                  r1.change = -1 /\ r1.object = r.object /\ r1.to = r.to
             \/ /\ Counted!Refer(r.object) = {r.to}
                /\ \A r1 \in Counted!Pending : r1.object = r.object => r1 = r
    BY <1>1, <2>1 DEF Counted!Sourced
  <2>3. ASSUME NEW r1 \in Counted!Pending, r1.change = -1, r1.to = r.to
        PROVE  r1 # s
    <3>1. SUFFICES ASSUME r1 = s
                   PROVE  FALSE
      OBVIOUS
    <3>2. s.change = 1
      BY <1>2, <2>1, <2>3, <3>1
    <3>3. QED
      BY <1>3, <2>3, <3>1, <3>2
  <2>4. QED
    BY <2>2, <2>3
<1>15. QED
  BY <1>2, <1>12, <1>13, <1>14 DEF Counted!IInv

\* The counters of the Ptrs are not those of another structure.
LEMMA PtrsInit == InitLists => PtrsInv
<1>1. SUFFICES ASSUME InitLists, part = "counted"
               PROVE  Counted!IInv
  BY DEF PtrsInv
<1>2. Counted!Init
  BY <1>1 DEF InitLists
<1>3. Counted!Types
  BY <1>2, EmptySeq DEF Counted!Init, Counted!Types
<1>4. /\ \A t \in Threads : all[t] = <<>>
      /\ \A p \in Ptrs : link[p] = None
      /\ \A o \in Values : made[o] = None
  BY <1>2 DEF Counted!Init
<1>5. Len(<<>>) = 0 /\ DOMAIN <<>> = {}
  OBVIOUS
<1>6. Counted!CallsRight
  BY <1>4, <1>5 DEF Counted!CallsRight
<1>7. Counted!Pending = {}
  BY <1>4, <1>5 DEF Counted!Pending
<1>8. \A o \in Values : Counted!Refer(o) = {}
  BY <1>4, PtrConstants DEF Counted!Refer
<1>9. \A c, o : Counted!Left(c, o) = {}
  BY <1>7 DEF Counted!Left
<1>10. QED
  BY <1>3, <1>4, <1>6, <1>7, <1>8, <1>9
  DEF Counted!IInv, Counted!Sourced, Counted!CountsReferences, Counted!Allocated

\* Every step of the counted pointers keeps their invariant.
LEMMA PtrsNext == PtrsInv /\ [NextLists]_vars => PtrsInv'
<1>1. SUFFICES ASSUME PtrsInv, [NextLists]_vars, part' = "counted"
               PROVE  Counted!IInv'
  BY DEF PtrsInv
<1>2. part = "counted" /\ (Counted!Next \/ UNCHANGED vars)
  BY <1>1 DEF NextLists, vars, TableStep, LinkedStep, SimpleStep, SinglyStep, SortedStep,
    StackStep, CountedStep, Same
<1>3. Counted!IInv
  BY <1>1, <1>2 DEF PtrsInv
<1>4. CASE UNCHANGED vars
  <2>1. link' = link /\ made' = made /\ all' = all
    BY <1>4 DEF vars
  <2>2. Counted!Types' /\ Counted!CallsRight'
    BY <1>3, <2>1 DEF Counted!IInv, Counted!Types, Counted!Steps, Counted!CallsRight
  <2>3. /\ Counted!Pending' = Counted!Pending
        /\ \A o : Counted!Refer(o)' = Counted!Refer(o)
    BY <2>1 DEF Counted!Pending, Counted!Refer
  <2>4. \A c, o : Counted!Left(c, o)' = Counted!Left(c, o)
    BY <2>3 DEF Counted!Left
  <2>5. Counted!Sourced'
    BY <1>3, <2>1, <2>3 DEF Counted!IInv, Counted!Sourced
  <2>6. Counted!CountsReferences'
    BY <1>3, <2>1, <2>3, <2>4, PtrsCount
    DEF Counted!IInv, Counted!CountsReferences, Counted!Allocated
  <2>7. QED
    BY <2>2, <2>5, <2>6 DEF Counted!IInv
<1>5. ASSUME NEW p \in Ptrs, Counted!Call(p)
      PROVE  Counted!IInv'
  <2>1. PICK v \in Values \cup {None, a0}, q \in Ptrs : Sets(p, v, q)
    BY <1>3, <1>5, CallIs
  <2>2. Counted!Types' /\ Counted!CallsRight'
    BY <1>3, <2>1, CallAdds DEF Counted!IInv
  <2>3. Counted!CountsReferences' /\ Counted!Sourced'
    BY <1>3, <2>1, CallCounts, CallSources
  <2>4. QED
    BY <2>2, <2>3 DEF Counted!IInv
<1>6. ASSUME NEW t \in Threads, Counted!Count(t)
      PROVE  Counted!IInv'
  BY <1>3, <1>6, CountCounts
<1>7. QED
  BY <1>2, <1>4, <1>5, <1>6 DEF Counted!Next

-----------------------------------------------------------------------------
(* The types of the Ptrs, and the sources of the increments left, hold     *)
(* from call to call and from step to step.                                *)
THEOREM PtrsInvariance == SpecLists => []PtrsInv
<1>1. InitLists => PtrsInv
  BY PtrsInit
<1>2. PtrsInv /\ [NextLists]_vars => PtrsInv'
  BY PtrsNext
<1>3. QED
  BY <1>1, <1>2, PTL DEF SpecLists

(* An object is deleted when nobody points to it any more and nothing is   *)
(* left to count of it, neither earlier nor never, and its count is that   *)
(* of the references but for the steps left (Ptr, AtomicInc32 and          *)
(* AtomicDec32 of any number of threads).                                  *)
THEOREM ReferencesCounted == SpecLists => []CountsRight
<1>1. PtrsInv => CountsRight
  BY DEF PtrsInv, CountsRight, Counted!IInv
<1>2. QED
  BY <1>1, PtrsInvariance, PTL

-----------------------------------------------------------------------------
(* The stack.                                                              *)

\* The items are in the first slots of the array, of which there are enough.
StackTypes ==
  /\ link \in Seq(Values \cup {None}) /\ Len(link) >= InitSize
  /\ nitems \in 0 .. Len(link)
  /\ \A i \in 1 .. nitems : link[i] \in Values
StackInv == part = "stack" => StackTypes

\* A product is not less than one of smaller factors.
LEMMA Monotonic ==
  ASSUME NEW m \in Nat, NEW n \in Nat, NEW d \in Nat, m <= n
  PROVE  m * d <= n * d
<1>1. n - m \in Nat /\ n = m + (n - m)
  OBVIOUS
<1>2. PICK k \in Nat : n = m + k
  BY <1>1
<1>3. n * d = m * d + k * d
  BY <1>2
<1>4. k * d \in Nat /\ m * d \in Nat
  OBVIOUS
<1>5. QED
  BY <1>3, <1>4

\* The factor is large enough for every array.
LEMMA NewSizeIs ==
  ASSUME NEW n \in Nat, n >= InitSize
  PROVE  Stack!NewSize(n) \in Nat /\ Stack!NewSize(n) > n
<1>1. /\ InitSize \in Nat /\ Num \in Nat /\ Den \in Nat /\ Den > 0 /\ Num >= Den
      /\ InitSize * Num >= (InitSize + 1) * Den
  BY StackAssumption
<1>2. n - InitSize \in Nat /\ n = InitSize + (n - InitSize)
  BY <1>1
<1>3. PICK k \in Nat : n = InitSize + k
  BY <1>2
<1>4. n * Num >= (n + 1) * Den
  <2>1. n * Num = InitSize * Num + k * Num
    BY <1>1, <1>3
  <2>2. (n + 1) * Den = (InitSize + 1) * Den + k * Den
    BY <1>1, <1>3
  <2>3. Num * k >= Den * k
    BY <1>1, Monotonic
  <2>4. /\ Num * k = k * Num /\ Den * k = k * Den
        /\ k * Num \in Nat /\ k * Den \in Nat
        /\ InitSize * Num \in Nat /\ (InitSize + 1) * Den \in Nat
    BY <1>1
  <2>5. QED
    BY <1>1, <2>1, <2>2, <2>3, <2>4
<1> DEFINE q == (n * Num) \div Den
<1>5. n * Num \in Nat
  BY <1>1
<1>6. q \in Int /\ n * Num - Den * q < Den
  BY <1>1, <1>5
<1> HIDE DEF q
<1>7. q >= n + 1
  <2>1. SUFFICES ASSUME q <= n
                 PROVE  FALSE
    BY <1>6
  <2>2. CASE q >= 0
    <3>1. q * Den <= n * Den
      BY <1>1, <1>6, <2>1, <2>2, Monotonic
    <3>2. q * Den = Den * q /\ (n + 1) * Den = n * Den + Den /\ Den * q \in Int /\ n * Den \in Int
      BY <1>1, <1>6
    <3>3. QED
      BY <1>1, <1>4, <1>5, <1>6, <3>1, <3>2
  <2>3. CASE q < 0
    <3>1. Den * q <= 0
      BY <1>1, <1>6, <2>3
    <3>2. (n + 1) * Den = n * Den + Den /\ n * Den \in Nat /\ Den * q \in Int
      BY <1>1, <1>6
    <3>3. QED
      BY <1>1, <1>4, <1>5, <1>6, <3>1, <3>2
  <2>4. QED
    BY <1>6, <2>2, <2>3
<1>8. QED
  BY <1>6, <1>7 DEF Stack!NewSize, q

\* Push writes behind the items, in an array that has them all.
LEMMA PushIs ==
  ASSUME StackTypes, NEW v \in Values, Stack!push(v)
  PROVE  /\ StackTypes' /\ nitems' = nitems + 1
         /\ \A i \in 1 .. nitems : link'[i] = link[i]
         /\ link'[nitems + 1] = v
<1> DEFINE grows == Stack!Full(nitems, Len(link))
           size == IF grows THEN Stack!NewSize(Len(link)) ELSE Len(link)
           larger == [i \in 1 .. size |-> IF i <= nitems THEN link[i] ELSE None]
<1>1. /\ link \in Seq(Values \cup {None}) /\ Len(link) \in Nat /\ DOMAIN link = 1 .. Len(link)
      /\ nitems \in Nat /\ nitems <= Len(link) /\ Len(link) >= InitSize
      /\ \A i \in 1 .. nitems : link[i] \in Values
      /\ InitSize \in Nat
  BY StackAssumption DEF StackTypes
<1>2. nitems < size /\ link' = [larger EXCEPT ![nitems + 1] = v] /\ nitems' = nitems + 1
  BY DEF Stack!push, Stack!CurrArraySize, Stack!grown
<1>3. size \in Nat /\ size >= Len(link)
  BY <1>1, NewSizeIs
<1> HIDE DEF size
<1>4. larger \in [1 .. size -> Values \cup {None}]
  BY <1>1
<1>5. /\ link' \in [1 .. size -> Values \cup {None}]
      /\ \A i \in 1 .. size : link'[i] = IF i = nitems + 1 THEN v ELSE larger[i]
  BY <1>1, <1>2, <1>4
<1>6. link' \in Seq(Values \cup {None}) /\ Len(link') = size
  BY <1>3, <1>5
<1>7. \A i \in 1 .. nitems : i \in 1 .. size /\ i # nitems + 1 /\ i <= nitems
  BY <1>1, <1>2, <1>3
<1>8. \A i \in 1 .. nitems : link'[i] = link[i]
  BY <1>5, <1>7
<1>9. link'[nitems + 1] = v
  BY <1>1, <1>2, <1>3, <1>5
<1>10. \A i \in 1 .. nitems + 1 : link'[i] \in Values
  <2>1. \A i \in 1 .. nitems + 1 : i \in 1 .. nitems \/ i = nitems + 1
    BY <1>1
  <2>2. QED
    BY <1>1, <1>8, <1>9, <2>1
<1>11. StackTypes'
  BY <1>1, <1>2, <1>3, <1>6, <1>10 DEF StackTypes
<1>12. QED
  BY <1>2, <1>8, <1>9, <1>11

\* The items as a sequence.
LEMMA ItemsIs ==
  ASSUME StackTypes
  PROVE  /\ Stack!Items \in Seq(Values) /\ Len(Stack!Items) = nitems
         /\ \A i \in 1 .. nitems : Stack!Items[i] = link[i]
<1>1. /\ link \in Seq(Values \cup {None}) /\ Len(link) \in Nat
      /\ nitems \in Nat /\ nitems <= Len(link)
      /\ \A i \in 1 .. nitems : link[i] \in Values
  BY DEF StackTypes
<1>2. Stack!Items = SubSeq(link, 1, nitems)
  BY DEF Stack!Items
<1>3. SubSeq(link, 1, nitems) = [i \in 1 .. nitems |-> link[i]]
  BY <1>1
<1>4. QED
  BY <1>1, <1>2, <1>3

\* And after a step.
LEMMA ItemsNext ==
  (StackTypes => /\ Stack!Items \in Seq(Values) /\ Len(Stack!Items) = nitems
                 /\ \A i \in 1 .. nitems : Stack!Items[i] = link[i])'
<1>1. StackTypes => /\ Stack!Items \in Seq(Values) /\ Len(Stack!Items) = nitems
                    /\ \A i \in 1 .. nitems : Stack!Items[i] = link[i]
  BY ItemsIs
<1>2. QED
  BY <1>1, PTL

\* Push appends an item to the sequence of the items, pop takes the last.
LEMMA StackSteps ==
  ASSUME StackTypes, StackTypes'
  PROVE  /\ \A v \in Values : Stack!push(v) => Stack!Items' = Append(Stack!Items, v)
         /\ Stack!pop => /\ Stack!Items # <<>>
                         /\ link[nitems] = Stack!Items[Len(Stack!Items)]
                         /\ Stack!Items' = Stack!Sequences!RemoveAt(Stack!Items, Len(Stack!Items))
<1> DEFINE s == Stack!Items
           r == Stack!Items'
<1>1. /\ s \in Seq(Values) /\ Len(s) = nitems /\ \A i \in 1 .. nitems : s[i] = link[i]
      /\ nitems \in Nat
  BY ItemsIs DEF StackTypes
<1>2. /\ r \in Seq(Values) /\ Len(r) = nitems' /\ \A i \in 1 .. nitems' : r[i] = link'[i]
  BY ItemsNext
<1> HIDE DEF s, r
<1>3. ASSUME NEW v \in Values, Stack!push(v)
      PROVE  r = Append(s, v)
  <2>1. /\ nitems' = nitems + 1 /\ link'[nitems + 1] = v
        /\ \A i \in 1 .. nitems : link'[i] = link[i]
    BY <1>3, PushIs
  <2>2. /\ Append(s, v) \in Seq(Values) /\ Len(Append(s, v)) = nitems + 1
        /\ \A i \in 1 .. nitems : Append(s, v)[i] = s[i]
        /\ Append(s, v)[nitems + 1] = v
    BY <1>1
  <2>3. \A i \in 1 .. nitems + 1 : i \in 1 .. nitems \/ i = nitems + 1
    BY <1>1
  <2>4. \A i \in 1 .. nitems + 1 : r[i] = Append(s, v)[i]
    BY <1>1, <1>2, <2>1, <2>2, <2>3
  <2>5. QED
    BY <1>2, <2>1, <2>2, <2>4, SeqEqual
<1>4. ASSUME Stack!pop
      PROVE  /\ s # <<>> /\ link[nitems] = s[Len(s)]
             /\ r = Stack!Sequences!RemoveAt(s, Len(s))
  <2>1. nitems >= 1 /\ nitems' = nitems - 1 /\ link' = link
    BY <1>4 DEF Stack!pop
  <2>2. s # <<>> /\ link[nitems] = s[Len(s)]
    BY <1>1, <2>1
  <2>3. Stack!Sequences!RemoveAt(s, Len(s)) = SubSeq(s, 1, Len(s) - 1) \o SubSeq(s, Len(s) + 1, Len(s))
    BY DEF Stack!Sequences!RemoveAt
  <2>4. SubSeq(s, Len(s) + 1, Len(s)) = <<>>
    BY <1>1
  <2>5. /\ SubSeq(s, 1, Len(s) - 1) \in Seq(Values) /\ Len(SubSeq(s, 1, Len(s) - 1)) = nitems - 1
        /\ \A i \in 1 .. nitems - 1 : SubSeq(s, 1, Len(s) - 1)[i] = s[i]
    BY <1>1, <2>1
  <2>6. \A i \in 1 .. nitems - 1 : r[i] = SubSeq(s, 1, Len(s) - 1)[i]
    BY <1>1, <1>2, <2>1, <2>5
  <2>7. r = SubSeq(s, 1, Len(s) - 1)
    BY <1>2, <2>1, <2>5, <2>6, SeqEqual
  <2>8. QED
    BY <2>2, <2>3, <2>4, <2>5, <2>7, ConcatEmptySeq
<1>5. QED
  BY <1>3, <1>4 DEF s, r

\* The stack keeps its types.
LEMMA StackNext == StackInv /\ [NextLists]_vars => StackInv'
<1>1. SUFFICES ASSUME StackInv, [NextLists]_vars, part' = "stack"
               PROVE  StackTypes'
  BY DEF StackInv
<1>2. part = "stack" /\ (Stack!Next \/ UNCHANGED vars)
  BY <1>1 DEF NextLists, vars, TableStep, LinkedStep, SimpleStep, SinglyStep, SortedStep,
    StackStep, CountedStep, Same
<1>3. StackTypes
  BY <1>1, <1>2 DEF StackInv
<1>4. CASE UNCHANGED vars
  BY <1>3, <1>4 DEF vars, StackTypes
<1>5. ASSUME NEW v \in Values, Stack!push(v)
      PROVE  StackTypes'
  BY <1>3, <1>5, PushIs
<1>6. CASE Stack!pop
  <2>1. nitems \in Nat /\ nitems >= 1 /\ nitems' = nitems - 1 /\ link' = link /\ nitems <= Len(link)
    BY <1>3, <1>6 DEF Stack!pop, StackTypes
  <2>2. nitems' \in 0 .. Len(link') /\ \A i \in 1 .. nitems' : i \in 1 .. nitems
    BY <1>3, <2>1 DEF StackTypes
  <2>3. QED
    BY <1>3, <2>1, <2>2 DEF StackTypes
<1>7. QED
  BY <1>2, <1>4, <1>5, <1>6 DEF Stack!Next

\* At first the array is empty.
LEMMA StackInit == InitLists => StackInv
<1>1. SUFFICES ASSUME InitLists, part = "stack"
               PROVE  StackTypes
  BY DEF StackInv
<1>2. link = [i \in 1 .. InitSize |-> None] /\ nitems = 0
  BY <1>1 DEF InitLists, Stack!Init
<1>3. InitSize \in Nat
  BY StackAssumption
<1>4. link \in Seq(Values \cup {None}) /\ Len(link) = InitSize
  BY <1>2, <1>3
<1>5. QED
  BY <1>2, <1>3, <1>4 DEF StackTypes

(* The last item pushed is the first popped, through all the arrays, and   *)
(* the assert of push never fails, whatever the first size and the factor, *)
(* as long as the first array grows by an item (StackArray).               *)
THEOREM StackIsLIFO == SpecLists => LastInFirstOut
<1>1. InitLists => StackInv
  BY StackInit
<1>2. StackInv /\ [NextLists]_vars => StackInv'
  BY StackNext
<1>3. SpecLists => []StackInv
  BY <1>1, <1>2, PTL DEF SpecLists
<1>4. StackInv /\ StackInv' /\ [NextLists]_vars =>
        [part = "stack" => Stack!GrowsWhenFull /\ [Stack!Sequences!Next]_(Stack!Sequences!vars)]_vars
  <2>1. SUFFICES ASSUME StackInv, StackInv', [NextLists]_vars, part = "stack"
                 PROVE  \/ Stack!GrowsWhenFull /\ [Stack!Sequences!Next]_(Stack!Sequences!vars)
                        \/ UNCHANGED vars
    OBVIOUS
  <2>2. /\ part' = "stack" /\ StackTypes /\ StackTypes'
        /\ Stack!Next \/ UNCHANGED vars
    BY <2>1 DEF NextLists, vars, TableStep, LinkedStep, SimpleStep, SinglyStep, SortedStep,
      StackStep, CountedStep, Same, StackInv
  <2>3. Stack!GrowsWhenFull
    <3>1. Len(link) \in Nat /\ Len(link) >= InitSize /\ nitems <= Len(link) /\ nitems \in Nat
      BY <2>2 DEF StackTypes
    <3>2. Stack!NewSize(Len(link)) > Len(link) /\ Stack!NewSize(Len(link)) \in Nat
      BY <3>1, NewSizeIs
    <3>3. QED
      BY <3>1, <3>2 DEF Stack!GrowsWhenFull, Stack!Full, Stack!CurrArraySize
  <2>4. Stack!Items # None /\ Stack!Items \in Seq(Values)
    <3>1. Stack!Items \in Seq(Values)
      BY <2>2, ItemsIs
    <3>2. Stack!Items \in Seq(Values \cup {None})
      BY <3>1, SeqMonotonic
    <3>3. QED
      BY <3>1, <3>2, StackAssumption
  <2>5. ASSUME NEW v \in Values, Stack!push(v)
        PROVE  Stack!Sequences!Next
    <3>1. Stack!Items' = Append(Stack!Items, v) /\ ret' = <<"pushTail", 0, v>>
      BY <2>2, <2>5, StackSteps DEF Stack!push
    <3>2. Stack!Sequences!PushTail(0, v)
      BY <2>4, <3>1 DEF Stack!Sequences!PushTail, Stack!Sequences!Exists, Stack!Sequences!Becomes
    <3>3. QED
      BY <3>2 DEF Stack!Sequences!Next
  <2>6. ASSUME Stack!pop
        PROVE  Stack!Sequences!Next
    <3>1. /\ Stack!Items # <<>> /\ ret' = <<"popTail", 0, Stack!Items[Len(Stack!Items)]>>
          /\ Stack!Items' = Stack!Sequences!RemoveAt(Stack!Items, Len(Stack!Items))
      BY <2>2, <2>6, StackSteps DEF Stack!pop
    <3>2. Stack!Sequences!PopTail(0)
      BY <2>4, <3>1 DEF Stack!Sequences!PopTail, Stack!Sequences!Pops, Stack!Sequences!Exists,
        Stack!Sequences!Becomes
    <3>3. QED
      BY <3>2 DEF Stack!Sequences!Next
  <2>7. QED
    BY <2>2, <2>3, <2>5, <2>6 DEF Stack!Next
<1>5. QED
  BY <1>3, <1>4, PTL DEF SpecLists, LastInFirstOut
=============================================================================
