---------------------------- MODULE LinkListsProof ----------------------------
(***************************************************************************)
(* The linked lists and the hash table of MCLists, for any number of       *)
(* lists, elements, keys and buckets: every call does to the sequences     *)
(* what it says, whatever stale pointers the elements have.                *)
(***************************************************************************)
EXTENDS MCLists, FiniteSetTheorems, SequenceTheorems, TLAPS

LK == INSTANCE LinksProof

LEMMA Apart == LK!EndsApart /\ None \notin LK!Headers
<1>1. Seq(Elements) \subseteq Seq(Elements \cup MoreElements)
  BY SeqMonotonic
<1>2. LK!EndsApart
  BY <1>1, ListsAssumption DEF LK!EndsApart, LK!HeadOf, LK!TailOf, LK!IsFiniteSet, IsFiniteSet
<1>3. LK!Headers \subseteq [ToClean : BOOLEAN, nitems : Int]
  BY DEF LK!Headers
<1>4. QED
  BY <1>2, <1>3, ListsAssumption

-----------------------------------------------------------------------------
(* LinkList.                                                               *)

LinkedInv == part = "linked" => LK!LinkedGood(link, made, all)
LinkedItems == [l \in Lists |-> IF Linked!Exists(l) THEN Linked!Chain(l) ELSE None]

\* The operators of LinkList are those that the lemmas are about.
LEMMA LinkedSame ==
  ASSUME NEW v, NEW l, NEW x, NEW w, NEW S
  PROVE  /\ Linked!Forward(v, l) = LK!Forward(v, l) /\ Linked!Backward(v, l) = LK!Backward(v, l)
         /\ Linked!HeadOf(l) = LK!HeadOf(l) /\ Linked!TailOf(l) = LK!TailOf(l)
         /\ Linked!EmptyEnds(v, S) = LK!EmptyEnds(v, S)
         /\ Linked!LinkBefore(v, x, w) = LK!LinkBefore(v, x, w)
         /\ Linked!LinkAfter(v, x, w) = LK!LinkAfter(v, x, w)
         /\ Linked!Unlink(v, x) = LK!Unlink(v, x)
         /\ Linked!Nodes = LK!Nodes
         /\ Linked!ToSet(x) = LK!ToSet(x) /\ Linked!Reverse(x) = LK!Reverse(x)
<1>1. Linked!HeadOf(l) = LK!HeadOf(l) /\ Linked!TailOf(l) = LK!TailOf(l)
  BY DEF Linked!HeadOf, LK!HeadOf, Linked!TailOf, LK!TailOf
<1>2. Linked!Forward(v, l) = LK!Forward(v, l) /\ Linked!Backward(v, l) = LK!Backward(v, l)
  BY <1>1 DEF Linked!Forward, LK!Forward, Linked!Backward, LK!Backward, Linked!Walk, LK!Walk,
    Linked!Cardinality, LK!Cardinality
<1>3. Linked!EmptyEnds(v, S) = LK!EmptyEnds(v, S)
  BY DEF Linked!EmptyEnds, LK!EmptyEnds, Linked!HeadOf, LK!HeadOf, Linked!TailOf, LK!TailOf
<1>4. /\ Linked!LinkBefore(v, x, w) = LK!LinkBefore(v, x, w)
      /\ Linked!LinkAfter(v, x, w) = LK!LinkAfter(v, x, w)
      /\ Linked!Unlink(v, x) = LK!Unlink(v, x)
  BY DEF Linked!LinkBefore, LK!LinkBefore, Linked!LinkAfter, LK!LinkAfter, Linked!Unlink, LK!Unlink
<1>5. Linked!Nodes = LK!Nodes
  BY DEF Linked!Nodes, LK!Nodes, Linked!Ends, LK!Ends, Linked!HeadOf, LK!HeadOf, Linked!TailOf, LK!TailOf
<1>6. Linked!ToSet(x) = LK!ToSet(x) /\ Linked!Reverse(x) = LK!Reverse(x)
  BY DEF Linked!ToSet, LK!ToSet, Linked!Reverse, LK!Reverse
<1>7. QED
  BY <1>1, <1>2, <1>3, <1>4, <1>5, <1>6

LEMMA LinkedChains ==
  /\ \A l \in Lists : Linked!Exists(l) <=> l \in LK!Live(made)
  /\ \A l \in Lists : Linked!Chain(l) = LK!Forward(link, l)
  /\ LinkedItems = LK!Shown(LK!Chains(link), LK!Live(made))
  /\ LK!Live(made) \subseteq Lists
  /\ \A x : Linked!Mine(x) <=>
              x \in all /\ \A l \in LK!Live(made) : x \notin LK!ToSet(LK!Forward(link, l))
<1>1. \A l \in Lists : Linked!Exists(l) <=> l \in LK!Live(made)
  BY DEF Linked!Exists, LK!Live
<1>2. \A l \in Lists : Linked!Chain(l) = LK!Forward(link, l)
  BY LinkedSame DEF Linked!Chain
<1>3. LK!Live(made) \subseteq Lists
  BY DEF LK!Live
<1>4. ASSUME NEW x
      PROVE  Linked!Mine(x) <=>
               x \in all /\ \A l \in LK!Live(made) : x \notin LK!ToSet(LK!Forward(link, l))
  BY <1>1, <1>2, <1>3, LinkedSame DEF Linked!Mine, Linked!InList
<1>5. QED
  BY <1>1, <1>2, <1>3, <1>4 DEF LinkedItems, LK!Shown, LK!Chains

LEMMA LinkedChainsNext == LinkedItems' = LK!Shown(LK!Chains(link'), LK!Live(made'))
<1>1. \A l \in Lists : Linked!Exists(l)' <=> l \in LK!Live(made')
  BY DEF Linked!Exists, LK!Live
<1>2. \A l \in Lists : Linked!Chain(l)' = LK!Forward(link', l)
  BY LinkedSame DEF Linked!Chain
<1>3. LinkedItems' = [l \in Lists |-> IF Linked!Exists(l)' THEN Linked!Chain(l)' ELSE None]
  BY DEF LinkedItems
<1>4. QED
  BY <1>1, <1>2, <1>3 DEF LK!Shown, LK!Chains

LEMMA LinkedDeque ==
  ASSUME LK!Stepped(Elements, LinkedItems, LinkedItems', ret')
  PROVE  Linked!Sequences!Next
BY Zenon DEF LK!Stepped, Linked!Sequences!Next, Linked!Sequences!Create, Linked!Sequences!Destroy, Linked!Sequences!Clear,
  Linked!Sequences!PopHead, Linked!Sequences!PopTail, Linked!Sequences!Pops, Linked!Sequences!PushHead,
  Linked!Sequences!PushTail, Linked!Sequences!InsertAtPlace, Linked!Sequences!TakeOut, Linked!Sequences!Becomes,
  Linked!Sequences!Exists, LinkedItems, Linked!Sequences!InsertAt, Linked!Sequences!RemoveAt,
  LK!InsertAt, LK!RemoveAt

\* What a call does.
LinkedCalled ==
  /\ LK!LinkedGood(link', made', all')
  /\ LK!Called(link, LK!Live(made), link', LK!Live(made'), ret')

LEMMA LinkedCalls ==
  ASSUME LK!LinkedGood(link, made, all), Linked!Next
  PROVE  /\ LK!LinkedGood(link', made', all')
         /\ \/ LK!Called(link, LK!Live(made), link', LK!Live(made'), ret')
            \/ UNCHANGED <<link, made, ret>>
<1> DEFINE S == LK!Live(made)
<1>0. S \in SUBSET Lists /\ LK!Ordered(link, S) /\ all \subseteq Elements
  BY LinkedChains DEF LK!LinkedGood
<1>1. ASSUME NEW x \in Elements, Linked!New(x) \/ Linked!Delete(x)
      PROVE  LK!LinkedGood(link', made', all') /\ UNCHANGED <<link, made, ret>>
  <2>1. CASE Linked!New(x)
    BY <2>1 DEF Linked!New, LK!LinkedGood
  <2>2. CASE Linked!Delete(x)
    BY <2>2, LinkedChains DEF Linked!Delete, LK!LinkedGood
  <2>3. QED
    BY <1>1, <2>1, <2>2
<1>2. ASSUME NEW l \in Lists, NEW x \in Elements, NEW w, Linked!Exists(l), Linked!Mine(x),
             LK!PutBy(link, w, l, x, ret'), Linked!Add(l, w)
      PROVE  LinkedCalled
  BY <1>2, Apart, LinkedChains, LK!LinkedAdds DEF Linked!Add, LinkedCalled
<1>3. ASSUME NEW l \in Lists, NEW x, Linked!Exists(l), LK!CutBy(link, LK!Unlink(link, x), l, x, ret'),
             Linked!TakeOut(l, x)
      PROVE  LinkedCalled
  <2>1. link' = LK!Unlink(link, x)
    BY <1>3, LinkedSame DEF Linked!TakeOut
  <2>2. QED
    BY <1>3, <2>1, Apart, LinkedChains, LK!LinkedTakes DEF Linked!TakeOut, LinkedCalled
<1>4. ASSUME NEW l \in Lists, NEW x \in Elements, Linked!pushTail(l, x) \/ Linked!pushHead(l, x)
      PROVE  LinkedCalled
  <2>1. /\ LK!PutBy(link, Linked!LinkBefore(link, x, Linked!TailOf(l)), l, x, <<"pushTail", l, x>>)
        /\ LK!PutBy(link, Linked!LinkAfter(link, x, Linked!HeadOf(l)), l, x, <<"pushHead", l, x>>)
    <3>1. l \in S
      BY <1>4, LinkedChains DEF Linked!pushTail, Linked!pushHead
    <3>2. /\ LK!PutBy(link, LK!LinkBefore(link, x, LK!TailOf(l)), l, x, <<"pushTail", l, x>>)
          /\ LK!PutBy(link, LK!LinkAfter(link, x, LK!HeadOf(l)), l, x, <<"pushHead", l, x>>)
      BY <1>0, <3>1, Apart, LK!PutsBy
    <3>3. QED
      BY <3>2, LinkedSame
  <2>2. QED
    BY <1>2, <1>4, <2>1 DEF Linked!pushTail, Linked!pushHead
<1>5. ASSUME NEW l \in Lists, NEW x \in Elements, NEW w \in Elements \cup Linked!Ends(l),
             Linked!addBefore(l, x, w) \/ Linked!addAfter(l, x, w)
      PROVE  LinkedCalled
  <2>1. l \in S /\ Linked!Chain(l) = LK!Forward(link, l)
    BY <1>5, LinkedChains DEF Linked!addBefore, Linked!addAfter
  <2>2. Linked!Place(l, w) = LK!PlaceAt(LK!Forward(link, l), l, w)
    BY <2>1, LinkedSame DEF Linked!Place, LK!PlaceAt, LK!PlaceOf, Linked!SelectInSeq, LK!SelectInSeq,
      Linked!Min, LK!Min
  <2>3. CASE Linked!addBefore(l, x, w)
    <3>1. LK!PutBy(link, Linked!LinkBefore(link, x, w), l, x, ret')
      <4>1. /\ w \in LK!ToSet(LK!Forward(link, l)) \cup {LK!TailOf(l)}
            /\ ret' = <<"add", l, LK!PlaceAt(LK!Forward(link, l), l, w), x>>
        BY <2>1, <2>2, <2>3, LinkedSame DEF Linked!addBefore
      <4>2. LK!PutBy(link, LK!LinkBefore(link, x, w), l, x, ret')
        BY <1>0, <2>1, <4>1, Apart, LK!PutsNextTo
      <4>3. QED
        BY <4>2, LinkedSame
    <3>2. QED
      BY <1>2, <2>3, <3>1 DEF Linked!addBefore
  <2>4. CASE Linked!addAfter(l, x, w)
    <3>1. LK!PutBy(link, Linked!LinkAfter(link, x, w), l, x, ret')
      <4>1. /\ w \in LK!ToSet(LK!Forward(link, l)) \cup {LK!HeadOf(l)}
            /\ ret' = <<"add", l, LK!PlaceAt(LK!Forward(link, l), l, w) + 1, x>>
        BY <2>1, <2>2, <2>4, LinkedSame DEF Linked!addAfter
      <4>2. LK!PutBy(link, LK!LinkAfter(link, x, w), l, x, ret')
        BY <1>0, <2>1, <4>1, Apart, LK!PutsNextTo
      <4>3. QED
        BY <4>2, LinkedSame
    <3>2. QED
      BY <1>2, <2>4, <3>1 DEF Linked!addAfter
  <2>5. QED
    BY <1>5, <2>3, <2>4
<1>6. ASSUME NEW l \in Lists, Linked!popTail(l) \/ Linked!popHead(l)
      PROVE  LinkedCalled
  <2>1. l \in S /\ link[LK!HeadOf(l)].next # LK!TailOf(l)
    BY <1>6, LinkedChains, LinkedSame DEF Linked!popTail, Linked!popHead, Linked!empty
  <2>2. \E x : LK!CutBy(link, LK!Unlink(link, x), l, x, ret') /\ Linked!TakeOut(l, x)
    BY <1>0, <1>6, <2>1, Apart, LK!CutsBy, LinkedSame DEF Linked!popTail, Linked!popHead
  <2>3. QED
    BY <1>3, <2>2, <1>6 DEF Linked!popTail, Linked!popHead
<1>7. ASSUME NEW l \in Lists, NEW x \in Elements, Linked!remove(l, x)
      PROVE  LinkedCalled
  <2>1. l \in S /\ Linked!Chain(l) = LK!Forward(link, l) /\ x \in LK!ToSet(LK!Forward(link, l))
    BY <1>7, LinkedChains, LinkedSame DEF Linked!remove
  <2>2. x # Linked!TailOf(l)
    BY Apart, LinkedSame DEF LK!EndsApart
  <2>3. Linked!Place(l, x) = LK!PlaceOf(LK!Forward(link, l), x)
    BY <2>1, <2>2 DEF Linked!Place, LK!PlaceOf, Linked!SelectInSeq, LK!SelectInSeq, Linked!Min, LK!Min
  <2>4. LK!CutBy(link, LK!Unlink(link, x), l, x, ret')
    BY <1>0, <1>7, <2>1, <2>3, Apart, LK!CutsBy DEF Linked!remove
  <2>5. QED
    BY <1>3, <1>7, <2>4 DEF Linked!remove
<1>8. ASSUME NEW l \in Lists, NEW d \in BOOLEAN, Linked!Construct(l, d) \/ Linked!clear(l, d)
      PROVE  LinkedCalled
  <2>1. link' = LK!EmptyEnds(link, {l}) /\ made \in [Lists -> {None} \cup LK!Headers]
    BY <1>8, LinkedSame DEF Linked!Construct, Linked!clear, LK!LinkedGood
  <2>2. /\ \/ ret' = <<"create", l>> /\ l \notin S
           \/ ret' = <<"clear", l>> /\ l \in S
        /\ all' = all \/ (l \in S /\ all' = all \ LK!ToSet(LK!Forward(link, l)))
    BY <1>8, LinkedChains, LinkedSame DEF Linked!Construct, Linked!clear
  <2>3. /\ made' \in [Lists -> {None} \cup LK!Headers] /\ made'[l] \in LK!Headers
        /\ made'[l].nitems = 0 /\ \A q \in Lists \ {l} : made'[q] = made[q]
    <3>1. CASE Linked!Construct(l, d)
      BY <2>1, <3>1 DEF Linked!Construct, LK!Headers
    <3>2. CASE Linked!clear(l, d)
      <4>1. made[l] \in LK!Headers
        BY <2>1, <3>2, LinkedChains DEF Linked!clear, LK!Live
      <4>2. made' = [made EXCEPT ![l] = [made[l] EXCEPT !.nitems = 0]]
        BY <3>2 DEF Linked!clear
      <4>3. [made[l] EXCEPT !.nitems = 0] \in LK!Headers /\ [made[l] EXCEPT !.nitems = 0].nitems = 0
        BY <4>1 DEF LK!Headers
      <4>4. QED
        BY <2>1, <4>2, <4>3
    <3>3. QED
      BY <1>8, <3>1, <3>2
  <2>4. QED
    BY <2>1, <2>2, <2>3, Apart, LK!LinkedEmpties DEF LinkedCalled
<1>9. ASSUME NEW l \in Lists, Linked!Destroy(l)
      PROVE  LinkedCalled
  <2>1. /\ l \in S /\ made' = [made EXCEPT ![l] = None] /\ ret' = <<"destroy", l>> /\ link' = link
        /\ all' = all \/ all' = all \ LK!ToSet(LK!Forward(link, l))
    BY <1>9, LinkedChains, LinkedSame DEF Linked!Destroy
  <2>2. QED
    BY <2>1, Apart, LK!LinkedLeaves DEF LinkedCalled
<1>10. LinkedCalled \/ (LK!LinkedGood(link', made', all') /\ UNCHANGED <<link, made, ret>>)
  BY <1>1, <1>4, <1>5, <1>6, <1>7, <1>8, <1>9 DEF Linked!Next
<1>11. QED
  BY <1>10 DEF LinkedCalled

\* A step of the LinkLists keeps them in order, and is one of sequences.
LEMMA LinkedSteps ==
  ASSUME LK!LinkedGood(link, made, all), Linked!Next
  PROVE  /\ LK!LinkedGood(link', made', all')
         /\ [Linked!Sequences!Next]_(Linked!Sequences!vars)
<1>1. CASE LK!Called(link, LK!Live(made), link', LK!Live(made'), ret')
  <2>1. LK!Stepped(Elements, LinkedItems, LinkedItems', ret')
    BY <1>1, LinkedChains, LinkedChainsNext, LK!CalledStepped
  <2>2. QED
    BY <2>1, LinkedDeque, LinkedCalls
<1>2. CASE UNCHANGED <<link, made, ret>>
  <2>1. LinkedItems' = LinkedItems
    BY <1>2, LinkedChains, LinkedChainsNext
  <2>2. UNCHANGED Linked!Sequences!vars
    BY <1>2, <2>1 DEF Linked!Sequences!vars, LinkedItems
  <2>3. QED
    BY <2>2, LinkedCalls
<1>3. QED
  BY <1>1, <1>2, LinkedCalls

-----------------------------------------------------------------------------
(* SimpleLinkList.                                                         *)

SimpleItems == [l \in Lists |-> Simple!Contents(l)]

\* No sequence of values and no number is None.
LEMMA ValuesApart == None \notin Seq(Values) /\ None \notin Nat
<1>1. Seq(Values) \subseteq Seq(Values \cup {None})
  BY SeqMonotonic
<1>2. QED
  BY <1>1, StackAssumption, PtrAssumption

\* The operators of SimpleLinkList are those that the lemmas are about.
LEMMA SimpleSame ==
  ASSUME NEW v, NEW l, NEW x, NEW w, NEW S
  PROVE  /\ Simple!Forward(v, l) = LK!Forward(v, l) /\ Simple!Backward(v, l) = LK!Backward(v, l)
         /\ Simple!HeadOf(l) = LK!HeadOf(l) /\ Simple!TailOf(l) = LK!TailOf(l)
         /\ Simple!EmptyEnds(v, S) = LK!EmptyEnds(v, S)
         /\ Simple!LinkBefore(v, x, w) = LK!LinkBefore(v, x, w)
         /\ Simple!LinkAfter(v, x, w) = LK!LinkAfter(v, x, w)
         /\ Simple!Unlink(v, x) = LK!Unlink(v, x)
         /\ Simple!Nodes = LK!Nodes
         /\ Simple!ToSet(x) = LK!ToSet(x) /\ Simple!Reverse(x) = LK!Reverse(x)
         /\ Simple!IsInjective(x) = LK!IsInjective(x)
<1>1. Simple!HeadOf(l) = LK!HeadOf(l) /\ Simple!TailOf(l) = LK!TailOf(l)
  BY DEF Simple!HeadOf, LK!HeadOf, Simple!TailOf, LK!TailOf
<1>2. Simple!Forward(v, l) = LK!Forward(v, l) /\ Simple!Backward(v, l) = LK!Backward(v, l)
  BY <1>1 DEF Simple!Forward, LK!Forward, Simple!Backward, LK!Backward, Simple!Walk, LK!Walk,
    Simple!Cardinality, LK!Cardinality
<1>3. Simple!EmptyEnds(v, S) = LK!EmptyEnds(v, S)
  BY DEF Simple!EmptyEnds, LK!EmptyEnds, Simple!HeadOf, LK!HeadOf, Simple!TailOf, LK!TailOf
<1>4. /\ Simple!LinkBefore(v, x, w) = LK!LinkBefore(v, x, w)
      /\ Simple!LinkAfter(v, x, w) = LK!LinkAfter(v, x, w)
      /\ Simple!Unlink(v, x) = LK!Unlink(v, x)
  BY DEF Simple!LinkBefore, LK!LinkBefore, Simple!LinkAfter, LK!LinkAfter, Simple!Unlink, LK!Unlink
<1>5. Simple!Nodes = LK!Nodes
  BY DEF Simple!Nodes, LK!Nodes, Simple!Ends, LK!Ends, Simple!HeadOf, LK!HeadOf, Simple!TailOf, LK!TailOf
<1>6. /\ Simple!ToSet(x) = LK!ToSet(x) /\ Simple!Reverse(x) = LK!Reverse(x)
      /\ Simple!IsInjective(x) = LK!IsInjective(x)
  BY DEF Simple!ToSet, LK!ToSet, Simple!Reverse, LK!Reverse, Simple!IsInjective, LK!IsInjective
<1>7. QED
  BY <1>1, <1>2, <1>3, <1>4, <1>5, <1>6

LEMMA SimpleChains ==
  /\ \A l \in Lists : Simple!Exists(l) <=> l \in LK!Live(nitems)
  /\ \A l \in Lists : Simple!Chain(l) = LK!Forward(link, l)
  /\ SimpleItems = LK!Items(made, link, LK!Live(nitems))
  /\ LK!Live(nitems) \subseteq Lists
<1>1. \A l \in Lists : Simple!Exists(l) <=> l \in LK!Live(nitems)
  BY DEF Simple!Exists, LK!Live
<1>2. \A l \in Lists : Simple!Chain(l) = LK!Forward(link, l)
  BY SimpleSame DEF Simple!Chain
<1>3. QED
  BY <1>1, <1>2 DEF SimpleItems, LK!Items, LK!Mapped, Simple!Contents, LK!Live

LEMMA SimpleChainsNext == SimpleItems' = LK!Items(made', link', LK!Live(nitems'))
<1>1. \A l \in Lists : Simple!Exists(l)' <=> l \in LK!Live(nitems')
  BY DEF Simple!Exists, LK!Live
<1>2. \A l \in Lists : Simple!Chain(l)' = LK!Forward(link', l)
  BY SimpleSame DEF Simple!Chain
<1>3. \A l \in Lists : Simple!Contents(l)' =
        IF l \in LK!Live(nitems') THEN LK!Mapped(made', LK!Forward(link', l)) ELSE None
  BY <1>1, <1>2 DEF Simple!Contents, LK!Mapped
<1>4. SimpleItems' = [l \in Lists |-> Simple!Contents(l)']
  BY DEF SimpleItems
<1>5. QED
  BY <1>3, <1>4 DEF LK!Items

LEMMA SimpleDeque ==
  ASSUME LK!Stepped(Values, SimpleItems, SimpleItems', ret')
  PROVE  Simple!Sequences!Next
BY Zenon DEF LK!Stepped, Simple!Sequences!Next, Simple!Sequences!Create, Simple!Sequences!Destroy, Simple!Sequences!Clear,
  Simple!Sequences!PopHead, Simple!Sequences!PopTail, Simple!Sequences!Pops, Simple!Sequences!PushHead,
  Simple!Sequences!PushTail, Simple!Sequences!InsertAtPlace, Simple!Sequences!TakeOut, Simple!Sequences!Becomes,
  Simple!Sequences!Exists, SimpleItems, Simple!Sequences!InsertAt, Simple!Sequences!RemoveAt,
  LK!InsertAt, LK!RemoveAt

\* A step of the SimpleLinkLists keeps them in order, and is one of sequences.
LEMMA SimpleSteps ==
  ASSUME LK!SimpleGood(Values, link, nitems, made, all), Simple!Next
  PROVE  LK!SimpleGood(Values, link', nitems', made', all') /\ Simple!Sequences!Next
<1> DEFINE Called == /\ LK!SimpleGood(Values, link', nitems', made', all')
                     /\ LK!Stepped(Values, LK!Items(made, link, LK!Live(nitems)),
                                   LK!Items(made', link', LK!Live(nitems')), ret')
<1>1. ASSUME NEW l \in Lists, NEW y \in Values, Simple!pushTail(l, y) \/ Simple!pushHead(l, y)
      PROVE  Called
  <2>1. l \in LK!Live(nitems)
    BY <1>1, SimpleChains DEF Simple!pushTail, Simple!pushHead
  <2>2. PICK x \in Elements \ all :
          /\ \/ link' = LK!LinkBefore(link, x, LK!TailOf(l)) /\ ret' = <<"pushTail", l, y>>
             \/ link' = LK!LinkAfter(link, x, LK!HeadOf(l)) /\ ret' = <<"pushHead", l, y>>
          /\ made' = [made EXCEPT ![x] = y] /\ all' = all \cup {x}
          /\ nitems' = [nitems EXCEPT ![l] = @ + 1]
    <3>1. CASE Simple!pushTail(l, y)
      <4>1. PICK x \in Elements \ all :
              Simple!AddItem(l, x, y, Simple!LinkBefore(link, x, Simple!TailOf(l)))
        BY <3>1 DEF Simple!pushTail
      <4>2. /\ link' = LK!LinkBefore(link, x, LK!TailOf(l)) /\ ret' = <<"pushTail", l, y>>
            /\ made' = [made EXCEPT ![x] = y] /\ all' = all \cup {x}
            /\ nitems' = [nitems EXCEPT ![l] = @ + 1]
        BY <3>1, <4>1, SimpleSame DEF Simple!pushTail, Simple!AddItem
      <4>3. QED
        BY <4>2
    <3>2. CASE Simple!pushHead(l, y)
      <4>1. PICK x \in Elements \ all :
              Simple!AddItem(l, x, y, Simple!LinkAfter(link, x, Simple!HeadOf(l)))
        BY <3>2 DEF Simple!pushHead
      <4>2. /\ link' = LK!LinkAfter(link, x, LK!HeadOf(l)) /\ ret' = <<"pushHead", l, y>>
            /\ made' = [made EXCEPT ![x] = y] /\ all' = all \cup {x}
            /\ nitems' = [nitems EXCEPT ![l] = @ + 1]
        BY <3>2, <4>1, SimpleSame DEF Simple!pushHead, Simple!AddItem
      <4>3. QED
        BY <4>2
    <3>3. QED
      BY <1>1, <3>1, <3>2
  <2>3. LK!Written(made, made', x, y)
    BY <2>2 DEF LK!Written
  <2>4. QED
    BY <2>1, <2>2, <2>3, Apart, ValuesApart, LK!SimpleAdds
<1>2. ASSUME NEW l \in Lists, \/ Simple!popTail(l) \/ Simple!popHead(l)
                              \/ \E x \in Elements : Simple!remove(l, x)
      PROVE  Called
  <2>1. l \in LK!Live(nitems)
    BY <1>2, SimpleChains DEF Simple!popTail, Simple!popHead, Simple!remove
  <2>2. PICK x : LK!TakenBy(link, made, l, x, ret') /\ Simple!FreeItem(l, x)
    <3>1. CASE Simple!popTail(l)
      BY <3>1, SimpleSame DEF Simple!popTail, Simple!empty, LK!TakenBy
    <3>2. CASE Simple!popHead(l)
      BY <3>2, SimpleSame DEF Simple!popHead, Simple!empty, LK!TakenBy
    <3>3. ASSUME NEW x \in Elements, Simple!remove(l, x)
          PROVE  /\ x \in LK!ToSet(LK!Forward(link, l)) /\ Simple!FreeItem(l, x)
                 /\ ret' = <<"remove", l, LK!PlaceOf(LK!Forward(link, l), x)>>
      <4>1. Simple!Chain(l) = LK!Forward(link, l)
        BY SimpleChains
      <4>2. ret' = <<"remove", l, LK!PlaceOf(LK!Forward(link, l), x)>>
        BY <3>3, <4>1 DEF Simple!remove, LK!PlaceOf, Simple!SelectInSeq, LK!SelectInSeq, Simple!Min, LK!Min
      <4>3. QED
        BY <3>3, <4>1, <4>2, SimpleSame DEF Simple!remove
    <3>4. QED
      BY <1>2, <3>1, <3>2, <3>3 DEF LK!TakenBy
  <2>3. /\ link' = LK!Unlink(link, x) /\ all' = all \ {x} /\ made' = made
        /\ nitems' = LK!Less(nitems, l)
    BY <2>2, SimpleSame DEF Simple!FreeItem, LK!Less
  <2>4. QED
    BY <2>1, <2>2, <2>3, Apart, ValuesApart, LK!SimpleTakes
<1>3. ASSUME NEW l \in Lists, Simple!Construct(l) \/ Simple!clear(l)
      PROVE  Called
  <2>1. /\ link' = LK!EmptyEnds(link, {l}) /\ nitems' = [nitems EXCEPT ![l] = 0] /\ made' = made
        /\ \/ ret' = <<"create", l>> /\ l \notin LK!Live(nitems) /\ all' = all
           \/ /\ ret' = <<"clear", l>> /\ l \in LK!Live(nitems)
              /\ all' = all \ LK!ToSet(LK!Forward(link, l))
    BY <1>3, SimpleChains, SimpleSame DEF Simple!Construct, Simple!clear
  <2>2. QED
    BY <2>1, Apart, ValuesApart, LK!SimpleEmpties
<1>4. ASSUME NEW l \in Lists, Simple!Destroy(l)
      PROVE  Called
  <2>1. /\ l \in LK!Live(nitems) /\ all' = all \ LK!ToSet(LK!Forward(link, l))
        /\ nitems' = [nitems EXCEPT ![l] = None] /\ ret' = <<"destroy", l>>
        /\ link' = link /\ made' = made
    BY <1>4, SimpleChains, SimpleSame DEF Simple!Destroy
  <2>2. QED
    BY <2>1, Apart, ValuesApart, LK!SimpleLeaves
<1>5. Called
  BY <1>1, <1>2, <1>3, <1>4 DEF Simple!Next
<1>6. LK!Stepped(Values, SimpleItems, SimpleItems', ret')
  BY <1>5, SimpleChains, SimpleChainsNext
<1>7. QED
  BY <1>5, <1>6, SimpleDeque

-----------------------------------------------------------------------------
(* SLinkList.                                                              *)

SK == INSTANCE LinksProof WITH Elements <- MoreElements

LEMMA SinglyApart == SK!EndsApart
<1>1. Seq(MoreElements) \subseteq Seq(Elements \cup MoreElements)
  BY SeqMonotonic
<1>2. QED
  BY <1>1, ListsAssumption DEF SK!EndsApart, SK!HeadOf, SK!TailOf, SK!IsFiniteSet, IsFiniteSet

SinglyItems == [l \in Lists |-> Singly!Chain(l)]

\* The operators of SLinkList are those that the lemmas are about.
LEMMA SinglySame ==
  ASSUME NEW v, NEW x, NEW y, NEW n, NEW s
  PROVE  /\ Singly!Walk(v, x, y, n) = SK!Walk(v, x, y, n) /\ Singly!ToSet(s) = SK!ToSet(s)
         /\ Singly!Cardinality(s) = SK!Cardinality(s)
<1>1. Singly!Walk(v, x, y, n) = SK!Walk(v, x, y, n)
  BY DEF Singly!Walk, SK!Walk
<1>2. Singly!ToSet(s) = SK!ToSet(s) /\ Singly!Cardinality(s) = SK!Cardinality(s)
  BY DEF Singly!ToSet, SK!ToSet, Singly!Cardinality, SK!Cardinality
<1>3. QED
  BY <1>1, <1>2

LEMMA SinglyChains ==
  /\ \A l \in Lists : Singly!Chain(l) = SK!SChains(link, made)[l]
  /\ SinglyItems = SK!SChains(link, made)
<1>1. \A l \in Lists : Singly!Chain(l) = SK!SChains(link, made)[l]
  BY SinglySame DEF Singly!Chain, SK!SChains
<1>2. QED
  BY <1>1 DEF SinglyItems, SK!SChains

LEMMA SinglyChainsNext == SinglyItems' = SK!SChains(link', made')
<1>1. \A l \in Lists : Singly!Chain(l)' = SK!SChains(link', made')[l]
  BY SinglySame DEF Singly!Chain, SK!SChains
<1>2. SinglyItems' = [l \in Lists |-> Singly!Chain(l)']
  BY DEF SinglyItems
<1>3. QED
  BY <1>1, <1>2 DEF SK!SChains

LEMMA SinglyDeque ==
  ASSUME SK!Stepped(MoreElements, SinglyItems, SinglyItems', ret')
  PROVE  Singly!Sequences!Next
BY Zenon DEF SK!Stepped, Singly!Sequences!Next, Singly!Sequences!Create, Singly!Sequences!Destroy, Singly!Sequences!Clear,
  Singly!Sequences!PopHead, Singly!Sequences!PopTail, Singly!Sequences!Pops, Singly!Sequences!PushHead,
  Singly!Sequences!PushTail, Singly!Sequences!InsertAtPlace, Singly!Sequences!TakeOut, Singly!Sequences!Becomes,
  Singly!Sequences!Exists, SinglyItems, Singly!Sequences!InsertAt, Singly!Sequences!RemoveAt,
  SK!InsertAt, SK!RemoveAt

\* A step of the SLinkLists keeps them in order, and is one of sequences.
LEMMA SinglySteps ==
  ASSUME SK!SinglyGood(link, made), Singly!Next
  PROVE  SK!SinglyGood(link', made') /\ Singly!Sequences!Next
<1> DEFINE Called == /\ SK!SinglyGood(link', made')
                     /\ SK!Stepped(MoreElements, SK!SChains(link, made), SK!SChains(link', made'), ret')
<1>1. ASSUME NEW l \in Lists, NEW x \in MoreElements, Singly!pushTail(l, x) \/ Singly!pushHead(l, x)
      PROVE  Called
  <2>1. \A q \in Lists : x \notin SK!ToSet(SK!SChains(link, made)[q])
    BY <1>1, SinglyChains, SinglySame DEF Singly!pushTail, Singly!pushHead, Singly!Mine
  <2>2. \/ /\ link' = SK!Pushed(link, x, made[l]) /\ ret' = <<"pushTail", l, x>>
           /\ made' = [made EXCEPT ![l] = SK!WithTail(made[l], x)]
        \/ /\ link' = [link EXCEPT ![x] = made[l].Head] /\ ret' = <<"pushHead", l, x>>
           /\ made' = [made EXCEPT ![l] = SK!WithHead(made[l], x)]
    BY <1>1 DEF Singly!pushTail, Singly!pushHead, SK!Pushed, SK!WithTail, SK!WithHead
  <2>3. QED
    BY <2>1, <2>2, SinglyApart, SK!SinglySteps
<1>2. ASSUME NEW l \in Lists, Singly!popHead(l)
      PROVE  Called
  <2>1. /\ made[l].Head # None /\ ret' = <<"popHead", l, made[l].Head>> /\ link' = link
        /\ made' = [made EXCEPT ![l] = SK!WithoutHead(made[l], link[made[l].Head])]
    BY <1>2 DEF Singly!popHead, Singly!TailAfterPop, SK!WithoutHead
  <2>2. QED
    BY <2>1, SinglyApart, SK!SinglySteps
<1>3. Called
  BY <1>1, <1>2 DEF Singly!Next
<1>4. SK!Stepped(MoreElements, SinglyItems, SinglyItems', ret')
  BY <1>3, SinglyChains, SinglyChainsNext
<1>5. QED
  BY <1>3, <1>4, SinglyDeque

-----------------------------------------------------------------------------
(* SortedLinkList.                                                         *)

SortedKey == [x \in Elements |-> KeyOf(x)]
SortedItems == [l \in Lists |-> IF l \in made THEN Sorted!Chain(l) ELSE None]

LEMMA SortedKeys == LK!KeysAre(SortedKey)
BY ListsAssumption DEF LK!KeysAre, SortedKey

\* The operators of SortedLinkList are those that the lemmas are about.
LEMMA SortedSame ==
  ASSUME NEW v, NEW l, NEW x, NEW w, NEW S
  PROVE  /\ Sorted!Forward(v, l) = LK!Forward(v, l) /\ Sorted!Backward(v, l) = LK!Backward(v, l)
         /\ Sorted!HeadOf(l) = LK!HeadOf(l) /\ Sorted!TailOf(l) = LK!TailOf(l)
         /\ Sorted!EmptyEnds(v, S) = LK!EmptyEnds(v, S)
         /\ Sorted!LinkBefore(v, x, w) = LK!LinkBefore(v, x, w)
         /\ Sorted!Unlink(v, x) = LK!Unlink(v, x)
         /\ Sorted!Nodes = LK!Nodes
         /\ Sorted!ToSet(x) = LK!ToSet(x) /\ Sorted!Reverse(x) = LK!Reverse(x)
<1>1. Sorted!HeadOf(l) = LK!HeadOf(l) /\ Sorted!TailOf(l) = LK!TailOf(l)
  BY DEF Sorted!HeadOf, LK!HeadOf, Sorted!TailOf, LK!TailOf
<1>2. Sorted!Forward(v, l) = LK!Forward(v, l) /\ Sorted!Backward(v, l) = LK!Backward(v, l)
  BY <1>1 DEF Sorted!Forward, LK!Forward, Sorted!Backward, LK!Backward, Sorted!Walk, LK!Walk,
    Sorted!Cardinality, LK!Cardinality
<1>3. Sorted!EmptyEnds(v, S) = LK!EmptyEnds(v, S)
  BY DEF Sorted!EmptyEnds, LK!EmptyEnds, Sorted!HeadOf, LK!HeadOf, Sorted!TailOf, LK!TailOf
<1>4. Sorted!LinkBefore(v, x, w) = LK!LinkBefore(v, x, w) /\ Sorted!Unlink(v, x) = LK!Unlink(v, x)
  BY DEF Sorted!LinkBefore, LK!LinkBefore, Sorted!Unlink, LK!Unlink
<1>5. Sorted!Nodes = LK!Nodes
  BY DEF Sorted!Nodes, LK!Nodes, Sorted!Ends, LK!Ends, Sorted!HeadOf, LK!HeadOf, Sorted!TailOf, LK!TailOf
<1>6. Sorted!ToSet(x) = LK!ToSet(x) /\ Sorted!Reverse(x) = LK!Reverse(x)
  BY DEF Sorted!ToSet, LK!ToSet, Sorted!Reverse, LK!Reverse
<1>7. QED
  BY <1>1, <1>2, <1>3, <1>4, <1>5, <1>6

LEMMA SortedChains ==
  /\ \A l \in Lists : Sorted!Chain(l) = LK!Forward(link, l)
  /\ SortedItems = LK!Shown(LK!Chains(link), made)
<1>1. \A l \in Lists : Sorted!Chain(l) = LK!Forward(link, l)
  BY SortedSame DEF Sorted!Chain
<1>2. QED
  BY <1>1 DEF SortedItems, LK!Shown, LK!Chains

LEMMA SortedChainsNext == SortedItems' = LK!Shown(LK!Chains(link'), made')
<1>1. \A l \in Lists : Sorted!Chain(l)' = LK!Forward(link', l)
  BY SortedSame DEF Sorted!Chain
<1>2. SortedItems' = [l \in Lists |-> IF l \in made' THEN Sorted!Chain(l)' ELSE None]
  BY DEF SortedItems
<1>3. QED
  BY <1>1, <1>2 DEF LK!Shown, LK!Chains

LEMMA SortedDeque ==
  ASSUME LK!Stepped(Elements, SortedItems, SortedItems', ret')
  PROVE  Sorted!Sequences!Next
BY Zenon DEF LK!Stepped, Sorted!Sequences!Next, Sorted!Sequences!Create, Sorted!Sequences!Destroy, Sorted!Sequences!Clear,
  Sorted!Sequences!PopHead, Sorted!Sequences!PopTail, Sorted!Sequences!Pops, Sorted!Sequences!PushHead,
  Sorted!Sequences!PushTail, Sorted!Sequences!InsertAtPlace, Sorted!Sequences!TakeOut, Sorted!Sequences!Becomes,
  Sorted!Sequences!Exists, SortedItems, Sorted!Sequences!InsertAt, Sorted!Sequences!RemoveAt,
  LK!InsertAt, LK!RemoveAt

\* What lookup finds.
LEMMA SortedFound ==
  ASSUME LK!SortedGood(SortedKey, link, made), NEW l \in made
  PROVE  /\ l \in Lists /\ Sorted!Chain(l) = LK!Forward(link, l) /\ LK!ListFacts(link, l, LK!Forward(link, l))
         /\ \A k, exact : Sorted!lookup(l, k, exact) = LK!Found(SortedKey, LK!Forward(link, l), k, exact)
<1>1. /\ l \in Lists /\ LK!Ordered(link, made) /\ made \in SUBSET Lists
  BY DEF LK!SortedGood
<1>2. Sorted!Chain(l) = LK!Forward(link, l)
  BY <1>1, SortedChains
<1>3. LK!ListFacts(link, l, LK!Forward(link, l))
  BY <1>1, Apart, LK!ListIs
<1> DEFINE s == LK!Forward(link, l)
<1>4. \A i \in 1 .. Len(s) : SortedKey[s[i]] = KeyOf(s[i])
  BY <1>3 DEF LK!ListFacts, SortedKey
<1> HIDE DEF s
<1>5. ASSUME NEW k, NEW exact
      PROVE  Sorted!lookup(l, k, exact) = LK!Found(SortedKey, s, k, exact)
  <2>1. Sorted!Chain(l) = s
    BY <1>2 DEF s
  <2> DEFINE I == {i \in 1 .. Len(s) : KeyOf(s[i]) >= k}
             J == {i \in 1 .. Len(s) : SortedKey[s[i]] >= k}
             m == IF J # {} THEN LK!Min(J) ELSE 0
  <2>2. I = J
    BY <1>4
  <2>3. Sorted!lookup(l, k, exact) =
          LET i == IF I # {} THEN Sorted!Min(I) ELSE 0
          IN IF i = 0 \/ (exact /\ KeyOf(s[i]) # k) THEN None ELSE s[i]
    BY <2>1 DEF Sorted!lookup, Sorted!SelectInSeq, Sorted!Stops
  <2>4. Sorted!Min(J) = LK!Min(J)
    BY DEF Sorted!Min, LK!Min
  <2>5. LK!Found(SortedKey, s, k, exact) =
          (IF m = 0 \/ (exact /\ SortedKey[s[m]] # k) THEN None ELSE s[m])
    BY DEF LK!Found, LK!FirstFrom
  <2>6. Sorted!lookup(l, k, exact) = (IF m = 0 \/ (exact /\ KeyOf(s[m]) # k) THEN None ELSE s[m])
    BY <2>2, <2>3, <2>4
  <2>7. m = 0 \/ m \in 1 .. Len(s)
    <3>1. Len(s) \in Nat
      BY <1>3 DEF LK!ListFacts, s
    <3>2. J \in SUBSET (1 .. Len(s))
      OBVIOUS
    <3> HIDE DEF J
    <3>3. CASE J # {}
      <4>1. LK!Min(J) \in J
        BY <3>1, <3>2, <3>3, LK!LeastIs
      <4>2. QED
        BY <3>2, <3>3, <4>1
    <3>4. QED
      BY <3>3
  <2> HIDE DEF m
  <2>8. QED
    BY <1>4, <2>5, <2>6, <2>7
<1>6. QED
  BY <1>1, <1>2, <1>3, <1>5 DEF s

\* A step of the SortedLinkLists keeps them in order, and is one of sequences.
LEMMA SortedSteps ==
  ASSUME LK!SortedGood(SortedKey, link, made), Sorted!Next
  PROVE  LK!SortedGood(SortedKey, link', made') /\ Sorted!Sequences!Next
<1> DEFINE Called == /\ LK!SortedGood(SortedKey, link', made')
                     /\ LK!Called(link, made, link', made', ret')
<1>0. made \in SUBSET Lists /\ LK!Ordered(link, made)
  BY DEF LK!SortedGood
<1>1. ASSUME NEW l \in Lists, NEW x \in Elements, Sorted!insert(l, x)
      PROVE  Called
  <2>1. l \in made /\ \A q \in made : x \notin LK!ToSet(LK!Forward(link, q))
    BY <1>0, <1>1, SortedChains, SortedSame DEF Sorted!insert, Sorted!Mine
  <2>2. PICK f : f = LK!Found(SortedKey, LK!Forward(link, l), SortedKey[x], FALSE)
    OBVIOUS
  <2>3. SortedKey[x] = KeyOf(x)
    BY DEF SortedKey
  <2>4. f = Sorted!lookup(l, KeyOf(x), FALSE)
    BY <2>1, <2>2, <2>3, SortedFound
  <2>5. link' = LK!LinkBefore(link, x, IF f = None THEN LK!TailOf(l) ELSE f)
    <3>1. link' = Sorted!LinkBefore(link, x, IF f = None THEN Sorted!TailOf(l) ELSE f)
      BY <1>1, <2>4 DEF Sorted!insert
    <3>2. QED
      BY <3>1, SortedSame
  <2>6. ret' = <<"add", l, LK!Cardinality(LK!Smaller(SortedKey, LK!Forward(link, l), SortedKey[x])) + 1, x>>
    <3>1. {i \in DOMAIN Sorted!Chain(l) : KeyOf(Sorted!Chain(l)[i]) < KeyOf(x)} =
            LK!Smaller(SortedKey, LK!Forward(link, l), SortedKey[x])
      <4>1. Sorted!Chain(l) = LK!Forward(link, l) /\ LK!ListFacts(link, l, LK!Forward(link, l))
        BY <2>1, SortedFound
      <4>2. QED
        BY <2>3, <4>1 DEF LK!ListFacts, LK!Smaller, SortedKey
    <3>2. QED
      BY <1>1, <3>1 DEF Sorted!insert, Sorted!Cardinality, LK!Cardinality
  <2>7. made' = made
    BY <1>1 DEF Sorted!insert
  <2>8. LK!SortedGood(SortedKey, link', made) /\ LK!Called(link, made, link', made, ret')
    BY <2>1, <2>2, <2>5, <2>6, Apart, SortedKeys, LK!SortedInserts
  <2>9. QED
    BY <2>7, <2>8
<1>2. ASSUME NEW l \in made, NEW x, LK!CutBy(link, LK!Unlink(link, x), l, x, ret'),
             link' = Sorted!Unlink(link, x), made' = made
      PROVE  Called
  <2>1. link' = LK!Unlink(link, x)
    BY <1>2, SortedSame
  <2>2. LK!SortedGood(SortedKey, link', made) /\ LK!Called(link, made, link', made, ret')
    BY <1>2, <2>1, Apart, LK!SortedTakes
  <2>3. QED
    BY <1>2, <2>2
<1>3. ASSUME NEW l \in Lists, NEW x \in Elements, Sorted!remove(l, x)
      PROVE  Called
  <2>1. l \in made /\ Sorted!Chain(l) = LK!Forward(link, l) /\ x \in LK!ToSet(LK!Forward(link, l))
    BY <1>3, SortedChains, SortedSame DEF Sorted!remove
  <2>2. ret' = <<"remove", l, LK!PlaceOf(LK!Forward(link, l), x)>>
    BY <1>3, <2>1 DEF Sorted!remove, LK!PlaceOf, Sorted!SelectInSeq, LK!SelectInSeq, Sorted!Min, LK!Min
  <2>3. LK!CutBy(link, LK!Unlink(link, x), l, x, ret')
    BY <1>0, <2>1, <2>2, Apart, LK!CutsBy
  <2>4. QED
    BY <1>2, <1>3, <2>1, <2>3 DEF Sorted!remove
<1>4. ASSUME NEW l \in Lists, Sorted!popTail(l) \/ Sorted!popHead(l)
      PROVE  Called
  <2>1. l \in made /\ link[LK!HeadOf(l)].next # LK!TailOf(l)
    BY <1>4, SortedSame DEF Sorted!popTail, Sorted!popHead, Sorted!empty
  <2>2. \E x : /\ LK!CutBy(link, LK!Unlink(link, x), l, x, ret')
               /\ link' = Sorted!Unlink(link, x) /\ made' = made
    BY <1>0, <1>4, <2>1, Apart, LK!CutsBy, SortedSame DEF Sorted!popTail, Sorted!popHead
  <2>3. QED
    BY <1>2, <2>1, <2>2
<1>5. ASSUME NEW l \in Lists, Sorted!Construct(l)
      PROVE  Called
  <2>1. l \in Lists \ made /\ link' = LK!EmptyEnds(link, {l}) /\ made' = made \cup {l}
        /\ ret' = <<"create", l>>
    BY <1>5, SortedSame DEF Sorted!Construct
  <2>2. QED
    BY <2>1, Apart, LK!SortedComes
<1>6. ASSUME NEW l \in Lists, Sorted!Destroy(l)
      PROVE  Called
  <2>1. l \in made /\ link' = link /\ made' = made \ {l} /\ ret' = <<"destroy", l>>
    BY <1>6 DEF Sorted!Destroy
  <2>2. LK!SortedGood(SortedKey, link, made \ {l})
        /\ LK!Called(link, made, link, made \ {l}, <<"destroy", l>>)
    BY <2>1, Apart, LK!SortedLeaves
  <2>3. QED
    BY <2>1, <2>2
<1>7. Called
  BY <1>1, <1>3, <1>4, <1>5, <1>6 DEF Sorted!Next
<1>8. LK!Stepped(Elements, SortedItems, SortedItems', ret')
  BY <1>7, SortedChains, SortedChainsNext, LK!CalledStepped
<1>9. QED
  BY <1>7, <1>8, SortedDeque

\* What the invariant says of the lists.
LEMMA SortedShown ==
  ASSUME LK!SortedGood(SortedKey, link, made)
  PROVE  Sorted!SortedBothWays
<1>1. ASSUME NEW l \in made
      PROVE  LET s == Sorted!Chain(l)
             IN /\ \A i, j \in DOMAIN s : i < j => KeyOf(s[i]) <= KeyOf(s[j])
                /\ Sorted!Backward(link, l) = Sorted!Reverse(s)
                /\ \A k \in Keys :
                     LET equal == {i \in DOMAIN s : KeyOf(s[i]) = k}
                         above == {i \in DOMAIN s : KeyOf(s[i]) >= k}
                     IN /\ Sorted!lookup(l, k, TRUE) = IF equal = {} THEN None ELSE s[Sorted!Min(equal)]
                        /\ Sorted!lookup(l, k, FALSE) = IF above = {} THEN None ELSE s[Sorted!Min(above)]
  <2> DEFINE s == LK!Forward(link, l)
  <2>1. Sorted!Chain(l) = s /\ LK!ListFacts(link, l, s)
    BY SortedFound
  <2>2. /\ s \in Seq(Elements) /\ Len(s) \in Nat /\ DOMAIN s = 1 .. Len(s)
        /\ LK!Backward(link, l) = LK!Reverse(s) /\ \A i \in 1 .. Len(s) : s[i] \in Elements
    BY <2>1 DEF LK!ListFacts
  <2>3. LK!Rising(SortedKey, s)
    BY DEF LK!SortedGood
  <2>4. \A k, exact : Sorted!lookup(l, k, exact) = LK!Found(SortedKey, s, k, exact)
    BY SortedFound
  <2> HIDE DEF s
  <2>5. \A i \in 1 .. Len(s) : SortedKey[s[i]] = KeyOf(s[i])
    BY <2>2 DEF SortedKey
  <2>6. \A i, j \in DOMAIN s : i < j => KeyOf(s[i]) <= KeyOf(s[j])
    BY <2>2, <2>3, <2>5 DEF LK!Rising
  <2>7. Sorted!Backward(link, l) = Sorted!Reverse(s)
    BY <2>2, SortedSame
  <2>8. ASSUME NEW k \in Keys
        PROVE  LET equal == {i \in DOMAIN s : KeyOf(s[i]) = k}
                   above == {i \in DOMAIN s : KeyOf(s[i]) >= k}
               IN /\ Sorted!lookup(l, k, TRUE) = IF equal = {} THEN None ELSE s[Sorted!Min(equal)]
                  /\ Sorted!lookup(l, k, FALSE) = IF above = {} THEN None ELSE s[Sorted!Min(above)]
    <3>1. k \in Int
      BY ListsAssumption
    <3> DEFINE E == LK!Equal(SortedKey, s, k)
               A == LK!Above(SortedKey, s, k)
    <3>2. /\ LK!Found(SortedKey, s, k, TRUE) = IF E = {} THEN None ELSE s[LK!Min(E)]
          /\ LK!Found(SortedKey, s, k, FALSE) = IF A = {} THEN None ELSE s[LK!Min(A)]
      BY <2>2, <2>3, <3>1, SortedKeys, LK!FoundIs
    <3>3. /\ E = {i \in DOMAIN s : KeyOf(s[i]) = k} /\ A = {i \in DOMAIN s : KeyOf(s[i]) >= k}
      BY <2>2, <2>5 DEF LK!Equal, LK!Above
    <3> HIDE DEF E, A
    <3>4. Sorted!Min(E) = LK!Min(E) /\ Sorted!Min(A) = LK!Min(A)
      BY DEF Sorted!Min, LK!Min
    <3>5. /\ Sorted!lookup(l, k, TRUE) = IF E = {} THEN None ELSE s[Sorted!Min(E)]
          /\ Sorted!lookup(l, k, FALSE) = IF A = {} THEN None ELSE s[Sorted!Min(A)]
      BY <2>4, <3>2, <3>4
    <3>6. QED
      BY <3>3, <3>5
  <2>9. QED
    BY <2>1, <2>6, <2>7, <2>8
<1>2. QED
  BY <1>1 DEF Sorted!SortedBothWays

-----------------------------------------------------------------------------
(* HashTable.                                                              *)

BK == INSTANCE LinksProof WITH Lists <- 0 .. Nbuckets, Elements <- MoreElements

TableKey == [x \in MoreElements |-> KeyOf(x)]
TableHash == [x \in MoreElements |-> Table!Bucket(KeyOf(x))]

LEMMA TableApart ==
  /\ BK!EndsApart /\ BK!KeysAre(TableKey) /\ BK!BucketsAre(TableHash, Table!Buckets)
  /\ Table!Buckets \in SUBSET (0 .. Nbuckets) /\ Table!AllElements \in 0 .. Nbuckets
  /\ \A x \in MoreElements : TableKey[x] = KeyOf(x) /\ TableHash[x] = Table!Bucket(KeyOf(x))
  /\ \A k \in Int : Table!Bucket(k) \in Table!Buckets
<1>1. Seq(MoreElements) \subseteq Seq(Elements \cup MoreElements)
  BY SeqMonotonic
<1>2. BK!EndsApart
  BY <1>1, ListsAssumption DEF BK!EndsApart, BK!HeadOf, BK!TailOf, BK!IsFiniteSet, IsFiniteSet
<1>3. \A x \in MoreElements : /\ TableKey[x] = KeyOf(x) /\ TableHash[x] = Table!Bucket(KeyOf(x))
                             /\ KeyOf(x) \in Int
  BY ListsAssumption DEF TableKey, TableHash
<1>4. Nbuckets \in Nat \ {0}
  BY ListsAssumption
<1>5. \A k \in Int : Table!Bucket(k) \in Table!Buckets
  BY <1>4 DEF Table!Bucket, Table!Buckets
<1>6. Table!Buckets \in SUBSET (0 .. Nbuckets) /\ Table!AllElements \in 0 .. Nbuckets
  BY <1>4 DEF Table!Buckets, Table!AllElements
<1>7. BK!KeysAre(TableKey) /\ BK!BucketsAre(TableHash, Table!Buckets)
  BY <1>3, <1>5 DEF BK!KeysAre, BK!BucketsAre
<1>8. QED
  BY <1>2, <1>3, <1>5, <1>6, <1>7

\* The operators of HashTable are those that the lemmas are about.
LEMMA TableSame ==
  ASSUME NEW v, NEW l, NEW x, NEW w, NEW S
  PROVE  /\ Table!Forward(v, l) = BK!Forward(v, l) /\ Table!Backward(v, l) = BK!Backward(v, l)
         /\ Table!HeadOf(l) = BK!HeadOf(l) /\ Table!TailOf(l) = BK!TailOf(l)
         /\ Table!EmptyEnds(v, S) = BK!EmptyEnds(v, S)
         /\ Table!LinkBefore(v, x, w) = BK!LinkBefore(v, x, w)
         /\ Table!Unlink(v, x) = BK!Unlink(v, x)
         /\ Table!Nodes = BK!Nodes
         /\ Table!ToSet(x) = BK!ToSet(x) /\ Table!Reverse(x) = BK!Reverse(x)
         /\ Table!RemoveAt(x, w) = BK!RemoveAt(x, w)
         /\ Table!Min(x) = BK!Min(x) /\ Table!Max(x) = BK!Max(x)
         /\ Table!Cardinality(x) = BK!Cardinality(x)
<1>1. Table!HeadOf(l) = BK!HeadOf(l) /\ Table!TailOf(l) = BK!TailOf(l)
  BY DEF Table!HeadOf, BK!HeadOf, Table!TailOf, BK!TailOf
<1>2. Table!Cardinality(x) = BK!Cardinality(x)
  BY DEF Table!Cardinality, BK!Cardinality
<1>3. Table!Forward(v, l) = BK!Forward(v, l) /\ Table!Backward(v, l) = BK!Backward(v, l)
  BY <1>1 DEF Table!Forward, BK!Forward, Table!Backward, BK!Backward, Table!Walk, BK!Walk,
    Table!Cardinality, BK!Cardinality
<1>4. Table!EmptyEnds(v, S) = BK!EmptyEnds(v, S)
  BY DEF Table!EmptyEnds, BK!EmptyEnds, Table!HeadOf, BK!HeadOf, Table!TailOf, BK!TailOf
<1>5. Table!LinkBefore(v, x, w) = BK!LinkBefore(v, x, w) /\ Table!Unlink(v, x) = BK!Unlink(v, x)
  BY DEF Table!LinkBefore, BK!LinkBefore, Table!Unlink, BK!Unlink
<1>6. Table!Nodes = BK!Nodes
  BY DEF Table!Nodes, BK!Nodes, Table!Ends, BK!Ends, Table!HeadOf, BK!HeadOf, Table!TailOf, BK!TailOf
<1>7. /\ Table!ToSet(x) = BK!ToSet(x) /\ Table!Reverse(x) = BK!Reverse(x)
      /\ Table!RemoveAt(x, w) = BK!RemoveAt(x, w)
  BY DEF Table!ToSet, BK!ToSet, Table!Reverse, BK!Reverse, Table!RemoveAt, BK!RemoveAt
<1>8. Table!Min(x) = BK!Min(x) /\ Table!Max(x) = BK!Max(x)
  BY DEF Table!Min, BK!Min, Table!Max, BK!Max
<1>9. QED
  BY <1>1, <1>2, <1>3, <1>4, <1>5, <1>6, <1>7, <1>8

\* The elements of the buckets and of the list of all, and how they are ordered.
TableGood ==
  BK!TableGood(TableKey, TableHash, Table!Buckets, link, Table!AllElements, all, nitems)
TableInv ==
  /\ exists \in BOOLEAN /\ made = (IF exists THEN Table!Buckets ELSE {})
  /\ BK!LinkTypes(link) /\ BK!LinkTypes(all) /\ (exists => TableGood)

LEMMA TableChains ==
  /\ \A l : Table!Chain(l) = BK!Forward(link, l)
  /\ Table!AllChain = BK!Forward(all, Table!AllElements)
BY TableSame DEF Table!Chain, Table!AllChain

LEMMA TableChainsNext == Table!AllChain' = BK!Forward(all', Table!AllElements)
BY TableSame DEF Table!AllChain, Table!AllElements

\* What lookup finds.
LEMMA TableFound ==
  ASSUME TableGood, NEW b \in Table!Buckets
  PROVE  \A k, exact : Table!lookup(b, k, exact) = BK!Found(TableKey, BK!Forward(link, b), k, exact)
<1> DEFINE s == BK!Forward(link, b)
<1>1. Table!Chain(b) = s
  BY TableChains
<1>2. BK!ListFacts(link, b, s)
  <2>1. /\ BK!Ordered(link, Table!Buckets) /\ Table!Buckets \in SUBSET (0 .. Nbuckets)
    BY TableApart DEF TableGood, BK!TableGood, BK!SortedGood
  <2>2. QED
    BY <2>1, TableApart, BK!ListIs
<1>3. Len(s) \in Nat /\ \A i \in 1 .. Len(s) : TableKey[s[i]] = KeyOf(s[i])
  BY <1>2, TableApart DEF BK!ListFacts
<1> HIDE DEF s
<1>4. ASSUME NEW k, NEW exact
      PROVE  Table!lookup(b, k, exact) = BK!Found(TableKey, s, k, exact)
  <2> DEFINE I == {i \in 1 .. Len(s) : KeyOf(s[i]) >= k}
             J == {i \in 1 .. Len(s) : TableKey[s[i]] >= k}
             m == IF J # {} THEN BK!Min(J) ELSE 0
  <2>1. I = J
    BY <1>3
  <2>2. Table!lookup(b, k, exact) =
          LET i == IF I # {} THEN Table!Min(I) ELSE 0
          IN IF i = 0 \/ (exact /\ KeyOf(s[i]) # k) THEN None ELSE s[i]
    BY <1>1 DEF Table!lookup, Table!SelectInSeq, Table!Stops
  <2>3. Table!Min(J) = BK!Min(J)
    BY TableSame
  <2>4. BK!Found(TableKey, s, k, exact) =
          (IF m = 0 \/ (exact /\ TableKey[s[m]] # k) THEN None ELSE s[m])
    BY DEF BK!Found, BK!FirstFrom
  <2>5. Table!lookup(b, k, exact) = (IF m = 0 \/ (exact /\ KeyOf(s[m]) # k) THEN None ELSE s[m])
    BY <2>1, <2>2, <2>3
  <2>6. m = 0 \/ m \in 1 .. Len(s)
    <3>1. J \in SUBSET (1 .. Len(s))
      OBVIOUS
    <3> HIDE DEF J
    <3>2. CASE J # {}
      <4>1. BK!Min(J) \in J
        BY <1>3, <3>1, <3>2, BK!LeastIs
      <4>2. QED
        BY <3>1, <3>2, <4>1
    <3>3. QED
      BY <3>2
  <2> HIDE DEF m
  <2>7. QED
    BY <1>3, <2>4, <2>5, <2>6
<1>5. QED
  BY <1>4 DEF s

\* Before there is a table.
LEMMA TableInit == Table!InitTable => TableInv
<1> SUFFICES ASSUME Table!InitTable
             PROVE  TableInv
  OBVIOUS
<1>1. /\ link = [n \in BK!Nodes |-> [prev |-> None, next |-> None]] /\ all = link
      /\ made = {} /\ exists = FALSE
  BY TableSame DEF Table!InitTable, Table!Init
<1>2. BK!LinkTypes(link)
  BY <1>1 DEF BK!LinkTypes
<1>3. QED
  BY <1>1, <1>2 DEF TableInv

\* A step of the HashTable keeps it in order, and its list of all elements
\* changes as the calls say.
LEMMA TableSteps ==
  ASSUME TableInv, Table!NextTable
  PROVE  TableInv' /\ Table!InsertionOrderStep
<1> DEFINE t == BK!Forward(all, Table!AllElements)
           u == BK!Forward(all', Table!AllElements)
           Good(v, a, n) == BK!TableGood(TableKey, TableHash, Table!Buckets, v, Table!AllElements, a, n)
<1>0. /\ TableInv' <=> /\ exists' \in BOOLEAN /\ made' = (IF exists' THEN Table!Buckets ELSE {})
                       /\ BK!LinkTypes(link') /\ BK!LinkTypes(all')
                       /\ (exists' => Good(link', all', nitems'))
      /\ TableGood <=> Good(link, all, nitems)
      /\ Table!AllChain = t /\ Table!AllChain' = u
  BY TableChains, TableChainsNext
  DEF TableInv, TableGood, TableKey, TableHash, Table!Buckets, Table!AllElements, Table!Bucket
<1>1. ASSUME NEW v, NEW a, NEW n, Good(v, a, n)
      PROVE  BK!LinkTypes(v) /\ BK!LinkTypes(a)
  BY <1>1 DEF BK!TableGood, BK!SortedGood, BK!Ordered, BK!Chained
<1>2. CASE Table!ConstructTable
  <2>1. /\ exists = FALSE /\ exists' = TRUE /\ made' = Table!Buckets /\ nitems' = 0
        /\ link' = BK!EmptyEnds(link, Table!Buckets) /\ all' = BK!EmptyEnds(all, {Table!AllElements})
    BY <1>2, TableSame DEF Table!ConstructTable, TableInv
  <2>2. BK!LinkTypes(link) /\ BK!LinkTypes(all)
    BY DEF TableInv
  <2>3. Good(link', all', nitems')
    BY <2>1, <2>2, TableApart, BK!TableMade
  <2>4. QED
    BY <1>0, <1>1, <2>1, <2>3 DEF Table!InsertionOrderStep
<1>3. CASE Table!DestroyTable
  BY <1>0, <1>3 DEF Table!DestroyTable, TableInv, Table!InsertionOrderStep
<1>4. ASSUME NEW x \in MoreElements, Table!insertTable(x)
      PROVE  TableInv' /\ Table!InsertionOrderStep
  <2>1. PICK l : l = TableHash[x]
    OBVIOUS
  <2>2. /\ exists = TRUE /\ exists' = TRUE /\ made = Table!Buckets /\ made' = made /\ nitems' = nitems + 1
        /\ l \in Table!Buckets /\ l = Table!Bucket(KeyOf(x)) /\ TableKey[x] = KeyOf(x) /\ TableGood
    BY <1>4, <2>1, TableApart DEF Table!insertTable, Table!insert, TableInv
  <2>3. \A q \in Table!Buckets : x \notin BK!ToSet(BK!Forward(link, q))
    BY <1>4, <2>2, TableChains, TableSame DEF Table!insertTable, Table!insert, Table!Mine
  <2>4. PICK f : f = BK!Found(TableKey, BK!Forward(link, l), TableKey[x], FALSE)
    OBVIOUS
  <2>5. f = Table!lookup(l, KeyOf(x), FALSE)
    BY <2>2, <2>4, TableFound
  <2>6. link' = BK!LinkBefore(link, x, IF f = None THEN BK!TailOf(l) ELSE f)
    <3>1. link' = Table!LinkBefore(link, x, IF f = None THEN Table!TailOf(l) ELSE f)
      BY <1>4, <2>2, <2>5 DEF Table!insertTable, Table!insert
    <3>2. QED
      BY <3>1, TableSame
  <2>7. all' = BK!LinkBefore(all, x, BK!TailOf(Table!AllElements))
    <3>1. all' = Table!LinkBefore(all, x, Table!TailOf(Table!AllElements))
      BY <1>4 DEF Table!insertTable, Table!AtTail
    <3>2. QED
      BY <3>1, TableSame
  <2>8. Good(link, all, nitems)
    BY <1>0, <2>2
  <2>9. Good(link', all', nitems + 1) /\ u = Append(t, x)
    <3>1. BK!Fresh(link, Table!Buckets, x)
      BY <2>3 DEF BK!Fresh
    <3>2. PICK w : w = link'
      OBVIOUS
    <3>3. PICK z : z = all'
      OBVIOUS
    <3>4. BK!TableInserting(TableKey, TableHash, Table!Buckets, link, Table!AllElements, all, nitems, x, w, z)
      BY <2>1, <2>4, <2>6, <2>7, <2>8, <3>1, <3>2, <3>3, TableApart DEF BK!TableInserting
    <3> HIDE DEF Good, t, u
    <3>6. /\ BK!TableGood(TableKey, TableHash, Table!Buckets, w, Table!AllElements, z, nitems + 1)
          /\ BK!Forward(z, Table!AllElements) = Append(BK!Forward(all, Table!AllElements), x)
      BY <3>4, TableApart, BK!TableInserts
    <3>5. QED
      BY <3>2, <3>3, <3>6 DEF Good, t, u
  <2>10. Table!InsertionOrderStep
    BY <1>0, <2>9 DEF Table!InsertionOrderStep
  <2>11. QED
    BY <1>0, <1>1, <2>2, <2>9, <2>10
<1>5. ASSUME NEW x \in MoreElements, Table!removeTable(x)
      PROVE  TableInv' /\ Table!InsertionOrderStep
  <2>1. /\ exists = TRUE /\ exists' = TRUE /\ made = Table!Buckets /\ made' = made /\ nitems' = nitems - 1
        /\ link' = BK!Unlink(link, x) /\ all' = BK!Unlink(all, x) /\ x \in BK!ToSet(t)
    BY <1>0, <1>5, TableSame DEF Table!removeTable, TableInv
  <2>2. Good(link, all, nitems)
    BY <1>0, <2>1 DEF TableInv
  <2>3. /\ Good(BK!Unlink(link, x), BK!Unlink(all, x), nitems - 1)
        /\ \E i \in 1 .. Len(t) : BK!Forward(BK!Unlink(all, x), Table!AllElements) = BK!RemoveAt(t, i)
    BY <2>1, <2>2, TableApart, BK!TableRemoves
  <2>4. Good(link', all', nitems') /\ \E i \in 1 .. Len(t) : u = BK!RemoveAt(t, i)
    BY <2>1, <2>3
  <2>5. DOMAIN t = 1 .. Len(t)
    <3>1. BK!Ordered(all, {Table!AllElements}) /\ {Table!AllElements} \in SUBSET (0 .. Nbuckets)
      BY <2>2, TableApart DEF BK!TableGood
    <3>2. BK!ListFacts(all, Table!AllElements, t)
      BY <3>1, TableApart, BK!ListIs
    <3>3. QED
      BY <3>2 DEF BK!ListFacts
  <2>6. Table!InsertionOrderStep
    BY <1>0, <2>4, <2>5, TableSame DEF Table!InsertionOrderStep
  <2>7. QED
    BY <1>0, <1>1, <2>1, <2>4, <2>6
<1>6. QED
  BY <1>2, <1>3, <1>4, <1>5 DEF Table!NextTable

\* What the invariant says of the table.
LEMMA TableShown ==
  ASSUME TableInv
  PROVE  Table!BucketsAgree /\ Table!NewestFound
<1> DEFINE t == BK!Forward(all, Table!AllElements)
<1>1. CASE exists = FALSE
  BY <1>1 DEF Table!BucketsAgree, Table!NewestFound
<1>2. CASE exists = TRUE
  <2>1. BK!TableGood(TableKey, TableHash, Table!Buckets, link, Table!AllElements, all, nitems) /\ TableGood
    BY <1>2 DEF TableInv, TableGood
  <2>2. Table!AllChain = t
    BY TableChains
  <2>3. BK!ListFacts(all, Table!AllElements, t)
    <3>1. BK!Ordered(all, {Table!AllElements}) /\ {Table!AllElements} \in SUBSET (0 .. Nbuckets)
      BY <2>1, TableApart DEF BK!TableGood
    <3>2. QED
      BY <3>1, TableApart, BK!ListIs
  <2>4. /\ Len(t) \in Nat /\ DOMAIN t = 1 .. Len(t) /\ BK!ToSet(t) \subseteq MoreElements
        /\ \A i \in 1 .. Len(t) : t[i] \in MoreElements
    BY <2>3 DEF BK!ListFacts
  <2>5. /\ \A b \in Table!Buckets : BK!ToSet(BK!Forward(link, b)) = {x \in BK!ToSet(t) : TableHash[x] = b}
        /\ BK!Cardinality(BK!ToSet(t)) = Len(t) /\ nitems = Len(t)
        /\ BK!Backward(all, Table!AllElements) = BK!Reverse(t)
    BY <2>1, TableApart, BK!TableShows
  <2>6. Table!BucketsAgree
    <3> HIDE DEF t
    <3>1. \A b \in Table!Buckets :
            {x \in BK!ToSet(t) : TableHash[x] = b} = {x \in BK!ToSet(t) : Table!Bucket(KeyOf(x)) = b}
      BY <2>4, TableApart
    <3>2. \A b \in Table!Buckets : Table!ToSet(Table!Chain(b)) = BK!ToSet(BK!Forward(link, b))
      BY TableChains, TableSame
    <3>3. /\ Table!Cardinality(Table!ToSet(t)) = Len(t) /\ Table!ToSet(t) = BK!ToSet(t)
          /\ Table!Backward(all, Table!AllElements) = Table!Reverse(t)
      BY <2>5, TableSame
    <3>4. QED
      BY <2>2, <2>5, <3>1, <3>2, <3>3 DEF Table!BucketsAgree
  <2>7. ASSUME NEW k \in Keys
        PROVE  LET equal == {i \in DOMAIN Table!AllChain : KeyOf(Table!AllChain[i]) = k}
               IN Table!lookupTable(k) = IF equal = {} THEN None ELSE Table!AllChain[Table!Max(equal)]
    <3>1. k \in Int
      BY ListsAssumption
    <3>2. PICK b \in Table!Buckets : b = Table!Bucket(k)
      BY <3>1, TableApart
    <3>3. BK!BucketIs(TableKey, TableHash, k, b)
      BY <3>2, TableApart DEF BK!BucketIs
    <3> DEFINE E == BK!Equal(TableKey, t, k)
    <3>4. BK!Found(TableKey, BK!Forward(link, b), k, TRUE) = IF E = {} THEN None ELSE t[BK!Max(E)]
      <4>1. BK!EndsApart /\ BK!LookingFor(TableKey, TableHash, Table!Buckets, link, Table!AllElements,
                                          all, nitems, k, b)
        BY <2>1, <3>1, <3>3, TableApart DEF BK!LookingFor
      <4>2. BK!FindsNewest(TableKey, BK!Forward(link, b), t, k)
        BY <4>1, BK!NewestIs
      <4>3. QED
        BY <4>2 DEF BK!FindsNewest
    <3>5. E = {i \in DOMAIN t : KeyOf(t[i]) = k}
      BY <2>4, TableApart DEF BK!Equal
    <3> HIDE DEF E
    <3>6. Table!lookupTable(k) = BK!Found(TableKey, BK!Forward(link, b), k, TRUE)
      BY <2>1, <3>2, TableFound DEF Table!lookupTable, Table!lookupBK
    <3>7. Table!Max(E) = BK!Max(E)
      BY TableSame
    <3> HIDE DEF t
    <3>8. QED
      BY <2>2, <3>4, <3>5, <3>6, <3>7
  <2>8. QED
    BY <2>6, <2>7 DEF Table!NewestFound
<1>3. QED
  BY <1>1, <1>2 DEF TableInv

-----------------------------------------------------------------------------
(* The lists before there are any.                                         *)

LEMMA LinkedInit ==
  ASSUME Linked!Init
  PROVE  LK!LinkedGood(link, made, all) /\ Linked!Sequences!Init
<1>1. /\ link = [n \in LK!Nodes |-> [prev |-> None, next |-> None]]
      /\ made = [l \in Lists |-> None] /\ all = {} /\ ret = <<"none">>
  BY LinkedSame DEF Linked!Init
<1>2. LK!Live(made) = {}
  BY <1>1 DEF LK!Live
<1>3. LK!Ordered(link, LK!Live(made))
  <2>1. LK!LinkTypes(link)
    BY <1>1 DEF LK!LinkTypes
  <2>2. QED
    BY <1>2, <2>1, LK!NoneOrdered
<1>4. LK!LinkedGood(link, made, all)
  BY <1>1, <1>2, <1>3 DEF LK!LinkedGood
<1>5. LinkedItems = [l \in Lists |-> None]
  BY <1>2, LinkedChains DEF LK!Shown
<1>6. QED
  BY <1>1, <1>4, <1>5 DEF Linked!Sequences!Init, LinkedItems

LEMMA SimpleInit ==
  ASSUME Simple!Init
  PROVE  LK!SimpleGood(Values, link, nitems, made, all) /\ Simple!Sequences!Init
<1>1. /\ link = [n \in LK!Nodes |-> [prev |-> None, next |-> None]]
      /\ made = [n \in Elements |-> None] /\ nitems = [l \in Lists |-> None]
      /\ all = {} /\ ret = <<"none">>
  BY SimpleSame DEF Simple!Init
<1>2. LK!Live(nitems) = {}
  BY <1>1 DEF LK!Live
<1>3. LK!Ordered(link, LK!Live(nitems))
  <2>1. LK!LinkTypes(link)
    BY <1>1 DEF LK!LinkTypes
  <2>2. QED
    BY <1>2, <2>1, LK!NoneOrdered
<1>4. LK!SimpleGood(Values, link, nitems, made, all)
  BY <1>1, <1>2, <1>3 DEF LK!SimpleGood
<1>5. SimpleItems = [l \in Lists |-> None]
  BY <1>2, SimpleChains DEF LK!Items
<1>6. QED
  BY <1>1, <1>4, <1>5 DEF Simple!Sequences!Init, SimpleItems

LEMMA SinglyStart ==
  ASSUME Singly!Init
  PROVE  SK!SinglyGood(link, made)
<1>1. /\ link = [x \in MoreElements |-> None]
      /\ made = [l \in Lists |-> [Head |-> None, Tail |-> None, nitems |-> 0]]
  BY DEF Singly!Init
<1>2. QED
  BY <1>1, SinglyApart, SK!SinglyInit

LEMMA SortedInit ==
  ASSUME Sorted!Init
  PROVE  LK!SortedGood(SortedKey, link, made) /\ Sorted!Sequences!Init
<1>1. /\ link = [n \in LK!Nodes |-> [prev |-> None, next |-> None]]
      /\ made = {} /\ ret = <<"none">>
  BY SortedSame DEF Sorted!Init
<1>2. LK!Ordered(link, made)
  <2>1. LK!LinkTypes(link)
    BY <1>1 DEF LK!LinkTypes
  <2>2. QED
    BY <1>1, <2>1, LK!NoneOrdered
<1>3. LK!SortedGood(SortedKey, link, made)
  BY <1>1, <1>2 DEF LK!SortedGood
<1>4. SortedItems = [l \in Lists |-> None]
  BY <1>1 DEF SortedItems
<1>5. QED
  BY <1>1, <1>3, <1>4 DEF Sorted!Sequences!Init, SortedItems

-----------------------------------------------------------------------------
(* All of them.                                                            *)

\* The links are those of sequences without repetition, no two lists share an
\* element, and what is counted, allocated, sorted and hashed agrees with them.
ListsInv ==
  /\ part = "linked" => LK!LinkedGood(link, made, all)
  /\ part = "simple" => LK!SimpleGood(Values, link, nitems, made, all)
  /\ part = "singly" => SK!SinglyGood(link, made)
  /\ part = "sorted" => LK!SortedGood(SortedKey, link, made)
  /\ part = "hash table" => TableInv

LEMMA ListsInit ==
  ASSUME InitLists
  PROVE  /\ ListsInv
         /\ part = "linked" => Linked!Sequences!Init
         /\ part = "simple" => Simple!Sequences!Init
         /\ part = "sorted" => Sorted!Sequences!Init
<1>1. /\ part = "linked" => Linked!Init
      /\ part = "simple" => Simple!Init
      /\ part = "singly" => Singly!Init
      /\ part = "sorted" => Sorted!Init
      /\ part = "hash table" => Table!InitTable
  BY DEF InitLists
<1>2. QED
  BY <1>1, LinkedInit, SimpleInit, SinglyStart, SortedInit, TableInit DEF ListsInv

\* What a step of a list may do.
ListsDo ==
  /\ part = "linked" => [Linked!Sequences!Next]_(Linked!Sequences!vars)
  /\ part = "simple" => [Simple!Sequences!Next]_(Simple!Sequences!vars)
  /\ part = "singly" => [Singly!Sequences!Next]_(Singly!Sequences!vars)
  /\ part = "sorted" => [Sorted!Sequences!Next]_(Sorted!Sequences!vars)
TableDoes == part = "hash table" => Table!InsertionOrderStep

LEMMA ListsSame ==
  ASSUME ListsInv, UNCHANGED vars
  PROVE  ListsInv'
<1>1. /\ link' = link /\ made' = made /\ all' = all /\ nitems' = nitems /\ exists' = exists
      /\ part' = part
  BY DEF vars
<1>2. TableInv' <=> TableInv
  BY <1>1 DEF TableInv, TableGood, TableKey, TableHash, Table!Buckets, Table!AllElements, Table!Bucket
<1>3. SortedKey' = SortedKey
  BY DEF SortedKey
<1>4. QED
  BY <1>1, <1>2, <1>3 DEF ListsInv

LEMMA ListsNext ==
  ASSUME ListsInv, NextLists
  PROVE  ListsInv' /\ ListsDo /\ TableDoes
<1>1. CASE LinkedStep
  <2>1. part = "linked" /\ part' = "linked" /\ Linked!Next
    BY <1>1 DEF LinkedStep, Same
  <2>2. LK!LinkedGood(link', made', all') /\ [Linked!Sequences!Next]_(Linked!Sequences!vars)
    BY <2>1, LinkedSteps DEF ListsInv
  <2>3. QED
    BY <2>1, <2>2 DEF ListsInv, ListsDo, TableDoes
<1>2. CASE SimpleStep
  <2>1. part = "simple" /\ part' = "simple" /\ Simple!Next
    BY <1>2 DEF SimpleStep, Same
  <2>2. LK!SimpleGood(Values, link', nitems', made', all') /\ Simple!Sequences!Next
    BY <2>1, SimpleSteps DEF ListsInv
  <2>3. QED
    BY <2>1, <2>2 DEF ListsInv, ListsDo, TableDoes
<1>3. CASE SinglyStep
  <2>1. part = "singly" /\ part' = "singly" /\ Singly!Next
    BY <1>3 DEF SinglyStep, Same
  <2>2. SK!SinglyGood(link', made') /\ Singly!Sequences!Next
    BY <2>1, SinglySteps DEF ListsInv
  <2>3. QED
    BY <2>1, <2>2 DEF ListsInv, ListsDo, TableDoes
<1>4. CASE SortedStep
  <2>1. part = "sorted" /\ part' = "sorted" /\ Sorted!Next
    BY <1>4 DEF SortedStep, Same
  <2>2. LK!SortedGood(SortedKey, link', made') /\ Sorted!Sequences!Next
    BY <2>1, SortedSteps DEF ListsInv
  <2>3. SortedKey' = SortedKey
    BY DEF SortedKey
  <2>4. QED
    BY <2>1, <2>2, <2>3 DEF ListsInv, ListsDo, TableDoes
<1>5. CASE TableStep
  <2>1. part = "hash table" /\ part' = "hash table" /\ Table!NextTable
    BY <1>5 DEF TableStep
  <2>2. TableInv' /\ Table!InsertionOrderStep
    BY <2>1, TableSteps DEF ListsInv
  <2>3. QED
    BY <2>1, <2>2 DEF ListsInv, ListsDo, TableDoes
<1>6. CASE StackStep \/ CountedStep
  <2>1. part \in {"stack", "counted"} /\ part' = part
    BY <1>6 DEF StackStep, CountedStep, Same
  <2>2. QED
    BY <2>1 DEF ListsInv, ListsDo, TableDoes
<1>7. QED
  BY <1>1, <1>2, <1>3, <1>4, <1>5, <1>6 DEF NextLists

LEMMA LinkedShown ==
  ASSUME LK!LinkedGood(link, made, all)
  PROVE  Linked!ChainsMirrored
<1>1. ASSUME NEW l \in Lists, Linked!Exists(l)
      PROVE  /\ Linked!Backward(link, l) = Linked!Reverse(Linked!Chain(l))
             /\ made[l].nitems = Len(Linked!Chain(l))
             /\ Linked!ToSet(Linked!Chain(l)) \subseteq all
             /\ \A r \in Lists \ {l} : Linked!Exists(r) =>
                  Linked!ToSet(Linked!Chain(l)) \cap Linked!ToSet(Linked!Chain(r)) = {}
             /\ made[l].ToClean \in BOOLEAN
             /\ link[Linked!HeadOf(l)].prev = None /\ link[Linked!TailOf(l)].next = None
  <2>1. l \in LK!Live(made) /\ Linked!Chain(l) = LK!Forward(link, l)
    BY <1>1, LinkedChains
  <2>2. /\ LK!Backward(link, l) = LK!Reverse(LK!Forward(link, l))
        /\ made[l].nitems = Len(LK!Forward(link, l))
        /\ LK!ToSet(LK!Forward(link, l)) \subseteq all
        /\ \A r \in LK!Live(made) \ {l} :
             LK!ToSet(LK!Forward(link, l)) \cap LK!ToSet(LK!Forward(link, r)) = {}
        /\ made[l].ToClean \in BOOLEAN
        /\ link[LK!HeadOf(l)].prev = None /\ link[LK!TailOf(l)].next = None
    BY <2>1, Apart, LK!LinkedShows
  <2>3. \A r \in Lists \ {l} : Linked!Exists(r) =>
          Linked!ToSet(Linked!Chain(l)) \cap Linked!ToSet(Linked!Chain(r)) = {}
    <3>1. ASSUME NEW r \in Lists \ {l}, Linked!Exists(r)
          PROVE  Linked!ToSet(Linked!Chain(l)) \cap Linked!ToSet(Linked!Chain(r)) = {}
      <4>1. r \in LK!Live(made) \ {l} /\ Linked!Chain(r) = LK!Forward(link, r)
        BY <3>1, LinkedChains
      <4>2. QED
        BY <2>1, <2>2, <4>1, LinkedSame
    <3>2. QED
      BY <3>1
  <2>4. QED
    BY <2>1, <2>2, <2>3, LinkedSame
<1>2. QED
  BY <1>1 DEF Linked!ChainsMirrored

LEMMA SimpleShown ==
  ASSUME LK!SimpleGood(Values, link, nitems, made, all)
  PROVE  Simple!ItemsAccounted
<1> DEFINE S == LK!Live(nitems)
<1>1. {l \in Lists : Simple!Exists(l)} = S /\ \A l \in S : Simple!Chain(l) = LK!Forward(link, l)
  BY SimpleChains
<1>2. ASSUME NEW l \in S
      PROVE  /\ Simple!Backward(link, l) = Simple!Reverse(Simple!Chain(l))
             /\ nitems[l] = Len(Simple!Chain(l)) /\ Simple!IsInjective(Simple!Chain(l))
             /\ \A r \in S \ {l} : Simple!ToSet(Simple!Chain(l)) \cap Simple!ToSet(Simple!Chain(r)) = {}
  <2>1. /\ LK!Backward(link, l) = LK!Reverse(LK!Forward(link, l)) /\ nitems[l] = Len(LK!Forward(link, l))
        /\ LK!IsInjective(LK!Forward(link, l))
        /\ \A r \in S \ {l} : LK!ToSet(LK!Forward(link, l)) \cap LK!ToSet(LK!Forward(link, r)) = {}
    BY Apart, LK!SimpleShows
  <2>2. QED
    BY <1>1, <2>1, SimpleSame
<1>3. all = UNION {Simple!ToSet(Simple!Chain(l)) : l \in S}
  <2>1. all = UNION {LK!ToSet(LK!Forward(link, l)) : l \in S}
    BY DEF LK!SimpleGood
  <2>2. \A l \in S : Simple!ToSet(Simple!Chain(l)) = LK!ToSet(LK!Forward(link, l))
    BY <1>1, SimpleSame
  <2>3. QED
    BY <2>1, <2>2
<1> HIDE DEF S
<1>4. QED
  BY <1>1, <1>2, <1>3 DEF Simple!ItemsAccounted

LEMMA SinglyShown ==
  ASSUME SK!SinglyGood(link, made)
  PROVE  Singly!TailIsLast
<1>1. ASSUME NEW l \in Lists
      PROVE  LET s == Singly!Chain(l)
             IN made[l].Tail = (IF s = <<>> THEN None ELSE s[Len(s)]) /\ made[l].nitems = Len(s)
  <2>1. Singly!Chain(l) = SK!Walk(link, made[l].Head, None, SK!Cardinality(MoreElements))
    BY SinglySame DEF Singly!Chain
  <2>2. QED
    BY <2>1, SK!SinglyShows
<1>2. QED
  BY <1>1 DEF Singly!TailIsLast

-----------------------------------------------------------------------------
(* The links stay those of sequences, from call to call (LinkList,         *)
(* SimpleLinkList, SLinkList, SortedLinkList, HashTable).                  *)
THEOREM ListsInvariance == SpecLists => []ListsInv
<1>1. InitLists => ListsInv
  BY ListsInit
<1>2. ListsInv /\ [NextLists]_vars => ListsInv'
  BY ListsNext, ListsSame
<1>3. QED
  BY <1>1, <1>2, PTL DEF SpecLists

(* Any number of lists of any elements are the same forwards and           *)
(* backwards, as long as nitems says, disjoint, and sorted if they are to  *)
(* be; no item is leaked and none freed in a list.                         *)
THEOREM ListsAreSound == SpecLists => []ChainsSound
<1>1. ListsInv => ChainsSound
  <2>1. SUFFICES ASSUME ListsInv
                 PROVE  ChainsSound
    OBVIOUS
  <2>2. part = "linked" => Linked!ChainsMirrored
    BY <2>1, LinkedShown DEF ListsInv
  <2>3. part = "simple" => Simple!ItemsAccounted
    BY <2>1, SimpleShown DEF ListsInv
  <2>4. part = "singly" => Singly!TailIsLast
    BY <2>1, SinglyShown DEF ListsInv
  <2>5. part = "sorted" => Sorted!SortedBothWays
    BY <2>1, SortedShown DEF ListsInv
  <2>6. QED
    BY <2>2, <2>3, <2>4, <2>5 DEF ChainsSound
<1>2. QED
  BY <1>1, ListsInvariance, PTL

(* The lists implement sequences: a call changes the sequence of one list  *)
(* as it says, whatever stale pointers the elements have, and no other.    *)
THEOREM ListsAreSequences == SpecLists => Deques
<1>1. InitLists => /\ part = "linked" => Linked!Sequences!Init
                   /\ part = "simple" => Simple!Sequences!Init
                   /\ part = "sorted" => Sorted!Sequences!Init
  BY ListsInit
<1>2. ListsInv /\ [NextLists]_vars =>
        [/\ part = "linked" => [Linked!Sequences!Next]_(Linked!Sequences!vars)
         /\ part = "simple" => [Simple!Sequences!Next]_(Simple!Sequences!vars)
         /\ part = "singly" => [Singly!Sequences!Next]_(Singly!Sequences!vars)
         /\ part = "sorted" => [Sorted!Sequences!Next]_(Sorted!Sequences!vars)]_vars
  <2>1. SUFFICES ASSUME ListsInv, NextLists
                 PROVE  ListsDo
    BY DEF ListsDo
  <2>2. QED
    BY <2>1, ListsNext
<1>3. QED
  BY <1>1, <1>2, ListsInvariance, PTL DEF SpecLists, Deques

(* The buckets of a hash table are the elements of its list of all, which  *)
(* nitems counts, and lookup finds the newest element of a key, for any    *)
(* number of buckets.                                                      *)
THEOREM BucketsAreSound == SpecLists => []BucketsSound
<1>1. ListsInv => BucketsSound
  <2>1. SUFFICES ASSUME ListsInv, part = "hash table"
                 PROVE  Table!BucketsAgree /\ Table!NewestFound
    BY DEF BucketsSound
  <2>2. TableInv
    BY <2>1 DEF ListsInv
  <2>3. QED
    BY <2>2, TableShown
<1>2. QED
  BY <1>1, ListsInvariance, PTL

(* The list of all elements of a hash table grows at its end and never     *)
(* changes its order.                                                      *)
THEOREM InsertionOrderKept == SpecLists => KeepsOrder
<1>1. ListsInv /\ NextLists => TableDoes
  BY ListsNext
<1>2. ListsInv /\ [NextLists]_vars => [TableDoes]_vars
  BY <1>1
<1>3. QED
  BY <1>2, ListsInvariance, PTL DEF SpecLists, KeepsOrder, TableDoes
=============================================================================
