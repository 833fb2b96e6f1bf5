----------------------------- MODULE LinksProof -----------------------------
(***************************************************************************)
(* What the writes of Links do to the sequences of elements, for any lists *)
(* and elements, and what a walk along the links finds.                    *)
(***************************************************************************)
EXTENDS Links, SequenceTheorems, FiniteSetTheorems, WellFoundedInduction, TLAPS

\* No element is the end of a list or None, and no end and no sequence is None.
EndsApart ==
  /\ IsFiniteSet(Elements) /\ None \notin Elements \cup Seq(Elements)
  /\ \A l \in Lists : \A x \in Elements \cup {None} : x # HeadOf(l) /\ x # TailOf(l)

-----------------------------------------------------------------------------
(* Induction, on a set of numbers.                                         *)

\* A set that has 0, and with a number the next one, has all of them.
LEMMA Induct ==
  ASSUME NEW n \in Nat, NEW S, 0 \in S, \A k \in 0 .. n - 1 : k \in S => k + 1 \in S
  PROVE  \A k \in 0 .. n : k \in S
<1> DEFINE I == {k \in 1 .. n : k \notin S}
           Below(x) == {y \in I : y <= x}
           T == {Below(x) : x \in I}
<1>1. SUFFICES ASSUME I # {}
               PROVE  FALSE
  <2>1. \A k \in 0 .. n : k = 0 \/ k \in 1 .. n
    OBVIOUS
  <2>2. QED
    BY <2>1
<1>2. IsFiniteSet(I) /\ T \subseteq FiniteSubsetsOf(I) /\ T # {}
  <2>1. IsFiniteSet(1 .. n)
    BY FS_Interval
  <2>2. IsFiniteSet(I)
    BY <2>1, FS_Subset
  <2>3. FiniteSubsetsOf(I) = SUBSET I
    BY <2>2, FS_FiniteSubsetsOfFinite
  <2>4. T \subseteq SUBSET I /\ T # {}
    BY <1>1
  <2>5. QED
    BY <2>2, <2>3, <2>4
<1>3. PICK B \in T : \A C \in T : ~ (<<C, B>> \in StrictSubsetOrdering(I))
  BY <1>2, FS_StrictSubsetOrderingWellFounded, WFMin
<1>4. PICK x \in I : B = Below(x)
  BY <1>3
<1>5. ASSUME NEW y \in I, y < x
      PROVE  FALSE
  <2>1. Below(y) \in T /\ Below(y) \subseteq B /\ Below(y) # B /\ B \subseteq I
    <3>1. x \in Int /\ y \in Int /\ \A z \in I : z \in Int
      OBVIOUS
    <3>2. x \in B /\ x \notin Below(y)
      BY <1>4, <1>5, <3>1
    <3>3. \A z \in Below(y) : z \in B
      BY <1>4, <1>5, <3>1
    <3>4. QED
      BY <1>4, <3>2, <3>3
  <2>2. <<Below(y), B>> \in StrictSubsetOrdering(I)
    BY <2>1 DEF StrictSubsetOrdering
  <2>3. QED
    BY <1>3, <2>1, <2>2
<1>6. x \in 1 .. n /\ x \notin S /\ x - 1 \in 0 .. n - 1 /\ x - 1 + 1 = x
  OBVIOUS
<1>7. x - 1 \in S
  <2>1. x - 1 = 0 \/ (x - 1 \in 1 .. n /\ x - 1 < x)
    BY <1>6
  <2>2. QED
    BY <1>5, <2>1
<1>8. QED
  BY <1>6, <1>7

-----------------------------------------------------------------------------
(* Sequences.                                                              *)

\* A sequence without repetitions is no longer than its elements are many.
LEMMA InjectiveFits ==
  ASSUME NEW S, IsFiniteSet(S), NEW s \in Seq(S), IsInjective(s)
  PROVE  Cardinality(S) \in Nat /\ Len(s) \in Nat /\ Len(s) <= Cardinality(S)
<1>1. Len(s) \in Nat /\ DOMAIN s = 1 .. Len(s) /\ s \in [1 .. Len(s) -> S]
  BY LenProperties
<1>2. s \in Injection(1 .. Len(s), S)
  BY <1>1 DEF Injection
<1>3. Cardinality(1 .. Len(s)) = Len(s)
  BY <1>1, FS_Interval
<1>4. Cardinality(S) \in Nat
  BY FS_CardinalityType
<1>5. QED
  BY <1>1, <1>2, <1>3, <1>4, FS_Injection

\* A set of numbers that is not empty has a least and a greatest one.
LEMMA LeastIs ==
  ASSUME NEW n \in Nat, NEW I \in SUBSET (1 .. n), I # {}
  PROVE  Min(I) \in I /\ \A y \in I : Min(I) <= y
<1>1. \A y \in I : y \in 1 .. n
  OBVIOUS
<1>2. \E x \in I : \A y \in I : x <= y
  <2>1. SUFFICES ASSUME \A x \in I : \E y \in I : ~ (x <= y)
                 PROVE  FALSE
    OBVIOUS
  <2> DEFINE S == {k \in 0 .. n : \A i \in 1 .. k : i \notin I}
  <2>2. 0 \in S
    OBVIOUS
  <2>3. \A k \in 0 .. n - 1 : k \in S => k + 1 \in S
    <3>1. TAKE k \in 0 .. n - 1
    <3>2. HAVE k \in S
    <3>3. \A i \in 1 .. k : i \notin I
      BY <3>2
    <3>4. k + 1 \notin I
      <4>1. SUFFICES ASSUME k + 1 \in I
                     PROVE  FALSE
        OBVIOUS
      <4>2. PICK y \in I : ~ (k + 1 <= y)
        BY <2>1, <4>1
      <4>3. y \in 1 .. k
        BY <1>1, <4>2
      <4>4. QED
        BY <3>3, <4>3
    <3>5. \A i \in 1 .. k + 1 : i \in 1 .. k \/ i = k + 1
      OBVIOUS
    <3>6. k + 1 \in 0 .. n
      OBVIOUS
    <3>7. QED
      BY <3>3, <3>4, <3>5, <3>6
  <2> HIDE DEF S
  <2>4. \A k \in 0 .. n : k \in S
    BY <2>2, <2>3, Induct
  <2>5. n \in S
    BY <2>4
  <2>6. QED
    BY <1>1, <2>5 DEF S
<1>3. QED
  BY <1>2 DEF Min

LEMMA GreatestIs ==
  ASSUME NEW n \in Nat, NEW I \in SUBSET (1 .. n), I # {}
  PROVE  Max(I) \in I /\ \A y \in I : Max(I) >= y
<1> DEFINE J == {n + 1 - y : y \in I}
<1>1. J \in SUBSET (1 .. n) /\ J # {}
  <2>1. \A y \in I : y \in 1 .. n
    OBVIOUS
  <2>2. \A y \in 1 .. n : n + 1 - y \in 1 .. n
    OBVIOUS
  <2>3. QED
    BY <2>1, <2>2
<1>2. Min(J) \in J /\ \A y \in J : Min(J) <= y
  BY <1>1, LeastIs
<1>3. PICK x \in I : Min(J) = n + 1 - x
  BY <1>2
<1>4. \A y \in I : x >= y
  <2>1. TAKE y \in I
  <2>2. n + 1 - y \in J /\ x \in 1 .. n /\ y \in 1 .. n
    OBVIOUS
  <2>3. n + 1 - x <= n + 1 - y
    BY <1>2, <1>3, <2>2
  <2>4. QED
    BY <2>2, <2>3
<1>5. QED
  BY <1>4 DEF Max

\* The place of an element in a sequence without repetitions.
PlaceOf(s, x) == SelectInSeq(s, LAMBDA y : y = x)

LEMMA PlaceIs ==
  ASSUME NEW S, NEW s \in Seq(S), IsInjective(s), NEW k \in 1 .. Len(s)
  PROVE  PlaceOf(s, s[k]) = k
<1>1. Len(s) \in Nat /\ DOMAIN s = 1 .. Len(s)
  BY LenProperties
<1> DEFINE I == {i \in 1 .. Len(s) : s[i] = s[k]}
<1>2. I = {k}
  BY <1>1 DEF IsInjective
<1>3. I \in SUBSET (1 .. Len(s)) /\ I # {}
  BY <1>2
<1>4. Min(I) = k
  BY <1>1, <1>2, <1>3, LeastIs
<1>5. PlaceOf(s, s[k]) = IF I # {} THEN Min(I) ELSE 0
  BY DEF SelectInSeq, PlaceOf
<1>6. QED
  BY <1>3, <1>4, <1>5

\* What a sequence is with x as element i.
LEMMA InsertAtIs ==
  ASSUME NEW S, NEW s \in Seq(S), NEW i \in 1 .. Len(s) + 1, NEW x \in S
  PROVE  /\ InsertAt(s, i, x) \in Seq(S) /\ Len(InsertAt(s, i, x)) = Len(s) + 1
         /\ \A j \in 1 .. Len(s) + 1 :
              InsertAt(s, i, x)[j] = IF j < i THEN s[j] ELSE IF j = i THEN x ELSE s[j - 1]
<1> DEFINE a == SubSeq(s, 1, i - 1)
           b == SubSeq(s, i, Len(s))
           n == Len(s)
<1>1. n \in Nat /\ i \in Nat /\ i >= 1 /\ i <= n + 1 /\ \A j \in 1 .. n : s[j] \in S
  BY LenProperties, ElementOfSeq
<1>2. a \in Seq(S) /\ Len(a) = i - 1 /\ \A j \in 1 .. i - 1 : a[j] = s[j]
  <2>1. \A j \in 1 .. i - 1 : s[j] \in S
    BY <1>1
  <2>2. i - 1 \in Int /\ (1 <= i - 1 \/ i - 1 = 0)
    BY <1>1
  <2>3. QED
    BY <2>1, <2>2, SubSeqProperties
<1>3. b \in Seq(S) /\ Len(b) = n - i + 1 /\ \A j \in 1 .. n - i + 1 : b[j] = s[i + j - 1]
  <2>1. \A j \in i .. n : s[j] \in S
    BY <1>1
  <2>2. i \in Int /\ n \in Int /\ (i <= n \/ i = n + 1)
    BY <1>1
  <2>3. QED
    BY <2>1, <2>2, SubSeqProperties
<1> HIDE DEF a, b
<1>4. <<x>> \in Seq(S) /\ Len(<<x>>) = 1 /\ <<x>>[1] = x
  OBVIOUS
<1>5. /\ a \o <<x>> \in Seq(S) /\ Len(a \o <<x>>) = i
      /\ \A j \in 1 .. i : (a \o <<x>>)[j] = IF j < i THEN s[j] ELSE x
  BY <1>1, <1>2, <1>4, ConcatProperties
<1> DEFINE d == a \o <<x>>
           r == d \o b
<1> HIDE DEF d
<1>6. /\ r \in Seq(S) /\ Len(r) = n + 1
      /\ \A j \in 1 .. n + 1 : r[j] = IF j <= i THEN d[j] ELSE b[j - i]
  <2>1. d \in Seq(S) /\ Len(d) = i
    BY <1>5 DEF d
  <2>2. r \in Seq(S) /\ Len(r) = i + (n - i + 1)
        /\ \A j \in 1 .. i + (n - i + 1) : r[j] = IF j <= i THEN d[j] ELSE b[j - i]
    BY <1>3, <2>1, ConcatProperties
  <2>3. i + (n - i + 1) = n + 1
    BY <1>1
  <2>4. QED
    BY <2>2, <2>3
<1> HIDE DEF r
<1>7. \A j \in 1 .. n + 1 : r[j] = IF j < i THEN s[j] ELSE IF j = i THEN x ELSE s[j - 1]
  <2>1. TAKE j \in 1 .. n + 1
  <2>2. CASE j <= i
    BY <1>1, <1>5, <1>6, <2>2 DEF d
  <2>3. CASE j > i
    <3>1. j - i \in 1 .. n - i + 1 /\ i + (j - i) - 1 = j - 1
      BY <1>1, <2>3
    <3>2. QED
      BY <1>1, <1>3, <1>6, <2>3, <3>1
  <2>4. QED
    BY <1>1, <2>2, <2>3
<1>8. InsertAt(s, i, x) = r
  BY DEF InsertAt, r, d, a, b
<1>9. QED
  BY <1>6, <1>7, <1>8

\* An element put at an end.
LEMMA InsertEnds ==
  ASSUME NEW S, NEW s \in Seq(S), NEW x \in S
  PROVE  /\ InsertAt(s, 0 + 1, x) = <<x>> \o s
         /\ InsertAt(s, Len(s) + 1, x) = Append(s, x)
<1>1. Len(s) \in Nat
  BY LenProperties
<1>2. \A i \in 1 .. Len(s) : s[i] \in S
  BY ElementOfSeq
<1>3. <<x>> \in Seq(S) /\ Len(<<x>>) = 1 /\ <<x>>[1] = x
  OBVIOUS
<1>4. InsertAt(s, 0 + 1, x) = <<x>> \o s
  <2>1. SubSeq(s, 1, 0) = <<>>
    BY SubSeqEmpty
  <2>2. SubSeq(s, 1, Len(s)) = s
    BY SubSeqFull
  <2>3. <<>> \o <<x>> = <<x>>
    BY <1>3, ConcatEmptySeq
  <2>4. InsertAt(s, 1, x) = (SubSeq(s, 1, 0) \o <<x>>) \o SubSeq(s, 1, Len(s))
    BY DEF InsertAt
  <2>5. QED
    BY <2>1, <2>2, <2>3, <2>4
<1>5. InsertAt(s, Len(s) + 1, x) = Append(s, x)
  <2>1. SubSeq(s, 1, Len(s)) = s
    BY SubSeqFull
  <2>2. SubSeq(s, Len(s) + 1, Len(s)) = <<>>
    <3>1. PICK i \in Int : i = Len(s) + 1
      BY <1>1
    <3>2. Len(s) \in Int /\ Len(s) < i
      BY <1>1, <3>1
    <3>3. SubSeq(s, i, Len(s)) = <<>>
      BY <3>2, SubSeqEmpty
    <3>4. QED
      BY <3>1, <3>3
  <2>3. Len(s) + 1 - 1 = Len(s)
    BY <1>1
  <2>4. InsertAt(s, Len(s) + 1, x) = (SubSeq(s, 1, Len(s)) \o <<x>>) \o SubSeq(s, Len(s) + 1, Len(s))
    BY <2>3 DEF InsertAt
  <2>5. s \o <<x>> \in Seq(S)
    BY <1>3, ConcatProperties
  <2>6. (s \o <<x>>) \o <<>> = s \o <<x>>
    BY <2>5, ConcatEmptySeq
  <2>7. QED
    BY <2>1, <2>2, <2>4, <2>6, AppendIsConcat
<1>6. QED
  BY <1>4, <1>5

\* What a sequence is without element i.
LEMMA RemoveAtIs ==
  ASSUME NEW S, NEW s \in Seq(S), NEW i \in 1 .. Len(s)
  PROVE  /\ RemoveAt(s, i) \in Seq(S) /\ Len(RemoveAt(s, i)) = Len(s) - 1
         /\ \A j \in 1 .. Len(s) - 1 : RemoveAt(s, i)[j] = IF j < i THEN s[j] ELSE s[j + 1]
<1> DEFINE a == SubSeq(s, 1, i - 1)
           b == SubSeq(s, i + 1, Len(s))
           n == Len(s)
<1>1. n \in Nat /\ i \in Nat /\ i >= 1 /\ i <= n /\ \A j \in 1 .. n : s[j] \in S
  BY LenProperties, ElementOfSeq
<1>2. a \in Seq(S) /\ Len(a) = i - 1 /\ \A j \in 1 .. i - 1 : a[j] = s[j]
  <2>1. \A j \in 1 .. i - 1 : s[j] \in S
    BY <1>1
  <2>2. i - 1 \in Int /\ (1 <= i - 1 \/ i - 1 = 0)
    BY <1>1
  <2>3. QED
    BY <2>1, <2>2, SubSeqProperties
<1>3. b \in Seq(S) /\ Len(b) = n - i /\ \A j \in 1 .. n - i : b[j] = s[i + j]
  <2>1. PICK m \in Int : m = i + 1
    BY <1>1
  <2>2. \A j \in m .. n : s[j] \in S
    BY <1>1, <2>1
  <2>3. n \in Int
    BY <1>1
  <2>4. /\ SubSeq(s, m, n) \in Seq(S) /\ Len(SubSeq(s, m, n)) = IF m <= n THEN n - m + 1 ELSE 0
        /\ \A j \in 1 .. n - m + 1 : SubSeq(s, m, n)[j] = s[m + j - 1]
    BY <2>2, <2>3, SubSeqProperties
  <2>5. /\ b \in Seq(S) /\ Len(b) = IF m <= n THEN n - m + 1 ELSE 0
        /\ \A j \in 1 .. n - m + 1 : b[j] = s[m + j - 1]
    BY <2>1, <2>4
  <2> HIDE DEF b
  <2>6. n - m + 1 = n - i /\ (m <= n \/ n - i = 0) /\ \A j \in 1 .. n - i : m + j - 1 = i + j
    BY <1>1, <2>1
  <2>7. QED
    BY <1>1, <2>5, <2>6
<1> HIDE DEF a, b
<1> DEFINE r == a \o b
<1>4. /\ r \in Seq(S) /\ Len(r) = n - 1
      /\ \A j \in 1 .. n - 1 : r[j] = IF j <= i - 1 THEN a[j] ELSE b[j - (i - 1)]
  BY <1>1, <1>2, <1>3, ConcatProperties
<1> HIDE DEF r
<1>5. \A j \in 1 .. n - 1 : r[j] = IF j < i THEN s[j] ELSE s[j + 1]
  <2>1. TAKE j \in 1 .. n - 1
  <2>2. ASSUME j < i
        PROVE  r[j] = s[j]
    <3>1. j \in 1 .. i - 1 /\ j <= i - 1
      BY <1>1, <2>2
    <3>2. r[j] = a[j] /\ a[j] = s[j]
      BY <1>2, <1>4, <3>1
    <3>3. QED
      BY <3>2
  <2>3. ASSUME ~ (j < i)
        PROVE  r[j] = s[j + 1]
    <3>1. j - (i - 1) \in 1 .. n - i /\ i + (j - (i - 1)) = j + 1
      BY <1>1, <2>3
    <3>2. QED
      BY <1>1, <1>3, <1>4, <2>3, <3>1
  <2>4. QED
    BY <2>2, <2>3
<1>6. RemoveAt(s, i) = r
  BY DEF RemoveAt, r, a, b
<1>7. QED
  BY <1>4, <1>5, <1>6

\* A sequence backwards.
LEMMA ReverseIs ==
  ASSUME NEW S, NEW s \in Seq(S)
  PROVE  /\ Reverse(s) \in Seq(S) /\ Len(Reverse(s)) = Len(s)
         /\ \A i \in 1 .. Len(s) : Reverse(s)[i] = s[Len(s) - i + 1]
<1>1. Len(s) \in Nat /\ \A i \in 1 .. Len(s) : s[i] \in S
  BY LenProperties, ElementOfSeq
<1>2. \A i \in 1 .. Len(s) : Len(s) - i + 1 \in 1 .. Len(s)
  BY <1>1
<1>3. Reverse(s) \in [1 .. Len(s) -> S] /\ \A i \in 1 .. Len(s) : Reverse(s)[i] = s[Len(s) - i + 1]
  BY <1>1, <1>2 DEF Reverse
<1>4. Reverse(s) \in Seq(S)
  BY <1>1, <1>3, SeqDef
<1>5. Len(Reverse(s)) = Len(s)
  BY <1>1, <1>3, <1>4, LenProperties
<1>6. QED
  BY <1>3, <1>4, <1>5

\* A walk, one node longer.
Longer(next, first, end) ==
  [t \in Seq(DOMAIN next) |->
     LET x == IF t = <<>> THEN first ELSE next[t[Len(t)]]
     IN IF x = end THEN t ELSE Append(t, x)]

\* The links lead from first along s to end.
Leads(next, first, end, s) ==
  /\ first = IF Len(s) = 0 THEN end ELSE s[1]
  /\ \A i \in 1 .. Len(s) : next[s[i]] = IF i = Len(s) THEN end ELSE s[i + 1]

\* Links that lead along a sequence are walked along it.
LEMMA WalkIs ==
  ASSUME NEW E, NEW s \in Seq(E), NEW n \in Nat, Len(s) <= n,
         NEW next, NEW first, NEW end, end \notin E, E \subseteq DOMAIN next,
         Leads(next, first, end, s)
  PROVE  Walk(next, first, end, n) = s
<1> DEFINE P(k) == SubSeq(s, 1, IF k <= Len(s) THEN k ELSE Len(s))
           g == [k \in 0 .. n |-> P(k)]
           Body(f) == [k \in 0 .. n |-> IF k = 0 THEN <<>> ELSE Longer(next, first, end)[f[k - 1]]]
           f == CHOOSE f : f = Body(f)
<1>1. Len(s) \in Nat /\ (\A i \in 1 .. Len(s) : s[i] \in E /\ s[i] # end)
  BY LenProperties, ElementOfSeq
<1>2. \A k \in 0 .. Len(s) :
        /\ P(k) \in Seq(E) /\ Len(P(k)) = k /\ \A i \in 1 .. k : P(k)[i] = s[i]
  <2>1. TAKE k \in 0 .. Len(s)
  <2>2. k \in Int /\ k <= Len(s) /\ \A i \in 1 .. k : s[i] \in E
    BY <1>1
  <2>3. /\ SubSeq(s, 1, k) \in Seq(E) /\ Len(SubSeq(s, 1, k)) = IF 1 <= k THEN k - 1 + 1 ELSE 0
        /\ \A i \in 1 .. k - 1 + 1 : SubSeq(s, 1, k)[i] = s[1 + i - 1]
    BY <2>2, SubSeqProperties
  <2>4. P(k) = SubSeq(s, 1, k)
    BY <2>2
  <2> HIDE DEF P
  <2>5. k - 1 + 1 = k /\ (1 <= k \/ k = 0) /\ \A i \in 1 .. k : 1 + i - 1 = i
    BY <2>2
  <2>6. QED
    BY <2>3, <2>4, <2>5
<1>3. \A k \in 0 .. n : P(k) = IF k <= Len(s) THEN P(k) ELSE P(Len(s))
  BY <1>1
<1>4. P(Len(s)) = s /\ P(n) = s
  BY <1>1, SubSeqFull
<1> HIDE DEF P
<1>5. \A k \in 0 .. n - 1 : Longer(next, first, end)[P(k)] = P(k + 1)
  <2>1. TAKE k \in 0 .. n - 1
  <2>2. ASSUME k < Len(s)
        PROVE  Longer(next, first, end)[P(k)] = P(k + 1)
    <3>1. k \in 0 .. Len(s) /\ k + 1 \in 0 .. Len(s) /\ k + 1 \in 1 .. Len(s)
      BY <1>1, <2>2
    <3>2. /\ P(k) \in Seq(E) /\ Len(P(k)) = k /\ \A i \in 1 .. k : P(k)[i] = s[i]
          /\ P(k + 1) \in Seq(E) /\ Len(P(k + 1)) = k + 1
          /\ \A i \in 1 .. k + 1 : P(k + 1)[i] = s[i]
      BY <1>2, <3>1
    <3>3. (IF P(k) = <<>> THEN first ELSE next[P(k)[Len(P(k))]]) = s[k + 1]
      <4>1. CASE k = 0
        BY <1>1, <2>2, <3>2, <4>1, EmptySeq DEF Leads
      <4>2. CASE k # 0
        <5>1. k \in 1 .. k /\ k \in 1 .. Len(s) /\ k # Len(s) /\ P(k) # <<>>
          BY <2>2, <3>1, <3>2, <4>2
        <5>2. QED
          BY <3>2, <5>1 DEF Leads
      <4>3. QED
        BY <4>1, <4>2
    <3>4. s[k + 1] \in E /\ s[k + 1] # end
      BY <1>1, <3>1
    <3>5. P(k) \in Seq(DOMAIN next)
      BY <3>2, SeqMonotonic
    <3>6. Longer(next, first, end)[P(k)] = Append(P(k), s[k + 1])
      BY <3>2, <3>3, <3>4, <3>5 DEF Longer
    <3>7. /\ Append(P(k), s[k + 1]) \in Seq(E) /\ Len(Append(P(k), s[k + 1])) = k + 1
          /\ \A i \in 1 .. k : Append(P(k), s[k + 1])[i] = s[i]
          /\ Append(P(k), s[k + 1])[k + 1] = s[k + 1]
      BY <3>2, <3>4, AppendProperties
    <3>8. \A i \in 1 .. k + 1 : i \in 1 .. k \/ i = k + 1
      BY <3>1
    <3>9. \A i \in 1 .. k + 1 : Append(P(k), s[k + 1])[i] = P(k + 1)[i]
      BY <3>2, <3>7, <3>8
    <3>10. Append(P(k), s[k + 1]) = P(k + 1)
      BY <3>2, <3>7, <3>9, SeqEqual
    <3>11. QED
      BY <3>6, <3>10
  <2>3. ASSUME ~ (k < Len(s))
        PROVE  Longer(next, first, end)[P(k)] = P(k + 1)
    <3>1. P(k) = s /\ P(k + 1) = s
      <4>1. k \in 0 .. n /\ k + 1 \in 0 .. n /\ (k = Len(s) \/ ~ (k <= Len(s))) /\ ~ (k + 1 <= Len(s))
        BY <1>1, <2>3
      <4>2. QED
        BY <1>3, <1>4, <4>1
    <3>2. (IF s = <<>> THEN first ELSE next[s[Len(s)]]) = end
      <4>1. CASE s = <<>>
        BY <4>1, EmptySeq DEF Leads
      <4>2. CASE s # <<>>
        <5>1. Len(s) \in 1 .. Len(s)
          BY <1>1, <4>2, EmptySeq
        <5>2. QED
          BY <4>2, <5>1 DEF Leads
      <4>3. QED
        BY <4>1, <4>2
    <3>3. s \in Seq(DOMAIN next)
      BY SeqMonotonic
    <3>4. QED
      BY <3>1, <3>2, <3>3 DEF Longer
  <2>4. QED
    BY <2>2, <2>3
<1>6. g[0] = <<>>
  <2>1. 0 \in 0 .. n /\ 0 \in 0 .. Len(s)
    BY <1>1
  <2>2. P(0) \in Seq(E) /\ Len(P(0)) = 0
    BY <1>2, <2>1
  <2>3. QED
    BY <2>1, <2>2, EmptySeq
<1>7. g = Body(g)
  <2>1. ASSUME NEW k \in 0 .. n, k # 0
        PROVE  g[k] = Longer(next, first, end)[g[k - 1]]
    <3>1. k - 1 \in 0 .. n - 1 /\ k - 1 \in 0 .. n /\ k - 1 + 1 = k
      BY <2>1
    <3>2. Longer(next, first, end)[P(k - 1)] = P(k)
      BY <1>5, <3>1
    <3>3. g[k] = P(k) /\ g[k - 1] = P(k - 1)
      BY <3>1
    <3>4. QED
      BY <3>2, <3>3
  <2> HIDE DEF g
  <2>2. \A k \in 0 .. n : g[k] = IF k = 0 THEN <<>> ELSE Longer(next, first, end)[g[k - 1]]
    BY <1>6, <2>1
  <2>3. g = [k \in 0 .. n |-> g[k]]
    BY DEF g
  <2>4. QED
    BY <2>2, <2>3
<1>8. f = Body(f)
  BY <1>7
<1>9. Walk(next, first, end, n) = f[n]
  BY DEF Walk, Longer
<1> HIDE DEF f, g
<1>10. \A k \in 0 .. n : f[k] = g[k]
  <2> DEFINE Same == {k \in 0 .. n : f[k] = g[k]}
  <2>1. \A k \in 0 .. n : f[k] = IF k = 0 THEN <<>> ELSE Longer(next, first, end)[f[k - 1]]
    BY <1>8
  <2>2. \A k \in 0 .. n : g[k] = IF k = 0 THEN <<>> ELSE Longer(next, first, end)[g[k - 1]]
    BY <1>7
  <2>3. 0 \in Same
    BY <2>1, <2>2
  <2>4. \A k \in 0 .. n - 1 : k \in Same => k + 1 \in Same
    <3>1. TAKE k \in 0 .. n - 1
    <3>2. k + 1 \in 0 .. n /\ k + 1 # 0 /\ k + 1 - 1 = k
      OBVIOUS
    <3>3. /\ f[k + 1] = Longer(next, first, end)[f[k]]
          /\ g[k + 1] = Longer(next, first, end)[g[k]]
      BY <2>1, <2>2, <3>2
    <3>4. QED
      BY <3>2, <3>3
  <2> HIDE DEF Same
  <2>5. \A k \in 0 .. n : k \in Same
    BY <2>3, <2>4, Induct
  <2>6. QED
    BY <2>5 DEF Same
<1>11. n \in 0 .. n /\ g[n] = P(n)
  BY DEF g
<1>12. QED
  BY <1>4, <1>9, <1>10, <1>11

-----------------------------------------------------------------------------
(* One list.                                                               *)

\* The nodes of a list differ from one another.
LEMMA NodesDiffer ==
  ASSUME EndsApart, NEW l \in Lists, NEW s \in Seq(Elements), IsInjective(s)
  PROVE  /\ Len(s) \in Nat /\ DOMAIN s = 1 .. Len(s)
         /\ \A i \in 1 .. Len(s) : s[i] \in Elements /\ NodeOf(l, s, i) = s[i]
         /\ NodeOf(l, s, 0) = HeadOf(l) /\ NodeOf(l, s, Len(s) + 1) = TailOf(l)
         /\ \A i \in 0 .. Len(s) + 1 : NodeOf(l, s, i) \in Nodes /\ NodeOf(l, s, i) # None
         /\ \A i, j \in 0 .. Len(s) + 1 : i # j => NodeOf(l, s, i) # NodeOf(l, s, j)
<1>1. Len(s) \in Nat /\ DOMAIN s = 1 .. Len(s) /\ \A i \in 1 .. Len(s) : s[i] \in Elements
  BY LenProperties, ElementOfSeq
<1>2. \A i \in 1 .. Len(s) : i # 0 /\ i # Len(s) + 1
  BY <1>1
<1>3. \A i \in 1 .. Len(s) : NodeOf(l, s, i) = s[i]
  BY <1>2 DEF NodeOf
<1>4. 0 # Len(s) + 1 /\ NodeOf(l, s, 0) = HeadOf(l) /\ NodeOf(l, s, Len(s) + 1) = TailOf(l)
  BY <1>1 DEF NodeOf
<1>5. \A i \in 0 .. Len(s) + 1 : i = 0 \/ i = Len(s) + 1 \/ i \in 1 .. Len(s)
  BY <1>1
<1>6. HeadOf(l) # TailOf(l) /\ HeadOf(l) # None /\ TailOf(l) # None
      /\ HeadOf(l) \notin Elements /\ TailOf(l) \notin Elements
      /\ HeadOf(l) \in Nodes /\ TailOf(l) \in Nodes
  BY DEF EndsApart, HeadOf, TailOf, Nodes, Ends
<1>7. \A i \in 0 .. Len(s) + 1 : NodeOf(l, s, i) \in Nodes /\ NodeOf(l, s, i) # None
  BY <1>1, <1>3, <1>4, <1>5, <1>6 DEF EndsApart, Nodes
<1>8. \A i, j \in 1 .. Len(s) : i # j => s[i] # s[j]
  BY <1>1 DEF IsInjective
<1>9. ASSUME NEW i \in 0 .. Len(s) + 1, NEW j \in 0 .. Len(s) + 1, i # j
      PROVE  NodeOf(l, s, i) # NodeOf(l, s, j)
  BY <1>1, <1>3, <1>4, <1>5, <1>6, <1>8, <1>9
<1>10. QED
  BY <1>1, <1>3, <1>4, <1>7, <1>9

\* A linked list is the same forwards and backwards.
LEMMA LinkedIs ==
  ASSUME EndsApart, NEW v, LinkTypes(v), NEW l \in Lists, NEW s, Linked(v, l, s)
  PROVE  Forward(v, l) = s /\ Backward(v, l) = Reverse(s)
<1>1. s \in Seq(Elements) /\ IsInjective(s)
  BY DEF Linked
<1>2. Len(s) \in Nat /\ Cardinality(Elements) \in Nat /\ Len(s) <= Cardinality(Elements)
  BY <1>1, InjectiveFits DEF EndsApart
<1>3. HeadOf(l) \notin Elements /\ TailOf(l) \notin Elements /\ DOMAIN v = Nodes /\ Elements \subseteq Nodes
  BY DEF EndsApart, LinkTypes, Nodes
<1>4. /\ \A i \in 1 .. Len(s) : s[i] \in Elements /\ NodeOf(l, s, i) = s[i]
      /\ NodeOf(l, s, 0) = HeadOf(l) /\ NodeOf(l, s, Len(s) + 1) = TailOf(l)
  BY <1>1, NodesDiffer
<1>5. \A i \in 0 .. Len(s) : /\ v[NodeOf(l, s, i)].next = NodeOf(l, s, i + 1)
                             /\ v[NodeOf(l, s, i + 1)].prev = NodeOf(l, s, i)
  BY DEF Linked
<1>6. Forward(v, l) = s
  <2> DEFINE next == [n \in DOMAIN v |-> v[n].next]
             first == v[HeadOf(l)].next
  <2>1. first = IF Len(s) = 0 THEN TailOf(l) ELSE s[1]
    <3>1. 0 \in 0 .. Len(s) /\ 0 + 1 = 1 /\ (Len(s) = 0 \/ 1 \in 1 .. Len(s))
      BY <1>2
    <3>2. first = NodeOf(l, s, 1)
      BY <1>4, <1>5, <3>1
    <3>3. Len(s) = 0 => Len(s) + 1 = 1
      OBVIOUS
    <3>4. QED
      BY <1>4, <3>1, <3>2, <3>3
  <2>2. \A i \in 1 .. Len(s) : next[s[i]] = IF i = Len(s) THEN TailOf(l) ELSE s[i + 1]
    <3>1. TAKE i \in 1 .. Len(s)
    <3>2. i \in 0 .. Len(s) /\ (i = Len(s) \/ i + 1 \in 1 .. Len(s))
      BY <1>2
    <3>3. next[s[i]] = v[s[i]].next
      BY <1>3, <1>4
    <3>4. v[s[i]].next = NodeOf(l, s, i + 1)
      BY <1>4, <1>5, <3>2
    <3>5. QED
      BY <1>4, <3>2, <3>3, <3>4
  <2>3. Forward(v, l) = Walk(next, first, TailOf(l), Cardinality(Elements))
    BY DEF Forward
  <2>4. Elements \subseteq DOMAIN next
    BY <1>3
  <2> HIDE DEF next, first
  <2>5. Leads(next, first, TailOf(l), s)
    BY <2>1, <2>2 DEF Leads
  <2>6. QED
    BY <1>1, <1>2, <1>3, <2>3, <2>4, <2>5, WalkIs
<1>7. Backward(v, l) = Reverse(s)
  <2> DEFINE next == [n \in DOMAIN v |-> v[n].prev]
             first == v[TailOf(l)].prev
             r == Reverse(s)
  <2>1. r \in Seq(Elements) /\ Len(r) = Len(s) /\ \A i \in 1 .. Len(s) : r[i] = s[Len(s) - i + 1]
    BY <1>1, ReverseIs
  <2> HIDE DEF r
  <2>2. first = IF Len(r) = 0 THEN HeadOf(l) ELSE r[1]
    <3>1. Len(s) \in 0 .. Len(s) /\ (Len(s) = 0 \/ (1 \in 1 .. Len(s) /\ Len(s) - 1 + 1 = Len(s)))
      BY <1>2
    <3>2. first = NodeOf(l, s, Len(s))
      BY <1>4, <1>5, <3>1
    <3>3. CASE Len(s) = 0
      BY <1>4, <2>1, <3>2, <3>3
    <3>4. CASE Len(s) # 0
      <4>1. Len(s) \in 1 .. Len(s)
        BY <1>2, <3>4
      <4>2. QED
        BY <1>4, <2>1, <3>1, <3>2, <3>4, <4>1
    <3>5. QED
      BY <3>3, <3>4
  <2>3. \A i \in 1 .. Len(r) : next[r[i]] = IF i = Len(r) THEN HeadOf(l) ELSE r[i + 1]
    <3>1. TAKE i \in 1 .. Len(r)
    <3>2. PICK j \in 1 .. Len(s) : j = Len(s) - i + 1
      BY <1>2, <2>1
    <3>3. j - 1 \in 0 .. Len(s) /\ j - 1 + 1 = j
      BY <1>2
    <3>4. r[i] = s[j] /\ next[s[j]] = v[s[j]].prev
      BY <1>3, <1>4, <2>1, <3>2
    <3>5. v[s[j]].prev = NodeOf(l, s, j - 1)
      BY <1>4, <1>5, <3>3
    <3>6. CASE i = Len(r)
      <4>1. j - 1 = 0
        BY <1>2, <2>1, <3>2, <3>6
      <4>2. QED
        BY <1>4, <3>4, <3>5, <3>6, <4>1
    <3>7. CASE i # Len(r)
      <4>1. j - 1 \in 1 .. Len(s) /\ i + 1 \in 1 .. Len(s) /\ j - 1 = Len(s) - (i + 1) + 1
        BY <1>2, <2>1, <3>2, <3>7
      <4>2. r[i + 1] = s[j - 1] /\ NodeOf(l, s, j - 1) = s[j - 1]
        BY <1>4, <2>1, <4>1
      <4>3. QED
        BY <3>4, <3>5, <3>7, <4>2
    <3>8. QED
      BY <3>6, <3>7
  <2>4. Backward(v, l) = Walk(next, first, HeadOf(l), Cardinality(Elements))
    BY DEF Backward
  <2>5. Elements \subseteq DOMAIN next
    BY <1>3
  <2> HIDE DEF next, first
  <2>6. Len(r) <= Cardinality(Elements)
    BY <1>2, <2>1
  <2>7. Walk(next, first, HeadOf(l), Cardinality(Elements)) = r
    <3>1. r \in Seq(Elements) /\ Cardinality(Elements) \in Nat /\ HeadOf(l) \notin Elements
      BY <1>2, <1>3, <2>1
    <3>2. Leads(next, first, HeadOf(l), r)
      BY <2>2, <2>3 DEF Leads
    <3>3. QED
      BY <2>5, <2>6, <3>1, <3>2, WalkIs
  <2>8. QED
    BY <2>4, <2>7 DEF r
<1>8. QED
  BY <1>6, <1>7

\* A list is as it was if its nodes are.
LEMMA KeptLinked ==
  ASSUME EndsApart, NEW v, NEW w, NEW l \in Lists, NEW s, Linked(v, l, s),
         w[HeadOf(l)] = v[HeadOf(l)], w[TailOf(l)] = v[TailOf(l)],
         \A i \in 1 .. Len(s) : w[s[i]] = v[s[i]]
  PROVE  Linked(w, l, s)
<1>1. s \in Seq(Elements) /\ IsInjective(s)
  BY DEF Linked
<1>2. Len(s) \in Nat /\ \A i \in 1 .. Len(s) : NodeOf(l, s, i) = s[i]
  BY <1>1, NodesDiffer
<1>3. NodeOf(l, s, 0) = HeadOf(l) /\ NodeOf(l, s, Len(s) + 1) = TailOf(l)
  BY <1>1, NodesDiffer
<1>4. \A i \in 0 .. Len(s) + 1 : i = 0 \/ i = Len(s) + 1 \/ i \in 1 .. Len(s)
  BY <1>2
<1>5. \A i \in 0 .. Len(s) + 1 : w[NodeOf(l, s, i)] = v[NodeOf(l, s, i)]
  BY <1>2, <1>3, <1>4
<1>6. \A i \in 0 .. Len(s) : i \in 0 .. Len(s) + 1 /\ i + 1 \in 0 .. Len(s) + 1
  BY <1>2
<1>7. \A i \in 0 .. Len(s) : /\ w[NodeOf(l, s, i)].next = NodeOf(l, s, i + 1)
                             /\ w[NodeOf(l, s, i + 1)].prev = NodeOf(l, s, i)
  BY <1>5, <1>6 DEF Linked
<1>8. w[HeadOf(l)].prev = None /\ w[TailOf(l)].next = None
  BY DEF Linked
<1>9. QED
  BY <1>1, <1>7, <1>8 DEF Linked

\* w has x between p and n, which were next to one another in v.
Between(v, w, x, p, n) ==
  /\ w[x].prev = p /\ w[x].next = n
  /\ w[p].next = x /\ w[p].prev = v[p].prev /\ w[n].prev = x /\ w[n].next = v[n].next
  /\ \A m \in Nodes \ {x, p, n} : w[m] = v[m]

\* w has n behind p, v not.
Joined(v, w, p, n) ==
  /\ w[p].next = n /\ w[p].prev = v[p].prev /\ w[n].prev = p /\ w[n].next = v[n].next
  /\ \A m \in Nodes \ {p, n} : w[m] = v[m]

\* What the writes are.
LEMMA WritesAre ==
  ASSUME EndsApart, NEW v, LinkTypes(v)
  PROVE  /\ \A x, p, n \in Nodes : x # p /\ x # n /\ p # n /\ v[n].prev = p =>
              LinkTypes(LinkBefore(v, x, n)) /\ Between(v, LinkBefore(v, x, n), x, p, n)
         /\ \A x, p, n \in Nodes : x # p /\ x # n /\ p # n /\ v[p].next = n =>
              LinkTypes(LinkAfter(v, x, p)) /\ Between(v, LinkAfter(v, x, p), x, p, n)
         /\ \A x, p, n \in Nodes : x # p /\ x # n /\ p # n /\ v[x].prev = p /\ v[x].next = n =>
              LinkTypes(Unlink(v, x)) /\ Joined(v, Unlink(v, x), p, n)
<1> DEFINE Two == [prev : Nodes \cup {None}, next : Nodes \cup {None}]
<1>1. v \in [Nodes -> Two]
  BY DEF LinkTypes
<1>2. ASSUME NEW x \in Nodes, NEW p \in Nodes, NEW n \in Nodes, x # p, x # n, p # n, v[n].prev = p
      PROVE  LinkTypes(LinkBefore(v, x, n)) /\ Between(v, LinkBefore(v, x, n), x, p, n)
  <2> DEFINE w == LinkBefore(v, x, n)
  <2>1. w = [v EXCEPT ![x] = [prev |-> p, next |-> n], ![p].next = x, ![n].prev = x]
    BY <1>2 DEF LinkBefore
  <2>2. w \in [Nodes -> Two]
    BY <1>1, <1>2, <2>1
  <2>3. w[x] = [prev |-> p, next |-> n]
    BY <1>1, <1>2, <2>1
  <2>4. w[p] = [v[p] EXCEPT !.next = x] /\ w[n] = [v[n] EXCEPT !.prev = x]
    BY <1>1, <1>2, <2>1
  <2>5. \A m \in Nodes \ {x, p, n} : w[m] = v[m]
    BY <1>1, <1>2, <2>1
  <2>6. v[p] \in Two /\ v[n] \in Two
    BY <1>1, <1>2
  <2> HIDE DEF w
  <2>7. Between(v, w, x, p, n)
    BY <2>3, <2>4, <2>5, <2>6 DEF Between
  <2>8. QED
    BY <2>2, <2>7 DEF w, LinkTypes
<1>3. ASSUME NEW x \in Nodes, NEW p \in Nodes, NEW n \in Nodes, x # p, x # n, p # n, v[p].next = n
      PROVE  LinkTypes(LinkAfter(v, x, p)) /\ Between(v, LinkAfter(v, x, p), x, p, n)
  <2> DEFINE w == LinkAfter(v, x, p)
  <2>1. w = [v EXCEPT ![x] = [prev |-> p, next |-> n], ![n].prev = x, ![p].next = x]
    BY <1>3 DEF LinkAfter
  <2>2. w \in [Nodes -> Two]
    BY <1>1, <1>3, <2>1
  <2>3. w[x] = [prev |-> p, next |-> n]
    BY <1>1, <1>3, <2>1
  <2>4. w[p] = [v[p] EXCEPT !.next = x] /\ w[n] = [v[n] EXCEPT !.prev = x]
    BY <1>1, <1>3, <2>1
  <2>5. \A m \in Nodes \ {x, p, n} : w[m] = v[m]
    BY <1>1, <1>3, <2>1
  <2>6. v[p] \in Two /\ v[n] \in Two
    BY <1>1, <1>3
  <2> HIDE DEF w
  <2>7. Between(v, w, x, p, n)
    BY <2>3, <2>4, <2>5, <2>6 DEF Between
  <2>8. QED
    BY <2>2, <2>7 DEF w, LinkTypes
<1>4. ASSUME NEW x \in Nodes, NEW p \in Nodes, NEW n \in Nodes, x # p, x # n, p # n,
             v[x].prev = p, v[x].next = n
      PROVE  LinkTypes(Unlink(v, x)) /\ Joined(v, Unlink(v, x), p, n)
  <2> DEFINE w == Unlink(v, x)
  <2>1. w = [v EXCEPT ![n].prev = p, ![p].next = n]
    BY <1>4 DEF Unlink
  <2>2. w \in [Nodes -> Two]
    BY <1>1, <1>4, <2>1
  <2>3. w[p] = [v[p] EXCEPT !.next = n] /\ w[n] = [v[n] EXCEPT !.prev = p]
    BY <1>1, <1>4, <2>1
  <2>4. \A m \in Nodes \ {p, n} : w[m] = v[m]
    BY <1>1, <1>4, <2>1
  <2>5. v[p] \in Two /\ v[n] \in Two
    BY <1>1, <1>4
  <2> HIDE DEF w
  <2>6. Joined(v, w, p, n)
    BY <2>3, <2>4, <2>5 DEF Joined
  <2>7. QED
    BY <2>2, <2>6 DEF w, LinkTypes
<1>5. QED
  BY <1>2, <1>3, <1>4

\* A list with x put between its nodes k and k + 1.
LEMMA PutLinked ==
  ASSUME EndsApart, NEW v, NEW l \in Lists, NEW s, Linked(v, l, s),
         NEW x \in Elements, \A i \in 1 .. Len(s) : s[i] # x, NEW k \in 0 .. Len(s),
         NEW w, Between(v, w, x, NodeOf(l, s, k), NodeOf(l, s, k + 1))
  PROVE  Linked(w, l, InsertAt(s, k + 1, x))
<1> DEFINE t == InsertAt(s, k + 1, x)
           n == Len(s)
           Old(i) == NodeOf(l, s, i)
           New(i) == NodeOf(l, t, i)
<1>1. s \in Seq(Elements) /\ IsInjective(s)
  BY DEF Linked
<1>2. /\ n \in Nat /\ DOMAIN s = 1 .. n /\ \A i \in 1 .. n : s[i] \in Elements /\ Old(i) = s[i]
      /\ Old(0) = HeadOf(l) /\ Old(n + 1) = TailOf(l)
      /\ \A i \in 0 .. n + 1 : Old(i) \in Nodes
      /\ \A i, j \in 0 .. n + 1 : i # j => Old(i) # Old(j)
  BY <1>1, NodesDiffer
<1>3. k + 1 \in 1 .. n + 1
  BY <1>2
<1>4. /\ t \in Seq(Elements) /\ Len(t) = n + 1
      /\ \A j \in 1 .. n + 1 : t[j] = IF j < k + 1 THEN s[j] ELSE IF j = k + 1 THEN x ELSE s[j - 1]
  BY <1>1, <1>3, InsertAtIs
<1> HIDE DEF t
<1>5. DOMAIN t = 1 .. n + 1
  BY <1>4, LenProperties
<1>6. \A i, j \in 1 .. n : i # j => s[i] # s[j]
  BY <1>1, <1>2 DEF IsInjective
<1>7. IsInjective(t)
  <2>1. SUFFICES ASSUME NEW i \in 1 .. n + 1, NEW j \in 1 .. n + 1, i < j
                 PROVE  t[i] # t[j]
    <3>1. \A i, j \in 1 .. n + 1 : i # j => i < j \/ j < i
      BY <1>2
    <3>2. \A i, j \in 1 .. n + 1 : i # j => t[i] # t[j]
      BY <2>1, <3>1
    <3>3. QED
      BY <1>5, <3>2 DEF IsInjective
  <2>2. CASE j < k + 1
    <3>1. i \in 1 .. n /\ j \in 1 .. n /\ i < k + 1
      BY <1>2, <2>1, <2>2
    <3>2. QED
      BY <1>4, <1>6, <2>1, <2>2, <3>1
  <2>3. CASE j = k + 1
    <3>1. i \in 1 .. n /\ i < k + 1
      BY <1>2, <2>1, <2>3
    <3>2. t[i] = s[i] /\ t[j] = x
      BY <1>2, <1>4, <2>3, <3>1
    <3>3. QED
      BY <3>1, <3>2
  <2>4. CASE j > k + 1
    <3>1. j - 1 \in 1 .. n /\ t[j] = s[j - 1]
      BY <1>2, <1>4, <2>1, <2>4
    <3>2. CASE i < k + 1
      BY <1>2, <1>4, <1>6, <2>4, <3>1, <3>2
    <3>3. CASE i = k + 1
      BY <1>2, <1>4, <2>4, <3>1, <3>3
    <3>4. CASE i > k + 1
      <4>1. i - 1 \in 1 .. n /\ t[i] = s[i - 1] /\ i - 1 # j - 1
        BY <1>2, <1>4, <2>1, <3>4
      <4>2. QED
        BY <1>6, <3>1, <4>1
    <3>5. QED
      BY <3>2, <3>3, <3>4
  <2>5. QED
    BY <2>2, <2>3, <2>4
<1>8. /\ New(0) = HeadOf(l) /\ New(n + 2) = TailOf(l)
      /\ \A i \in 1 .. n + 1 : New(i) = t[i]
  <2>1. Len(t) + 1 = n + 2 /\ n + 2 # 0 /\ \A i \in 1 .. n + 1 : i # 0 /\ i # n + 2
    BY <1>2, <1>4
  <2>2. QED
    BY <2>1 DEF NodeOf
<1>9. New(k + 1) = x
  BY <1>2, <1>3, <1>4, <1>8
<1>10. \A i \in 0 .. k : New(i) = Old(i)
  <2>1. TAKE i \in 0 .. k
  <2>2. i = 0 \/ (i \in 1 .. n /\ i \in 1 .. n + 1 /\ i < k + 1)
    BY <1>2
  <2>3. QED
    BY <1>2, <1>4, <1>8, <2>2
<1>11. \A i \in k + 1 .. n + 1 : New(i + 1) = Old(i)
  <2>1. TAKE i \in k + 1 .. n + 1
  <2>2. CASE i = n + 1
    <3>1. i + 1 = n + 2
      BY <1>2, <2>2
    <3>2. QED
      BY <1>2, <1>8, <2>2, <3>1
  <2>3. CASE i # n + 1
    <3>1. i \in 1 .. n /\ i + 1 \in 1 .. n + 1 /\ ~ (i + 1 < k + 1) /\ i + 1 # k + 1 /\ i + 1 - 1 = i
      BY <1>2, <2>3
    <3>2. QED
      BY <1>2, <1>4, <1>8, <3>1
  <2>4. QED
    BY <2>2, <2>3
<1>12. /\ w[x].prev = Old(k) /\ w[x].next = Old(k + 1)
       /\ w[Old(k)].next = x /\ w[Old(k)].prev = v[Old(k)].prev
       /\ w[Old(k + 1)].prev = x /\ w[Old(k + 1)].next = v[Old(k + 1)].next
       /\ \A m \in Nodes \ {x, Old(k), Old(k + 1)} : w[m] = v[m]
  BY DEF Between
<1>13. /\ \A i \in 0 .. n : v[Old(i)].next = Old(i + 1) /\ v[Old(i + 1)].prev = Old(i)
       /\ v[Old(0)].prev = None /\ v[Old(n + 1)].next = None
  BY <1>2 DEF Linked
<1>14. \A i \in 0 .. n + 1 : Old(i) # x
  <2>1. \A i \in 0 .. n + 1 : i = 0 \/ i = n + 1 \/ i \in 1 .. n
    BY <1>2
  <2>2. HeadOf(l) # x /\ TailOf(l) # x
    BY DEF EndsApart
  <2>3. QED
    BY <1>2, <2>1, <2>2
<1> HIDE DEF Old, New
<1>15. \A i \in 0 .. n + 1 : /\ i # k => w[Old(i)].next = v[Old(i)].next
                             /\ i # k + 1 => w[Old(i)].prev = v[Old(i)].prev
  <2>1. TAKE i \in 0 .. n + 1
  <2>2. k \in 0 .. n + 1 /\ k + 1 \in 0 .. n + 1
    BY <1>2
  <2>3. CASE i = k
    BY <1>12, <2>3
  <2>4. CASE i = k + 1
    BY <1>12, <2>4
  <2>5. CASE i # k /\ i # k + 1
    BY <1>2, <1>12, <1>14, <2>2, <2>5
  <2>6. QED
    BY <2>3, <2>4, <2>5
<1>16. ASSUME NEW i \in 0 .. n + 1
       PROVE  w[New(i)].next = New(i + 1) /\ w[New(i + 1)].prev = New(i)
  <2>1. CASE i < k
    <3>1. /\ i \in 0 .. k /\ i + 1 \in 0 .. k /\ i \in 0 .. n /\ i # k /\ i + 1 # k + 1
          /\ i + 1 \in 0 .. n + 1
      BY <1>2, <2>1
    <3>2. QED
      BY <1>10, <1>13, <1>15, <3>1
  <2>2. CASE i = k
    <3>1. k \in 0 .. k
      OBVIOUS
    <3>2. QED
      BY <1>9, <1>10, <1>12, <2>2, <3>1
  <2>3. CASE i = k + 1
    <3>1. k + 1 \in k + 1 .. n + 1
      BY <1>2
    <3>2. QED
      BY <1>9, <1>11, <1>12, <2>3, <3>1
  <2>4. CASE i > k + 1
    <3>1. PICK j \in k + 1 .. n : i = j + 1
      <4>1. i - 1 \in k + 1 .. n /\ i = i - 1 + 1
        BY <1>2, <2>4
      <4>2. QED
        BY <4>1
    <3>2. /\ j \in k + 1 .. n + 1 /\ j + 1 \in k + 1 .. n + 1 /\ j \in 0 .. n /\ j # k
          /\ j \in 0 .. n + 1 /\ j + 1 \in 0 .. n + 1 /\ j + 1 # k + 1
      BY <1>2
    <3>3. New(j + 1) = Old(j) /\ New(j + 1 + 1) = Old(j + 1)
      BY <1>11, <3>2
    <3>4. w[Old(j)].next = Old(j + 1) /\ w[Old(j + 1)].prev = Old(j)
      BY <1>13, <1>15, <3>2
    <3>5. QED
      BY <3>1, <3>3, <3>4
  <2>5. QED
    BY <2>1, <2>2, <2>3, <2>4
<1>17. w[HeadOf(l)].prev = None /\ w[TailOf(l)].next = None
  <2>1. 0 \in 0 .. n + 1 /\ 0 # k + 1 /\ n + 1 \in 0 .. n + 1 /\ n + 1 # k
    BY <1>2
  <2>2. QED
    BY <1>2, <1>13, <1>15, <2>1
<1>18. QED
  BY <1>4, <1>7, <1>16, <1>17 DEF Linked, t, New

\* A list without its node k.
LEMMA CutLinked ==
  ASSUME EndsApart, NEW v, NEW l \in Lists, NEW s, Linked(v, l, s), NEW k \in 1 .. Len(s),
         NEW w, Joined(v, w, NodeOf(l, s, k - 1), NodeOf(l, s, k + 1))
  PROVE  Linked(w, l, RemoveAt(s, k))
<1> DEFINE t == RemoveAt(s, k)
           n == Len(s)
           Old(i) == NodeOf(l, s, i)
           New(i) == NodeOf(l, t, i)
<1>1. s \in Seq(Elements) /\ IsInjective(s)
  BY DEF Linked
<1>2. /\ n \in Nat /\ DOMAIN s = 1 .. n /\ \A i \in 1 .. n : s[i] \in Elements /\ Old(i) = s[i]
      /\ Old(0) = HeadOf(l) /\ Old(n + 1) = TailOf(l)
      /\ \A i \in 0 .. n + 1 : Old(i) \in Nodes
      /\ \A i, j \in 0 .. n + 1 : i # j => Old(i) # Old(j)
  BY <1>1, NodesDiffer
<1>3. /\ t \in Seq(Elements) /\ Len(t) = n - 1
      /\ \A j \in 1 .. n - 1 : t[j] = IF j < k THEN s[j] ELSE s[j + 1]
  BY <1>1, RemoveAtIs
<1> HIDE DEF t
<1>4. n \in Nat /\ k \in Nat /\ 1 <= k /\ k <= n
  BY <1>2
<1>5. DOMAIN t = 1 .. n - 1
  BY <1>3, LenProperties
<1>6. \A i, j \in 1 .. n : i # j => s[i] # s[j]
  BY <1>1, <1>2 DEF IsInjective
<1>7. IsInjective(t)
  <2>1. ASSUME NEW i \in 1 .. n - 1, NEW j \in 1 .. n - 1, i # j
        PROVE  t[i] # t[j]
    <3>1. PICK a \in 1 .. n : t[i] = s[a] /\ a = IF i < k THEN i ELSE i + 1
      <4>1. i \in 1 .. n /\ i + 1 \in 1 .. n
        BY <1>2
      <4>2. QED
        BY <1>3, <4>1
    <3>2. PICK b \in 1 .. n : t[j] = s[b] /\ b = IF j < k THEN j ELSE j + 1
      <4>1. j \in 1 .. n /\ j + 1 \in 1 .. n
        BY <1>2
      <4>2. QED
        BY <1>3, <4>1
    <3>3. a # b
      BY <1>2, <2>1, <3>1, <3>2
    <3>4. QED
      BY <1>6, <3>1, <3>2, <3>3
  <2>2. QED
    BY <1>5, <2>1 DEF IsInjective
<1>8. /\ New(0) = HeadOf(l) /\ New(n) = TailOf(l)
      /\ \A i \in 1 .. n - 1 : New(i) = t[i]
  <2>1. Len(t) + 1 = n /\ n # 0 /\ \A i \in 1 .. n - 1 : i # 0 /\ i # n
    BY <1>3, <1>4
  <2>2. QED
    BY <2>1 DEF NodeOf
<1>9. \A i \in 0 .. k - 1 : New(i) = Old(i)
  <2>1. TAKE i \in 0 .. k - 1
  <2>2. i = 0 \/ (i \in 1 .. n /\ i \in 1 .. n - 1 /\ i < k)
    BY <1>2
  <2>3. QED
    BY <1>2, <1>3, <1>8, <2>2
<1>10. \A i \in k .. n : New(i) = Old(i + 1)
  <2>1. TAKE i \in k .. n
  <2>2. CASE i = n
    BY <1>2, <1>8, <2>2
  <2>3. CASE i # n
    <3>1. i \in 1 .. n - 1 /\ i + 1 \in 1 .. n /\ ~ (i < k)
      BY <1>4, <2>3
    <3>2. QED
      BY <1>2, <1>3, <1>8, <3>1
  <2>4. QED
    BY <2>2, <2>3
<1>11. /\ w[Old(k - 1)].next = Old(k + 1) /\ w[Old(k - 1)].prev = v[Old(k - 1)].prev
       /\ w[Old(k + 1)].prev = Old(k - 1) /\ w[Old(k + 1)].next = v[Old(k + 1)].next
       /\ \A m \in Nodes \ {Old(k - 1), Old(k + 1)} : w[m] = v[m]
  BY DEF Joined
<1>12. /\ \A i \in 0 .. n : v[Old(i)].next = Old(i + 1) /\ v[Old(i + 1)].prev = Old(i)
       /\ v[Old(0)].prev = None /\ v[Old(n + 1)].next = None
  BY <1>2 DEF Linked
<1> HIDE DEF Old, New
<1>13. \A i \in 0 .. n + 1 : /\ i # k - 1 => w[Old(i)].next = v[Old(i)].next
                             /\ i # k + 1 => w[Old(i)].prev = v[Old(i)].prev
  <2>1. TAKE i \in 0 .. n + 1
  <2>2. k - 1 \in 0 .. n + 1 /\ k + 1 \in 0 .. n + 1
    BY <1>2
  <2>3. CASE i = k - 1
    BY <1>11, <2>3
  <2>4. CASE i = k + 1
    BY <1>11, <2>4
  <2>5. CASE i # k - 1 /\ i # k + 1
    BY <1>2, <1>11, <2>2, <2>5
  <2>6. QED
    BY <2>3, <2>4, <2>5
<1>14. ASSUME NEW i \in 0 .. n - 1
       PROVE  w[New(i)].next = New(i + 1) /\ w[New(i + 1)].prev = New(i)
  <2>1. CASE i < k - 1
    <3>1. /\ i \in 0 .. k - 1 /\ i + 1 \in 0 .. k - 1 /\ i \in 0 .. n /\ i # k - 1 /\ i + 1 # k + 1
          /\ i \in 0 .. n + 1 /\ i + 1 \in 0 .. n + 1
      BY <1>2, <2>1
    <3>2. QED
      BY <1>9, <1>12, <1>13, <3>1
  <2>2. CASE i = k - 1
    <3>1. k - 1 \in 0 .. k - 1 /\ k \in k .. n /\ i + 1 = k
      BY <1>2, <2>2
    <3>2. QED
      BY <1>9, <1>10, <1>11, <2>2, <3>1
  <2>3. CASE i > k - 1
    <3>1. /\ i \in k .. n /\ i + 1 \in k .. n /\ i + 1 \in 0 .. n /\ i + 1 # k - 1
          /\ i + 1 \in 0 .. n + 1 /\ i + 1 + 1 \in 0 .. n + 1 /\ i + 1 + 1 # k + 1
      BY <1>2, <2>3
    <3>2. New(i) = Old(i + 1) /\ New(i + 1) = Old(i + 1 + 1)
      BY <1>10, <3>1
    <3>3. w[Old(i + 1)].next = Old(i + 1 + 1) /\ w[Old(i + 1 + 1)].prev = Old(i + 1)
      BY <1>12, <1>13, <3>1
    <3>4. QED
      BY <3>2, <3>3
  <2>4. QED
    BY <1>2, <2>1, <2>2, <2>3
<1>15. w[HeadOf(l)].prev = None /\ w[TailOf(l)].next = None
  <2>1. 0 \in 0 .. n + 1 /\ 0 # k + 1 /\ n + 1 \in 0 .. n + 1 /\ n + 1 # k - 1
    BY <1>2
  <2>2. QED
    BY <1>2, <1>12, <1>13, <2>1
<1>16. QED
  BY <1>3, <1>7, <1>14, <1>15 DEF Linked, t, New

\* Writes to the nodes of one list and to X leave another as it was.
LEMMA OtherLinked ==
  ASSUME EndsApart, NEW v, NEW w, NEW l \in Lists, NEW r \in Lists, l # r,
         NEW s \in Seq(Elements), NEW t, Linked(v, r, t), ToSet(s) \cap ToSet(t) = {},
         NEW X \in SUBSET Elements, X \cap ToSet(t) = {},
         \A m \in Nodes \ (X \cup ToSet(s) \cup Ends(l)) : w[m] = v[m]
  PROVE  Linked(w, r, t)
<1>1. t \in Seq(Elements) /\ IsInjective(t)
  BY DEF Linked
<1>2. \A i \in 1 .. Len(t) : t[i] \in ToSet(t) /\ t[i] \in Elements
  BY <1>1, ElementOfSeq, LenProperties DEF ToSet
<1>3. ToSet(s) \subseteq Elements
  BY ElementOfSeq, LenProperties DEF ToSet
<1>4. /\ HeadOf(r) \in Nodes /\ TailOf(r) \in Nodes /\ Elements \subseteq Nodes
      /\ HeadOf(r) \notin Elements /\ TailOf(r) \notin Elements
      /\ HeadOf(r) \notin Ends(l) /\ TailOf(r) \notin Ends(l) /\ Ends(l) \cap Elements = {}
  BY DEF EndsApart, Nodes, Ends, HeadOf, TailOf
<1>5. w[HeadOf(r)] = v[HeadOf(r)] /\ w[TailOf(r)] = v[TailOf(r)]
  BY <1>3, <1>4
<1>6. \A i \in 1 .. Len(t) : w[t[i]] = v[t[i]]
  BY <1>2, <1>3, <1>4
<1>7. QED
  BY <1>5, <1>6, KeptLinked

-----------------------------------------------------------------------------
(* All the lists.                                                          *)

\* What is known of lists in order.
LEMMA OrderedIs ==
  ASSUME EndsApart, NEW S \in SUBSET Lists, NEW v, Ordered(v, S)
  PROVE  /\ LinkTypes(v)
         /\ \A l \in S :
              /\ Linked(v, l, Forward(v, l)) /\ Backward(v, l) = Reverse(Forward(v, l))
              /\ Forward(v, l) \in Seq(Elements) /\ IsInjective(Forward(v, l))
              /\ ToSet(Forward(v, l)) \subseteq Elements
         /\ \A l, r \in S : l # r => ToSet(Forward(v, l)) \cap ToSet(Forward(v, r)) = {}
<1>1. LinkTypes(v)
  BY DEF Ordered, Chained
<1>2. \A l \in S : Linked(v, l, Forward(v, l))
  BY DEF Ordered, Chained
<1>3. \A l \in S : Forward(v, l) \in Seq(Elements) /\ IsInjective(Forward(v, l))
  BY <1>2 DEF Linked
<1>4. \A l \in S : ToSet(Forward(v, l)) \subseteq Elements
  <2>1. TAKE l \in S
  <2>2. Forward(v, l) \in Seq(Elements)
    BY <1>3
  <2>3. QED
    BY <2>2, ElementOfSeq, LenProperties DEF ToSet
<1>5. \A l \in S : Backward(v, l) = Reverse(Forward(v, l))
  BY <1>1, <1>2, LinkedIs
<1>6. \A l, r \in S : l # r => ToSet(Forward(v, l)) \cap ToSet(Forward(v, r)) = {}
  BY DEF Ordered, Chained
<1>7. QED
  BY <1>1, <1>2, <1>3, <1>4, <1>5, <1>6

\* Lists that are linked as c says are in order.
LEMMA ChainedOrdered ==
  ASSUME EndsApart, NEW S \in SUBSET Lists, NEW v, NEW c, LinkTypes(v),
         \A l \in S : Linked(v, l, c[l]),
         \A l, r \in S : l # r => ToSet(c[l]) \cap ToSet(c[r]) = {}
  PROVE  Ordered(v, S) /\ \A l \in S : Forward(v, l) = c[l]
<1>1. \A l \in S : Forward(v, l) = c[l]
  BY LinkedIs
<1>2. QED
  BY <1>1 DEF Ordered, Chained

\* The ends of a list in order lead to its first and its last element.
LEMMA EndsLead ==
  ASSUME EndsApart, NEW S \in SUBSET Lists, NEW v, Ordered(v, S), NEW l \in S
  PROVE  LET s == Forward(v, l)
         IN /\ Len(s) \in Nat /\ DOMAIN s = 1 .. Len(s)
            /\ v[HeadOf(l)].next = NodeOf(l, s, 1) /\ v[TailOf(l)].prev = NodeOf(l, s, Len(s))
            /\ v[HeadOf(l)].prev = None /\ v[TailOf(l)].next = None
            /\ (v[HeadOf(l)].next = TailOf(l)) <=> (s = <<>>)
            /\ s # <<>> => /\ Len(s) \in 1 .. Len(s) /\ 1 \in 1 .. Len(s)
                           /\ v[HeadOf(l)].next = s[1] /\ v[TailOf(l)].prev = s[Len(s)]
<1> DEFINE s == Forward(v, l)
<1>1. Linked(v, l, s) /\ s \in Seq(Elements) /\ IsInjective(s)
  BY OrderedIs
<1> HIDE DEF s
<1>2. /\ Len(s) \in Nat /\ DOMAIN s = 1 .. Len(s)
      /\ \A i \in 1 .. Len(s) : s[i] \in Elements /\ NodeOf(l, s, i) = s[i]
      /\ NodeOf(l, s, 0) = HeadOf(l) /\ NodeOf(l, s, Len(s) + 1) = TailOf(l)
  BY <1>1, NodesDiffer
<1>3. v[HeadOf(l)].next = NodeOf(l, s, 1) /\ v[TailOf(l)].prev = NodeOf(l, s, Len(s))
  <2>1. 0 \in 0 .. Len(s) /\ Len(s) \in 0 .. Len(s) /\ 0 + 1 = 1
    BY <1>2
  <2>2. QED
    BY <1>1, <1>2, <2>1 DEF Linked
<1>4. v[HeadOf(l)].prev = None /\ v[TailOf(l)].next = None
  BY <1>1 DEF Linked
<1>5. ASSUME s # <<>>
      PROVE  /\ Len(s) \in 1 .. Len(s) /\ 1 \in 1 .. Len(s)
             /\ v[HeadOf(l)].next = s[1] /\ v[TailOf(l)].prev = s[Len(s)] /\ s[1] # TailOf(l)
  <2>1. Len(s) \in Nat \ {0}
    BY <1>1, <1>5, EmptySeq
  <2>2. Len(s) \in 1 .. Len(s) /\ 1 \in 1 .. Len(s)
    BY <2>1
  <2>3. s[1] # TailOf(l)
    BY <1>2, <2>2 DEF EndsApart
  <2>4. QED
    BY <1>2, <1>3, <2>2, <2>3
<1>6. s = <<>> => v[HeadOf(l)].next = TailOf(l)
  <2>1. s = <<>> => Len(s) + 1 = 1
    BY EmptySeq
  <2>2. QED
    BY <1>2, <1>3, <2>1
<1>7. QED
  BY <1>2, <1>3, <1>4, <1>5, <1>6 DEF s

\* The elements of a list with x put into it, and of one without element k.
LEMMA ElementsAre ==
  ASSUME NEW s \in Seq(Elements)
  PROVE  /\ \A k \in 0 .. Len(s), x \in Elements : ToSet(InsertAt(s, k + 1, x)) = ToSet(s) \cup {x}
         /\ IsInjective(s) => \A k \in 1 .. Len(s) : ToSet(RemoveAt(s, k)) = ToSet(s) \ {s[k]}
<1>1. Len(s) \in Nat /\ DOMAIN s = 1 .. Len(s) /\ \A i \in 1 .. Len(s) : s[i] \in Elements
  BY LenProperties, ElementOfSeq
<1>2. ASSUME NEW k \in 0 .. Len(s), NEW x \in Elements
      PROVE  ToSet(InsertAt(s, k + 1, x)) = ToSet(s) \cup {x}
  <2> DEFINE t == InsertAt(s, k + 1, x)
  <2>1. k + 1 \in 1 .. Len(s) + 1
    BY <1>1
  <2>2. /\ t \in Seq(Elements) /\ Len(t) = Len(s) + 1
        /\ \A j \in 1 .. Len(s) + 1 : t[j] = IF j < k + 1 THEN s[j] ELSE IF j = k + 1 THEN x ELSE s[j - 1]
    <3>1. PICK i \in 1 .. Len(s) + 1 : i = k + 1
      BY <2>1
    <3>2. /\ InsertAt(s, i, x) \in Seq(Elements) /\ Len(InsertAt(s, i, x)) = Len(s) + 1
          /\ \A j \in 1 .. Len(s) + 1 :
               InsertAt(s, i, x)[j] = IF j < i THEN s[j] ELSE IF j = i THEN x ELSE s[j - 1]
      BY InsertAtIs
    <3>3. QED
      BY <3>1, <3>2
  <2> HIDE DEF t
  <2>3. DOMAIN t = 1 .. Len(s) + 1
    BY <2>2, LenProperties
  <2>4. \A j \in 1 .. Len(s) + 1 : t[j] \in ToSet(s) \cup {x}
    <3>1. TAKE j \in 1 .. Len(s) + 1
    <3>2. (j < k + 1 => j \in 1 .. Len(s)) /\ (j > k + 1 => j - 1 \in 1 .. Len(s))
      BY <1>1
    <3>3. j < k + 1 \/ j = k + 1 \/ (j > k + 1 /\ ~ (j < k + 1) /\ j # k + 1)
      BY <1>1
    <3>4. QED
      BY <1>1, <2>2, <3>2, <3>3 DEF ToSet
  <2>5. x \in ToSet(t)
    <3>1. t[k + 1] = x
      BY <1>1, <2>1, <2>2
    <3>2. QED
      BY <2>1, <2>3, <3>1 DEF ToSet
  <2>6. \A i \in 1 .. Len(s) : s[i] \in ToSet(t)
    <3>1. TAKE i \in 1 .. Len(s)
    <3>2. CASE i < k + 1
      <4>1. i \in 1 .. Len(s) + 1 /\ t[i] = s[i]
        BY <1>1, <2>2, <3>2
      <4>2. QED
        BY <2>3, <4>1 DEF ToSet
    <3>3. CASE ~ (i < k + 1)
      <4>1. i + 1 \in 1 .. Len(s) + 1 /\ ~ (i + 1 < k + 1) /\ i + 1 # k + 1 /\ i + 1 - 1 = i
        BY <1>1, <3>3
      <4>2. t[i + 1] = s[i]
        BY <2>2, <4>1
      <4>3. QED
        BY <2>3, <4>1, <4>2 DEF ToSet
    <3>4. QED
      BY <3>2, <3>3
  <2>7. QED
    BY <1>1, <2>3, <2>4, <2>5, <2>6 DEF ToSet, t
<1>3. ASSUME IsInjective(s), NEW k \in 1 .. Len(s)
      PROVE  ToSet(RemoveAt(s, k)) = ToSet(s) \ {s[k]}
  <2> DEFINE t == RemoveAt(s, k)
  <2>1. /\ t \in Seq(Elements) /\ Len(t) = Len(s) - 1
        /\ \A j \in 1 .. Len(s) - 1 : t[j] = IF j < k THEN s[j] ELSE s[j + 1]
    BY RemoveAtIs
  <2> HIDE DEF t
  <2>2. DOMAIN t = 1 .. Len(s) - 1
    BY <2>1, LenProperties
  <2>3. \A i, j \in 1 .. Len(s) : i # j => s[i] # s[j]
    BY <1>1, <1>3 DEF IsInjective
  <2>4. \A j \in 1 .. Len(s) - 1 : t[j] \in ToSet(s) \ {s[k]}
    <3>1. TAKE j \in 1 .. Len(s) - 1
    <3>2. PICK i \in 1 .. Len(s) : t[j] = s[i] /\ i # k
      <4>1. j \in 1 .. Len(s) /\ j + 1 \in 1 .. Len(s) /\ (j < k => j # k) /\ (~ (j < k) => j + 1 # k)
        BY <1>1
      <4>2. QED
        BY <2>1, <4>1
    <3>3. QED
      BY <1>1, <2>3, <3>2 DEF ToSet
  <2>5. \A i \in 1 .. Len(s) : i # k => s[i] \in ToSet(t)
    <3>1. TAKE i \in 1 .. Len(s)
    <3>2. CASE i < k
      <4>1. i \in 1 .. Len(s) - 1
        BY <1>1, <3>2
      <4>2. QED
        BY <2>1, <2>2, <3>2, <4>1 DEF ToSet
    <3>3. CASE i > k
      <4>1. i - 1 \in 1 .. Len(s) - 1 /\ ~ (i - 1 < k) /\ i - 1 + 1 = i
        BY <1>1, <3>3
      <4>2. t[i - 1] = s[i]
        BY <2>1, <4>1
      <4>3. QED
        BY <2>2, <4>1, <4>2 DEF ToSet
    <3>4. QED
      BY <1>1, <3>2, <3>3
  <2>6. QED
    BY <1>1, <2>2, <2>4, <2>5 DEF ToSet, t
<1>4. QED
  BY <1>2, <1>3

\* w is v with x put behind the first k elements of list l.
PutAt(v, w, l, k, x) ==
  \/ w = LinkBefore(v, x, NodeOf(l, Forward(v, l), k + 1))
  \/ w = LinkAfter(v, x, NodeOf(l, Forward(v, l), k))

\* Putting an element into a list puts it into the sequence.
LEMMA Inserted ==
  ASSUME EndsApart, NEW S \in SUBSET Lists, NEW v, Ordered(v, S), NEW l \in S,
         NEW x \in Elements, \A r \in S : x \notin ToSet(Forward(v, r)),
         NEW k \in 0 .. Len(Forward(v, l)), NEW w, PutAt(v, w, l, k, x)
  PROVE  /\ Ordered(w, S)
         /\ Forward(w, l) = InsertAt(Forward(v, l), k + 1, x)
         /\ \A r \in S \ {l} : Forward(w, r) = Forward(v, r)
<1> DEFINE s == Forward(v, l)
           p == NodeOf(l, s, k)
           n == NodeOf(l, s, k + 1)
           c == [r \in S |-> IF r = l THEN InsertAt(s, k + 1, x) ELSE Forward(v, r)]
<1>1. LinkTypes(v) /\ Linked(v, l, s) /\ s \in Seq(Elements) /\ IsInjective(s) /\ l \in Lists
  BY OrderedIs
<1>2. \A i \in 1 .. Len(s) : s[i] # x
  BY <1>1, LenProperties DEF ToSet
<1>3. k \in 0 .. Len(s)
  OBVIOUS
<1>4. PutAt(v, w, l, k, x) <=> w = LinkBefore(v, x, n) \/ w = LinkAfter(v, x, p)
  BY DEF PutAt
<1> HIDE DEF s
<1>5. /\ Len(s) \in Nat /\ \A i \in 1 .. Len(s) : s[i] \in Elements /\ NodeOf(l, s, i) = s[i]
      /\ NodeOf(l, s, 0) = HeadOf(l) /\ NodeOf(l, s, Len(s) + 1) = TailOf(l)
      /\ \A i \in 0 .. Len(s) + 1 : NodeOf(l, s, i) \in Nodes
      /\ \A i, j \in 0 .. Len(s) + 1 : i # j => NodeOf(l, s, i) # NodeOf(l, s, j)
  BY <1>1, NodesDiffer
<1>6. \A i \in 0 .. Len(s) + 1 : NodeOf(l, s, i) \in ToSet(s) \cup Ends(l) /\ NodeOf(l, s, i) # x
  <2>1. TAKE i \in 0 .. Len(s) + 1
  <2>2. i = 0 \/ i = Len(s) + 1 \/ i \in 1 .. Len(s)
    BY <1>5
  <2>3. DOMAIN s = 1 .. Len(s) /\ x # HeadOf(l) /\ x # TailOf(l)
    BY <1>1, LenProperties DEF EndsApart
  <2>4. QED
    BY <1>2, <1>5, <2>2, <2>3 DEF ToSet, Ends
<1>7. /\ p \in Nodes /\ n \in Nodes /\ p # n /\ x # p /\ x # n /\ v[n].prev = p /\ v[p].next = n
      /\ p \in ToSet(s) \cup Ends(l) /\ n \in ToSet(s) \cup Ends(l)
  <2>1. k \in 0 .. Len(s) + 1 /\ k + 1 \in 0 .. Len(s) + 1 /\ k # k + 1
    BY <1>3, <1>5
  <2>2. v[n].prev = p /\ v[p].next = n
    BY <1>1, <1>3 DEF Linked
  <2>3. QED
    BY <1>5, <1>6, <2>1, <2>2
<1> HIDE DEF p, n
<1>8. LinkTypes(w) /\ Between(v, w, x, p, n)
  <2>1. x \in Nodes
    BY DEF Nodes
  <2>2. QED
    BY <1>1, <1>4, <1>7, <2>1, WritesAre
<1>9. Linked(w, l, InsertAt(s, k + 1, x))
  BY <1>1, <1>2, <1>3, <1>8, PutLinked DEF p, n
<1>10. ASSUME NEW r \in S, r # l
       PROVE  Linked(w, r, Forward(v, r))
  <2>1. r \in Lists /\ Linked(v, r, Forward(v, r)) /\ ToSet(s) \cap ToSet(Forward(v, r)) = {}
    BY <1>10, OrderedIs DEF s
  <2>2. {x} \in SUBSET Elements /\ {x} \cap ToSet(Forward(v, r)) = {}
    OBVIOUS
  <2>3. \A m \in Nodes \ ({x} \cup ToSet(s) \cup Ends(l)) : w[m] = v[m]
    BY <1>7, <1>8 DEF Between
  <2>4. QED
    BY <1>1, <1>10, <2>1, <2>2, <2>3, OtherLinked
<1>11. ToSet(InsertAt(s, k + 1, x)) = ToSet(s) \cup {x}
  BY <1>1, <1>3, ElementsAre
<1>12. \A r, q \in S : r # q => ToSet(Forward(v, r)) \cap ToSet(Forward(v, q)) = {}
  BY OrderedIs
<1>13. \A r \in S : c[r] = IF r = l THEN InsertAt(s, k + 1, x) ELSE Forward(v, r)
  OBVIOUS
<1> HIDE DEF c
<1>14. \A r \in S : Linked(w, r, c[r])
  BY <1>9, <1>10, <1>13
<1>15. \A r, q \in S : r # q => ToSet(c[r]) \cap ToSet(c[q]) = {}
  BY <1>11, <1>12, <1>13 DEF s
<1>16. Ordered(w, S) /\ \A r \in S : Forward(w, r) = c[r]
  BY <1>8, <1>14, <1>15, ChainedOrdered
<1>17. QED
  BY <1>13, <1>16 DEF s

\* Unlinking element k of a list takes it out of the sequence.
LEMMA Removed ==
  ASSUME EndsApart, NEW S \in SUBSET Lists, NEW v, Ordered(v, S), NEW l \in S,
         NEW k \in 1 .. Len(Forward(v, l))
  PROVE  LET w == Unlink(v, Forward(v, l)[k])
         IN /\ Ordered(w, S)
            /\ Forward(w, l) = RemoveAt(Forward(v, l), k)
            /\ \A r \in S \ {l} : Forward(w, r) = Forward(v, r)
<1> DEFINE s == Forward(v, l)
           x == s[k]
           w == Unlink(v, x)
           p == NodeOf(l, s, k - 1)
           n == NodeOf(l, s, k + 1)
           c == [r \in S |-> IF r = l THEN RemoveAt(s, k) ELSE Forward(v, r)]
<1>1. LinkTypes(v) /\ Linked(v, l, s) /\ s \in Seq(Elements) /\ IsInjective(s) /\ l \in Lists
  BY OrderedIs
<1>2. k \in 1 .. Len(s)
  OBVIOUS
<1> HIDE DEF s
<1>3. /\ Len(s) \in Nat /\ \A i \in 1 .. Len(s) : s[i] \in Elements /\ NodeOf(l, s, i) = s[i]
      /\ NodeOf(l, s, 0) = HeadOf(l) /\ NodeOf(l, s, Len(s) + 1) = TailOf(l)
      /\ \A i \in 0 .. Len(s) + 1 : NodeOf(l, s, i) \in Nodes
      /\ \A i, j \in 0 .. Len(s) + 1 : i # j => NodeOf(l, s, i) # NodeOf(l, s, j)
  BY <1>1, NodesDiffer
<1>4. \A i \in 0 .. Len(s) + 1 : NodeOf(l, s, i) \in ToSet(s) \cup Ends(l)
  <2>1. TAKE i \in 0 .. Len(s) + 1
  <2>2. i = 0 \/ i = Len(s) + 1 \/ i \in 1 .. Len(s)
    BY <1>3
  <2>3. DOMAIN s = 1 .. Len(s)
    BY <1>1, LenProperties
  <2>4. QED
    BY <1>3, <2>2, <2>3 DEF ToSet, Ends
<1>5. /\ p \in Nodes /\ n \in Nodes /\ x \in Nodes /\ p # n /\ x # p /\ x # n
      /\ v[x].prev = p /\ v[x].next = n
      /\ p \in ToSet(s) \cup Ends(l) /\ n \in ToSet(s) \cup Ends(l)
  <2>1. /\ k - 1 \in 0 .. Len(s) /\ k \in 0 .. Len(s) /\ k - 1 + 1 = k /\ k # k - 1 /\ k # k + 1
        /\ k - 1 # k + 1 /\ k - 1 \in 0 .. Len(s) + 1 /\ k \in 0 .. Len(s) + 1
        /\ k + 1 \in 0 .. Len(s) + 1
    BY <1>2, <1>3
  <2>2. NodeOf(l, s, k) = x
    BY <1>2, <1>3
  <2>3. v[x].prev = p /\ v[x].next = n
    BY <1>1, <2>1, <2>2 DEF Linked
  <2>4. QED
    BY <1>3, <1>4, <2>1, <2>2, <2>3
<1> HIDE DEF p, n
<1>6. LinkTypes(w) /\ Joined(v, w, p, n)
  BY <1>1, <1>5, WritesAre
<1> HIDE DEF w
<1>7. Linked(w, l, RemoveAt(s, k))
  BY <1>1, <1>2, <1>6, CutLinked DEF p, n
<1>8. ASSUME NEW r \in S, r # l
      PROVE  Linked(w, r, Forward(v, r))
  <2>1. r \in Lists /\ Linked(v, r, Forward(v, r)) /\ ToSet(s) \cap ToSet(Forward(v, r)) = {}
    BY <1>8, OrderedIs DEF s
  <2>2. {} \in SUBSET Elements /\ {} \cap ToSet(Forward(v, r)) = {}
    OBVIOUS
  <2>3. \A m \in Nodes \ ({} \cup ToSet(s) \cup Ends(l)) : w[m] = v[m]
    BY <1>5, <1>6 DEF Joined
  <2>4. QED
    BY <1>1, <1>8, <2>1, <2>2, <2>3, OtherLinked
<1>9. ToSet(RemoveAt(s, k)) \subseteq ToSet(s)
  BY <1>1, <1>2, ElementsAre
<1>10. \A r, q \in S : r # q => ToSet(Forward(v, r)) \cap ToSet(Forward(v, q)) = {}
  BY OrderedIs
<1>11. \A r \in S : c[r] = IF r = l THEN RemoveAt(s, k) ELSE Forward(v, r)
  OBVIOUS
<1> HIDE DEF c
<1>12. \A r \in S : Linked(w, r, c[r])
  BY <1>7, <1>8, <1>11
<1>13. \A r, q \in S : r # q => ToSet(c[r]) \cap ToSet(c[q]) = {}
  BY <1>9, <1>10, <1>11 DEF s
<1>14. Ordered(w, S) /\ \A r \in S : Forward(w, r) = c[r]
  BY <1>6, <1>12, <1>13, ChainedOrdered
<1>15. QED
  BY <1>11, <1>14 DEF s, w, x

\* Some of the lists in order are in order.
LEMMA Fewer ==
  ASSUME EndsApart, NEW S \in SUBSET Lists, NEW v, Ordered(v, S), NEW T \in SUBSET S
  PROVE  Ordered(v, T)
BY DEF Ordered, Chained

\* The lists T are emptied, the others as they were.
LEMMA Emptied ==
  ASSUME EndsApart, NEW S \in SUBSET Lists, NEW v, Ordered(v, S), NEW T \in SUBSET Lists
  PROVE  /\ Ordered(EmptyEnds(v, T), S \cup T)
         /\ \A l \in T : Forward(EmptyEnds(v, T), l) = <<>>
         /\ \A l \in S \ T : Forward(EmptyEnds(v, T), l) = Forward(v, l)
<1> DEFINE w == EmptyEnds(v, T)
           c == [l \in S \cup T |-> IF l \in T THEN <<>> ELSE Forward(v, l)]
<1>1. LinkTypes(v) /\ DOMAIN v = Nodes
  BY DEF Ordered, Chained, LinkTypes
<1>2. \A l, r \in Lists : HeadOf(l) # TailOf(r) /\ (HeadOf(l) = HeadOf(r) => l = r)
                          /\ (TailOf(l) = TailOf(r) => l = r)
                          /\ HeadOf(l)[2] = l /\ TailOf(l)[2] = l
                          /\ HeadOf(l) \in Nodes /\ TailOf(l) \in Nodes
  BY DEF HeadOf, TailOf, Nodes, Ends
<1>3. \A l \in T : /\ w[HeadOf(l)] = [prev |-> None, next |-> TailOf(l)]
                   /\ w[TailOf(l)] = [prev |-> HeadOf(l), next |-> None]
  BY <1>1, <1>2 DEF EmptyEnds
<1>4. \A l \in Lists \ T : w[HeadOf(l)] = v[HeadOf(l)] /\ w[TailOf(l)] = v[TailOf(l)]
  BY <1>1, <1>2 DEF EmptyEnds
<1>5. \A x \in Elements : w[x] = v[x]
  <2>1. \A x \in Elements : x \in Nodes /\ \A l \in T : x # HeadOf(l) /\ x # TailOf(l)
    BY DEF EndsApart, Nodes
  <2>2. QED
    BY <1>1, <2>1 DEF EmptyEnds
<1>6. LinkTypes(w)
  <2> DEFINE Two == [prev : Nodes \cup {None}, next : Nodes \cup {None}]
  <2>1. v \in [Nodes -> Two]
    BY <1>1 DEF LinkTypes
  <2>2. \A n \in Nodes : w[n] \in Two
    <3>1. TAKE n \in Nodes
    <3>2. n \in Elements \/ \E l \in Lists : n = HeadOf(l) \/ n = TailOf(l)
      BY DEF Nodes, Ends
    <3>3. v[n] \in Two
      BY <2>1
    <3>4. CASE n \in Elements
      BY <1>5, <3>3, <3>4
    <3>5. CASE \E l \in Lists : n = HeadOf(l) \/ n = TailOf(l)
      <4>1. PICK l \in Lists : n = HeadOf(l) \/ n = TailOf(l)
        BY <3>5
      <4>2. CASE l \in T
        <5>1. /\ HeadOf(l) \in Nodes \cup {None} /\ TailOf(l) \in Nodes \cup {None}
              /\ None \in Nodes \cup {None}
          BY <1>2
        <5>2. w[n] = [prev |-> None, next |-> TailOf(l)] \/ w[n] = [prev |-> HeadOf(l), next |-> None]
          BY <1>3, <4>1, <4>2
        <5>3. QED
          BY <5>1, <5>2
      <4>3. CASE l \notin T
        BY <1>4, <3>3, <4>1, <4>3
      <4>4. QED
        BY <4>2, <4>3
    <3>6. QED
      BY <3>2, <3>4, <3>5
  <2>3. w = [n \in Nodes |-> w[n]]
    BY <1>1 DEF EmptyEnds
  <2> HIDE DEF w, Two
  <2>4. w \in [Nodes -> Two]
    BY <2>2, <2>3
  <2>5. QED
    BY <2>4 DEF LinkTypes, Two
<1> HIDE DEF w
<1>7. ASSUME NEW l \in T
      PROVE  Linked(w, l, <<>>)
  <2>1. <<>> \in Seq(Elements) /\ Len(<<>>) = 0 /\ IsInjective(<<>>)
    <3>1. <<>> \in Seq(Elements) /\ Len(<<>>) = 0
      BY EmptySeq
    <3>2. DOMAIN <<>> = {}
      BY <3>1, LenProperties
    <3>3. QED
      BY <3>1, <3>2 DEF IsInjective
  <2>2. NodeOf(l, <<>>, 0) = HeadOf(l) /\ NodeOf(l, <<>>, 1) = TailOf(l)
    BY <2>1 DEF NodeOf
  <2>3. w[HeadOf(l)] = [prev |-> None, next |-> TailOf(l)] /\ w[TailOf(l)] = [prev |-> HeadOf(l), next |-> None]
    BY <1>3
  <2>4. \A i \in 0 .. Len(<<>>) : /\ w[NodeOf(l, <<>>, i)].next = NodeOf(l, <<>>, i + 1)
                                  /\ w[NodeOf(l, <<>>, i + 1)].prev = NodeOf(l, <<>>, i)
    <3>1. \A i \in 0 .. Len(<<>>) : i = 0 /\ i + 1 = 1
      BY <2>1
    <3>2. QED
      BY <2>2, <2>3, <3>1
  <2>5. w[HeadOf(l)].prev = None /\ w[TailOf(l)].next = None
    BY <2>3
  <2>6. QED
    BY <2>1, <2>4, <2>5 DEF Linked
<1>8. ASSUME NEW l \in S \ T
      PROVE  Linked(w, l, Forward(v, l))
  <2>1. l \in Lists \ T /\ Linked(v, l, Forward(v, l)) /\ Forward(v, l) \in Seq(Elements)
    BY OrderedIs
  <2>2. \A i \in 1 .. Len(Forward(v, l)) : w[Forward(v, l)[i]] = v[Forward(v, l)[i]]
    BY <1>5, <2>1, ElementOfSeq
  <2>3. QED
    BY <1>4, <2>1, <2>2, KeptLinked
<1>9. \A l, r \in S : l # r => ToSet(Forward(v, l)) \cap ToSet(Forward(v, r)) = {}
  BY OrderedIs
<1>10. ToSet(<<>>) = {}
  BY DEF ToSet
<1>11. \A l \in S \cup T : c[l] = IF l \in T THEN <<>> ELSE Forward(v, l)
  OBVIOUS
<1> HIDE DEF c
<1>12. \A l \in S \cup T : Linked(w, l, c[l])
  BY <1>7, <1>8, <1>11
<1>13. \A l, r \in S \cup T : l # r => ToSet(c[l]) \cap ToSet(c[r]) = {}
  BY <1>9, <1>10, <1>11
<1>14. Ordered(w, S \cup T) /\ \A l \in S \cup T : Forward(w, l) = c[l]
  BY <1>6, <1>12, <1>13, ChainedOrdered
<1>15. QED
  BY <1>11, <1>14 DEF w

\* No list is in order from the start.
LEMMA NoneOrdered ==
  ASSUME NEW v, LinkTypes(v)
  PROVE  Ordered(v, {})
BY DEF Ordered, Chained

-----------------------------------------------------------------------------
(* What a caller sees of the lists.                                        *)

\* The lists that exist.
Live(m) == {l \in Lists : m[l] # None}

\* What the lists S are, as c has their sequences.
Shown(c, S) == [l \in Lists |-> IF l \in S THEN c[l] ELSE None]
Chains(v) == [l \in Lists |-> Forward(v, l)]

\* The new links w of the lists T, of which l was v's of the lists S: it is
\* s now, and the others are as they were.
Changed(v, S, w, T, l, s) ==
  /\ Ordered(w, T)
  /\ l \in Lists /\ S \subseteq Lists /\ T \subseteq Lists /\ S \ {l} = T \ {l}
  /\ l \in T => Forward(w, l) = s
  /\ \A r \in S \ {l} : Forward(w, r) = Forward(v, r)

LEMMA Puts ==
  ASSUME EndsApart, NEW S \in SUBSET Lists, NEW v, Ordered(v, S), NEW l \in S,
         NEW x \in Elements, \A r \in S : x \notin ToSet(Forward(v, r)),
         NEW k \in 0 .. Len(Forward(v, l)), NEW w, PutAt(v, w, l, k, x)
  PROVE  Changed(v, S, w, S, l, InsertAt(Forward(v, l), k + 1, x))
BY Inserted DEF Changed

LEMMA Cuts ==
  ASSUME EndsApart, NEW S \in SUBSET Lists, NEW v, Ordered(v, S), NEW l \in S,
         NEW k \in 1 .. Len(Forward(v, l))
  PROVE  Changed(v, S, Unlink(v, Forward(v, l)[k]), S, l, RemoveAt(Forward(v, l), k))
BY Removed DEF Changed

LEMMA Empties ==
  ASSUME EndsApart, NEW S \in SUBSET Lists, NEW v, Ordered(v, S), NEW l \in Lists
  PROVE  Changed(v, S, EmptyEnds(v, {l}), S \cup {l}, l, <<>>)
<1>1. {l} \in SUBSET Lists
  OBVIOUS
<1>2. /\ Ordered(EmptyEnds(v, {l}), S \cup {l})
      /\ \A r \in {l} : Forward(EmptyEnds(v, {l}), r) = <<>>
      /\ \A r \in S \ {l} : Forward(EmptyEnds(v, {l}), r) = Forward(v, r)
  BY <1>1, Emptied
<1>3. QED
  BY <1>2 DEF Changed

LEMMA Leaves ==
  ASSUME EndsApart, NEW S \in SUBSET Lists, NEW v, Ordered(v, S), NEW l \in Lists
  PROVE  Changed(v, S, v, S \ {l}, l, None)
<1>1. Ordered(v, S \ {l})
  BY Fewer
<1>2. QED
  BY <1>1 DEF Changed

\* What is seen changes likewise.
LEMMA ShownChanges ==
  ASSUME NEW v, NEW S, NEW w, NEW T, NEW l, NEW s, Changed(v, S, w, T, l, s),
         l \notin T => s = None
  PROVE  Shown(Chains(w), T) = [Shown(Chains(v), S) EXCEPT ![l] = s]
BY DEF Changed, Shown, Chains

\* What the call r of Deque makes of the sequence q of list l, of values V.
Does(V, q, s, l, r) ==
  \/ r = <<"create", l>> /\ q = None /\ s = <<>>
  \/ r = <<"destroy", l>> /\ q # None /\ s = None
  \/ r = <<"clear", l>> /\ q # None /\ s = <<>>
  \/ r = <<"popHead", l, q[1]>> /\ q # None /\ q # <<>> /\ s = RemoveAt(q, 1)
  \/ r = <<"popTail", l, q[Len(q)]>> /\ q # None /\ q # <<>> /\ s = RemoveAt(q, Len(q))
  \/ \E x \in V :
       \/ r = <<"pushHead", l, x>> /\ q # None /\ s = <<x>> \o q
       \/ r = <<"pushTail", l, x>> /\ q # None /\ s = Append(q, x)
       \/ \E i \in 1 .. Len(q) + 1 : r = <<"add", l, i, x>> /\ q # None /\ s = InsertAt(q, i, x)
  \/ \E i \in 1 .. Len(q) : r = <<"remove", l, i>> /\ q # None /\ s = RemoveAt(q, i)

\* What is known of a list l of v that has the sequence s.
ListFacts(v, l, s) ==
  /\ s \in Seq(Elements) /\ IsInjective(s) /\ Len(s) \in Nat /\ DOMAIN s = 1 .. Len(s)
  /\ ToSet(s) \subseteq Elements /\ Backward(v, l) = Reverse(s) /\ s # None
  /\ \A x \in ToSet(s) : \E k \in 1 .. Len(s) : x = s[k]
  /\ \A k \in 1 .. Len(s) : s[k] \in ToSet(s) /\ NodeOf(l, s, k) = s[k]
  /\ NodeOf(l, s, 0) = HeadOf(l) /\ NodeOf(l, s, Len(s) + 1) = TailOf(l)
  /\ v[HeadOf(l)].prev = None /\ v[TailOf(l)].next = None
  /\ (v[HeadOf(l)].next = TailOf(l)) <=> (s = <<>>)
  /\ s # <<>> => /\ Len(s) \in 1 .. Len(s) /\ 1 \in 1 .. Len(s)
                 /\ v[HeadOf(l)].next = s[1] /\ v[TailOf(l)].prev = s[Len(s)]
  /\ \A k \in 1 .. Len(s) : PlaceOf(s, s[k]) = k
  /\ \A k \in 1 .. Len(s) : RemoveAt(s, k) \in Seq(Elements)
       /\ Len(RemoveAt(s, k)) = Len(s) - 1
       /\ ToSet(RemoveAt(s, k)) = ToSet(s) \ {s[k]}
  /\ \A k \in 0 .. Len(s), x \in Elements :
       /\ InsertAt(s, k + 1, x) \in Seq(Elements)
       /\ Len(InsertAt(s, k + 1, x)) = Len(s) + 1
       /\ ToSet(InsertAt(s, k + 1, x)) = ToSet(s) \cup {x}
  /\ \A x \in Elements : /\ InsertAt(s, 0 + 1, x) = <<x>> \o s
                         /\ InsertAt(s, Len(s) + 1, x) = Append(s, x)

LEMMA ListIs ==
  ASSUME EndsApart, NEW S \in SUBSET Lists, NEW v, Ordered(v, S), NEW l \in S
  PROVE  ListFacts(v, l, Forward(v, l))
<1> DEFINE s == Forward(v, l)
<1>1. s \in Seq(Elements) /\ IsInjective(s) /\ Backward(v, l) = Reverse(s)
      /\ ToSet(s) \subseteq Elements
  BY OrderedIs
<1>2. /\ v[HeadOf(l)].prev = None /\ v[TailOf(l)].next = None
      /\ (v[HeadOf(l)].next = TailOf(l)) <=> (s = <<>>)
      /\ s # <<>> => /\ Len(s) \in 1 .. Len(s) /\ 1 \in 1 .. Len(s)
                     /\ v[HeadOf(l)].next = s[1] /\ v[TailOf(l)].prev = s[Len(s)]
  BY EndsLead
<1> HIDE DEF s
<1>3. /\ Len(s) \in Nat /\ DOMAIN s = 1 .. Len(s)
      /\ \A k \in 1 .. Len(s) : s[k] \in Elements /\ NodeOf(l, s, k) = s[k]
      /\ NodeOf(l, s, 0) = HeadOf(l) /\ NodeOf(l, s, Len(s) + 1) = TailOf(l)
  BY <1>1, NodesDiffer
<1>4. /\ \A x \in ToSet(s) : \E k \in 1 .. Len(s) : x = s[k]
      /\ \A k \in 1 .. Len(s) : s[k] \in ToSet(s)
  BY <1>3 DEF ToSet
<1>5. ASSUME NEW k \in 1 .. Len(s)
      PROVE  /\ PlaceOf(s, s[k]) = k
             /\ RemoveAt(s, k) \in Seq(Elements) /\ Len(RemoveAt(s, k)) = Len(s) - 1
             /\ ToSet(RemoveAt(s, k)) = ToSet(s) \ {s[k]}
  <2>1. PlaceOf(s, s[k]) = k
    BY <1>1, PlaceIs
  <2>2. RemoveAt(s, k) \in Seq(Elements) /\ Len(RemoveAt(s, k)) = Len(s) - 1
    BY <1>1, RemoveAtIs
  <2>3. ToSet(RemoveAt(s, k)) = ToSet(s) \ {s[k]}
    BY <1>1, ElementsAre
  <2>4. QED
    BY <2>1, <2>2, <2>3
<1>6. ASSUME NEW k \in 0 .. Len(s), NEW x \in Elements
      PROVE  /\ InsertAt(s, k + 1, x) \in Seq(Elements) /\ Len(InsertAt(s, k + 1, x)) = Len(s) + 1
             /\ ToSet(InsertAt(s, k + 1, x)) = ToSet(s) \cup {x}
  <2>1. PICK i \in 1 .. Len(s) + 1 : i = k + 1
    BY <1>3
  <2>2. InsertAt(s, i, x) \in Seq(Elements) /\ Len(InsertAt(s, i, x)) = Len(s) + 1
    BY <1>1, InsertAtIs
  <2>3. ToSet(InsertAt(s, k + 1, x)) = ToSet(s) \cup {x}
    BY <1>1, ElementsAre
  <2>4. QED
    BY <2>1, <2>2, <2>3
<1>7. \A x \in Elements : /\ InsertAt(s, 0 + 1, x) = <<x>> \o s
                          /\ InsertAt(s, Len(s) + 1, x) = Append(s, x)
  BY <1>1, InsertEnds
<1>8. s # None
  BY <1>1 DEF EndsApart
<1>9. QED
  <2>1. ListFacts(v, l, s)
    BY <1>1, <1>2, <1>3, <1>4, <1>5, <1>6, <1>7, <1>8 DEF ListFacts
  <2>2. QED
    BY <2>1 DEF s

\* Next to an element of the list or to one of its ends.
PlaceAt(s, l, w) == IF w = TailOf(l) THEN Len(s) + 1 ELSE PlaceOf(s, w)

\* Where a node is that something goes in front of, or behind.
LEMMA BeforeIs ==
  ASSUME EndsApart, NEW S \in SUBSET Lists, NEW v, Ordered(v, S), NEW l \in S,
         NEW w \in ToSet(Forward(v, l)) \cup {TailOf(l)}
  PROVE  LET s == Forward(v, l)
         IN \E k \in 0 .. Len(s) : w = NodeOf(l, s, k + 1) /\ k + 1 = PlaceAt(s, l, w)
<1> DEFINE s == Forward(v, l)
<1>1. /\ Len(s) \in Nat /\ ToSet(s) \subseteq Elements
      /\ \A x \in ToSet(s) : \E k \in 1 .. Len(s) : x = s[k]
      /\ \A k \in 1 .. Len(s) : NodeOf(l, s, k) = s[k]
      /\ NodeOf(l, s, Len(s) + 1) = TailOf(l)
      /\ \A k \in 1 .. Len(s) : PlaceOf(s, s[k]) = k
  <2>1. ListFacts(v, l, s)
    BY ListIs
  <2>2. QED
    BY <2>1 DEF ListFacts
<1>2. w \in ToSet(s) \cup {TailOf(l)}
  OBVIOUS
<1> HIDE DEF s
<1>3. CASE w = TailOf(l)
  <2>1. Len(s) \in 0 .. Len(s)
    BY <1>1
  <2>2. QED
    BY <1>1, <1>3, <2>1 DEF PlaceAt, s
<1>4. CASE w # TailOf(l)
  <2>1. PICK j \in 1 .. Len(s) : w = s[j]
    BY <1>1, <1>2, <1>4
  <2>2. j - 1 \in 0 .. Len(s) /\ j - 1 + 1 = j
    BY <1>1
  <2>3. NodeOf(l, s, j) = w /\ PlaceOf(s, w) = j
    BY <1>1, <2>1
  <2>4. QED
    BY <1>4, <2>2, <2>3 DEF PlaceAt, s
<1>5. QED
  BY <1>3, <1>4

LEMMA BehindIs ==
  ASSUME EndsApart, NEW S \in SUBSET Lists, NEW v, Ordered(v, S), NEW l \in S,
         NEW w \in ToSet(Forward(v, l)) \cup {HeadOf(l)}
  PROVE  LET s == Forward(v, l)
         IN \E k \in 0 .. Len(s) : /\ w = NodeOf(l, s, k) /\ w # TailOf(l)
                                   /\ k = PlaceOf(s, w)
<1> DEFINE s == Forward(v, l)
<1>1. /\ Len(s) \in Nat /\ ToSet(s) \subseteq Elements
      /\ \A x \in ToSet(s) : \E k \in 1 .. Len(s) : x = s[k]
      /\ \A k \in 1 .. Len(s) : s[k] \in ToSet(s) /\ NodeOf(l, s, k) = s[k]
      /\ NodeOf(l, s, 0) = HeadOf(l)
      /\ \A k \in 1 .. Len(s) : PlaceOf(s, s[k]) = k
  <2>1. ListFacts(v, l, s)
    BY ListIs
  <2>2. QED
    BY <2>1 DEF ListFacts
<1>2. w \in ToSet(s) \cup {HeadOf(l)}
  OBVIOUS
<1> HIDE DEF s
<1>3. HeadOf(l) \notin Elements /\ TailOf(l) \notin Elements /\ HeadOf(l) # TailOf(l)
  BY DEF EndsApart, HeadOf, TailOf
<1>4. CASE w = HeadOf(l)
  <2>1. 0 \in 0 .. Len(s)
    BY <1>1
  <2>2. {i \in 1 .. Len(s) : s[i] = w} = {}
    BY <1>1, <1>3, <1>4
  <2>3. PlaceOf(s, w) = 0
    BY <2>2 DEF PlaceOf, SelectInSeq
  <2>4. QED
    BY <1>1, <1>3, <1>4, <2>1, <2>3 DEF s
<1>5. CASE w # HeadOf(l)
  <2>1. PICK j \in 1 .. Len(s) : w = s[j]
    BY <1>1, <1>2, <1>5
  <2>2. j \in 0 .. Len(s) /\ w # TailOf(l)
    BY <1>1, <1>3, <2>1
  <2>3. NodeOf(l, s, j) = w /\ PlaceOf(s, w) = j
    BY <1>1, <2>1
  <2>4. QED
    BY <2>2, <2>3 DEF s
<1>6. QED
  BY <1>4, <1>5

\* What the call r is to what is seen of lists that are linked as v was and w
\* is now.
Called(v, S, w, T, r) ==
  \E l \in Lists :
    /\ Shown(Chains(w), T) = [Shown(Chains(v), S) EXCEPT ![l] = Shown(Chains(w), T)[l]]
    /\ Does(Elements, Shown(Chains(v), S)[l], Shown(Chains(w), T)[l], l, r)

LEMMA CalledIs ==
  ASSUME NEW v, NEW S, NEW w, NEW T, NEW l, NEW s, Changed(v, S, w, T, l, s),
         l \notin T => s = None,
         NEW r, Does(Elements, IF l \in S THEN Forward(v, l) ELSE None, s, l, r)
  PROVE  Called(v, S, w, T, r)
<1>1. Shown(Chains(w), T) = [Shown(Chains(v), S) EXCEPT ![l] = s]
  BY ShownChanges
<1>2. l \in Lists
  BY DEF Changed
<1>3. Shown(Chains(v), S)[l] = IF l \in S THEN Forward(v, l) ELSE None
  BY <1>2 DEF Shown, Chains
<1>4. Shown(Chains(w), T)[l] = s
  BY <1>1, <1>2 DEF Shown
<1>5. QED
  BY <1>1, <1>2, <1>3, <1>4 DEF Called

\* The calls that put an element in, and those that take one out, as they
\* name themselves.
PutCalls(s, l, k, x) ==
  {<<"add", l, k + 1, x>>} \cup (IF k = 0 THEN {<<"pushHead", l, x>>} ELSE {})
                           \cup (IF k = Len(s) THEN {<<"pushTail", l, x>>} ELSE {})
CutCalls(s, l, k) ==
  {<<"remove", l, k>>} \cup (IF k = 1 THEN {<<"popHead", l, s[1]>>} ELSE {})
                       \cup (IF k = Len(s) THEN {<<"popTail", l, s[Len(s)]>>} ELSE {})

LEMMA PutCalled ==
  ASSUME EndsApart, NEW S \in SUBSET Lists, NEW v, Ordered(v, S), NEW l \in S,
         NEW x \in Elements, NEW k \in 0 .. Len(Forward(v, l)), NEW w,
         Changed(v, S, w, S, l, InsertAt(Forward(v, l), k + 1, x)),
         NEW r \in PutCalls(Forward(v, l), l, k, x)
  PROVE  Called(v, S, w, S, r)
<1> DEFINE s == Forward(v, l)
           t == InsertAt(s, k + 1, x)
<1>1. /\ Len(s) \in Nat /\ s # None
      /\ InsertAt(s, 0 + 1, x) = <<x>> \o s /\ InsertAt(s, Len(s) + 1, x) = Append(s, x)
  <2>1. ListFacts(v, l, s)
    BY ListIs
  <2>2. QED
    BY <2>1 DEF ListFacts
<1>2. k \in 0 .. Len(s) /\ k + 1 \in 1 .. Len(s) + 1
  BY <1>1
<1>3. Changed(v, S, w, S, l, t)
  OBVIOUS
<1>4. \/ r = <<"add", l, k + 1, x>>
      \/ k = 0 /\ r = <<"pushHead", l, x>>
      \/ k = Len(s) /\ r = <<"pushTail", l, x>>
  BY DEF PutCalls
<1> HIDE DEF s
<1>5. Does(Elements, s, t, l, r)
  BY <1>1, <1>2, <1>4 DEF Does
<1> HIDE DEF t
<1>6. QED
  BY <1>3, <1>5, CalledIs DEF s

LEMMA CutCalled ==
  ASSUME EndsApart, NEW S \in SUBSET Lists, NEW v, Ordered(v, S), NEW l \in S,
         NEW k \in 1 .. Len(Forward(v, l)), NEW w,
         Changed(v, S, w, S, l, RemoveAt(Forward(v, l), k)),
         NEW r \in CutCalls(Forward(v, l), l, k)
  PROVE  Called(v, S, w, S, r)
<1> DEFINE s == Forward(v, l)
           t == RemoveAt(s, k)
<1>1. Len(s) \in Nat /\ s # None /\ k \in 1 .. Len(s)
  <2>1. ListFacts(v, l, s)
    BY ListIs
  <2>2. QED
    BY <2>1 DEF ListFacts
<1>2. s # <<>>
  BY <1>1
<1>3. Changed(v, S, w, S, l, t)
  OBVIOUS
<1>4. \/ r = <<"remove", l, k>>
      \/ k = 1 /\ r = <<"popHead", l, s[1]>>
      \/ k = Len(s) /\ r = <<"popTail", l, s[Len(s)]>>
  BY DEF CutCalls
<1> HIDE DEF s
<1>5. Does(Elements, s, t, l, r)
  BY <1>1, <1>2, <1>4 DEF Does
<1> HIDE DEF t
<1>6. QED
  BY <1>3, <1>5, CalledIs DEF s

-----------------------------------------------------------------------------
(* The calls of Deque.                                                     *)

\* What the call r is to the sequences I of the lists, which are J after it:
\* the step of Deque in full.
Stepped(V, I, J, r) ==
  \E l \in Lists :
    \/ r = <<"create", l>> /\ ~(I[l] # None) /\ J = [I EXCEPT ![l] = <<>>]
    \/ r = <<"destroy", l>> /\ I[l] # None /\ J = [I EXCEPT ![l] = None]
    \/ r = <<"clear", l>> /\ I[l] # None /\ J = [I EXCEPT ![l] = <<>>]
    \/ /\ r[1] = "popHead" /\ I[l] # None /\ I[l] # <<>>
       /\ r = <<"popHead", l, I[l][1]>> /\ J = [I EXCEPT ![l] = RemoveAt(I[l], 1)]
    \/ /\ r[1] = "popTail" /\ I[l] # None /\ I[l] # <<>>
       /\ r = <<"popTail", l, I[l][Len(I[l])]>> /\ J = [I EXCEPT ![l] = RemoveAt(I[l], Len(I[l]))]
    \/ \E x \in V :
         \/ r = <<"pushHead", l, x>> /\ I[l] # None /\ J = [I EXCEPT ![l] = <<x>> \o I[l]]
         \/ r = <<"pushTail", l, x>> /\ I[l] # None /\ J = [I EXCEPT ![l] = Append(I[l], x)]
    \/ /\ r[1] \in {"add", "remove"} /\ I[l] # None
       /\ \/ \E i \in 1 .. Len(I[l]) + 1, x \in V :
               r = <<"add", l, i, x>> /\ J = [I EXCEPT ![l] = InsertAt(I[l], i, x)]
          \/ \E i \in 1 .. Len(I[l]) :
               r = <<"remove", l, i>> /\ J = [I EXCEPT ![l] = RemoveAt(I[l], i)]

LEMMA SteppedIs ==
  ASSUME NEW V, NEW I, NEW J, NEW r, NEW l \in Lists, NEW s,
         J = [I EXCEPT ![l] = s], Does(V, I[l], s, l, r)
  PROVE  Stepped(V, I, J, r)
<1>1. CASE r = <<"create", l>> /\ I[l] = None /\ s = <<>>
  BY <1>1 DEF Stepped
<1>2. CASE r = <<"destroy", l>> /\ I[l] # None /\ s = None
  BY <1>2 DEF Stepped
<1>3. CASE r = <<"clear", l>> /\ I[l] # None /\ s = <<>>
  BY <1>3 DEF Stepped
<1>4. CASE /\ r = <<"popHead", l, I[l][1]>> /\ I[l] # None /\ I[l] # <<>>
           /\ s = RemoveAt(I[l], 1)
  <2>1. r[1] = "popHead"
    BY <1>4
  <2>2. QED
    BY <1>4, <2>1 DEF Stepped
<1>5. CASE /\ r = <<"popTail", l, I[l][Len(I[l])]>> /\ I[l] # None /\ I[l] # <<>>
           /\ s = RemoveAt(I[l], Len(I[l]))
  <2>1. r[1] = "popTail"
    BY <1>5
  <2>2. QED
    BY <1>5, <2>1 DEF Stepped
<1>6. ASSUME NEW x \in V, r = <<"pushHead", l, x>>, I[l] # None, s = <<x>> \o I[l]
      PROVE  Stepped(V, I, J, r)
  BY <1>6 DEF Stepped
<1>7. ASSUME NEW x \in V, r = <<"pushTail", l, x>>, I[l] # None, s = Append(I[l], x)
      PROVE  Stepped(V, I, J, r)
  BY <1>7 DEF Stepped
<1>8. ASSUME NEW x \in V, NEW k \in 1 .. Len(I[l]) + 1, r = <<"add", l, k, x>>, I[l] # None,
             s = InsertAt(I[l], k, x)
      PROVE  Stepped(V, I, J, r)
  <2>1. r[1] \in {"add", "remove"}
    BY <1>8
  <2>2. QED
    BY <1>8, <2>1 DEF Stepped
<1>9. ASSUME NEW k \in 1 .. Len(I[l]), r = <<"remove", l, k>>, I[l] # None, s = RemoveAt(I[l], k)
      PROVE  Stepped(V, I, J, r)
  <2>1. r[1] \in {"add", "remove"}
    BY <1>9
  <2>2. QED
    BY <1>9, <2>1 DEF Stepped
<1>10. QED
  BY <1>1, <1>2, <1>3, <1>4, <1>5, <1>6, <1>7, <1>8, <1>9 DEF Does

LEMMA CalledStepped ==
  ASSUME NEW v, NEW S, NEW w, NEW T, NEW r, Called(v, S, w, T, r)
  PROVE  Stepped(Elements, Shown(Chains(v), S), Shown(Chains(w), T), r)
<1> DEFINE I == Shown(Chains(v), S)
           J == Shown(Chains(w), T)
<1>1. PICK l \in Lists : J = [I EXCEPT ![l] = J[l]] /\ Does(Elements, I[l], J[l], l, r)
  BY DEF Called
<1> HIDE DEF I, J
<1>2. Stepped(Elements, I, J, r)
  BY <1>1, SteppedIs
<1>3. QED
  BY <1>2 DEF I, J

-----------------------------------------------------------------------------
(* Where an element goes or comes from, by the call that it is for.        *)

\* Element x was put into the list l of v by the call r, w are the links now.
PutBy(v, w, l, x, r) ==
  \E k \in 0 .. Len(Forward(v, l)) : PutAt(v, w, l, k, x) /\ r \in PutCalls(Forward(v, l), l, k, x)

LEMMA PutsBy ==
  ASSUME EndsApart, NEW S \in SUBSET Lists, NEW v, Ordered(v, S), NEW l \in S, NEW x \in Elements
  PROVE  /\ PutBy(v, LinkBefore(v, x, TailOf(l)), l, x, <<"pushTail", l, x>>)
         /\ PutBy(v, LinkAfter(v, x, HeadOf(l)), l, x, <<"pushHead", l, x>>)
<1> DEFINE s == Forward(v, l)
<1>1. Len(s) \in Nat /\ NodeOf(l, s, 0) = HeadOf(l) /\ NodeOf(l, s, Len(s) + 1) = TailOf(l)
  <2>1. ListFacts(v, l, s)
    BY ListIs
  <2>2. QED
    BY <2>1 DEF ListFacts
<1>2. Len(s) \in 0 .. Len(s) /\ 0 \in 0 .. Len(s)
  BY <1>1
<1> HIDE DEF s
<1>3. /\ PutAt(v, LinkBefore(v, x, TailOf(l)), l, Len(s), x)
      /\ PutAt(v, LinkAfter(v, x, HeadOf(l)), l, 0, x)
  BY <1>1 DEF PutAt, s
<1>4. <<"pushTail", l, x>> \in PutCalls(s, l, Len(s), x) /\ <<"pushHead", l, x>> \in PutCalls(s, l, 0, x)
  BY DEF PutCalls
<1>5. QED
  BY <1>2, <1>3, <1>4 DEF PutBy, s

LEMMA PutsNextTo ==
  ASSUME EndsApart, NEW S \in SUBSET Lists, NEW v, Ordered(v, S), NEW l \in S, NEW x \in Elements, NEW w
  PROVE  /\ w \in ToSet(Forward(v, l)) \cup {TailOf(l)} =>
              PutBy(v, LinkBefore(v, x, w), l, x, <<"add", l, PlaceAt(Forward(v, l), l, w), x>>)
         /\ w \in ToSet(Forward(v, l)) \cup {HeadOf(l)} =>
              PutBy(v, LinkAfter(v, x, w), l, x, <<"add", l, PlaceAt(Forward(v, l), l, w) + 1, x>>)
<1> DEFINE s == Forward(v, l)
<1>1. ASSUME w \in ToSet(s) \cup {TailOf(l)}
      PROVE  PutBy(v, LinkBefore(v, x, w), l, x, <<"add", l, PlaceAt(s, l, w), x>>)
  <2>1. PICK k \in 0 .. Len(s) : w = NodeOf(l, s, k + 1) /\ k + 1 = PlaceAt(s, l, w)
    BY <1>1, BeforeIs
  <2> HIDE DEF s
  <2>2. PutAt(v, LinkBefore(v, x, w), l, k, x)
    BY <2>1 DEF PutAt, s
  <2>3. <<"add", l, PlaceAt(s, l, w), x>> \in PutCalls(s, l, k, x)
    BY <2>1 DEF PutCalls
  <2>4. QED
    BY <2>2, <2>3 DEF PutBy, s
<1>2. ASSUME w \in ToSet(s) \cup {HeadOf(l)}
      PROVE  PutBy(v, LinkAfter(v, x, w), l, x, <<"add", l, PlaceAt(s, l, w) + 1, x>>)
  <2>1. PICK k \in 0 .. Len(s) : w = NodeOf(l, s, k) /\ w # TailOf(l) /\ k = PlaceOf(s, w)
    BY <1>2, BehindIs
  <2> HIDE DEF s
  <2>2. PutAt(v, LinkAfter(v, x, w), l, k, x)
    BY <2>1 DEF PutAt, s
  <2>3. <<"add", l, PlaceAt(s, l, w) + 1, x>> \in PutCalls(s, l, k, x)
    BY <2>1 DEF PutCalls, PlaceAt
  <2>4. QED
    BY <2>2, <2>3 DEF PutBy, s
<1>3. QED
  BY <1>1, <1>2

\* Element x was taken out of the list l of v by the call r.
CutBy(v, w, l, x, r) ==
  \E k \in 1 .. Len(Forward(v, l)) :
    x = Forward(v, l)[k] /\ w = Unlink(v, x) /\ r \in CutCalls(Forward(v, l), l, k)

LEMMA CutsBy ==
  ASSUME EndsApart, NEW S \in SUBSET Lists, NEW v, Ordered(v, S), NEW l \in S
  PROVE  /\ \A x \in ToSet(Forward(v, l)) :
              CutBy(v, Unlink(v, x), l, x, <<"remove", l, PlaceOf(Forward(v, l), x)>>)
         /\ v[HeadOf(l)].next # TailOf(l) =>
              LET h == v[HeadOf(l)].next
                  t == v[TailOf(l)].prev
              IN /\ h \in ToSet(Forward(v, l)) /\ CutBy(v, Unlink(v, h), l, h, <<"popHead", l, h>>)
                 /\ t \in ToSet(Forward(v, l)) /\ CutBy(v, Unlink(v, t), l, t, <<"popTail", l, t>>)
<1> DEFINE s == Forward(v, l)
<1>1. /\ Len(s) \in Nat /\ \A k \in 1 .. Len(s) : s[k] \in ToSet(s)
      /\ \A x \in ToSet(s) : \E k \in 1 .. Len(s) : x = s[k]
      /\ \A k \in 1 .. Len(s) : PlaceOf(s, s[k]) = k
      /\ (v[HeadOf(l)].next = TailOf(l)) <=> (s = <<>>)
      /\ s # <<>> => /\ Len(s) \in 1 .. Len(s) /\ 1 \in 1 .. Len(s)
                     /\ v[HeadOf(l)].next = s[1] /\ v[TailOf(l)].prev = s[Len(s)]
  <2>1. ListFacts(v, l, s)
    BY ListIs
  <2>2. QED
    BY <2>1 DEF ListFacts
<1> HIDE DEF s
<1>2. ASSUME NEW x \in ToSet(s)
      PROVE  CutBy(v, Unlink(v, x), l, x, <<"remove", l, PlaceOf(s, x)>>)
  <2>1. PICK k \in 1 .. Len(s) : x = s[k]
    BY <1>1
  <2>2. <<"remove", l, PlaceOf(s, x)>> \in CutCalls(s, l, k)
    BY <1>1, <2>1 DEF CutCalls
  <2>3. QED
    BY <2>1, <2>2 DEF CutBy, s
<1>3. ASSUME v[HeadOf(l)].next # TailOf(l), NEW h, h = v[HeadOf(l)].next, NEW t, t = v[TailOf(l)].prev
      PROVE  /\ h \in ToSet(s) /\ CutBy(v, Unlink(v, h), l, h, <<"popHead", l, h>>)
             /\ t \in ToSet(s) /\ CutBy(v, Unlink(v, t), l, t, <<"popTail", l, t>>)
  <2>1. Len(s) \in 1 .. Len(s) /\ 1 \in 1 .. Len(s) /\ h = s[1] /\ t = s[Len(s)]
    BY <1>1, <1>3
  <2>2. <<"popHead", l, h>> \in CutCalls(s, l, 1) /\ <<"popTail", l, t>> \in CutCalls(s, l, Len(s))
    BY <2>1 DEF CutCalls
  <2>3. QED
    BY <1>1, <2>1, <2>2 DEF CutBy, s
<1>4. QED
  BY <1>2, <1>3 DEF s

-----------------------------------------------------------------------------
(* LinkList.                                                               *)

Headers == [ToClean : BOOLEAN, nitems : Nat]

\* The lists that exist, as m has them, are in order, counted, and of
\* allocated elements a.
LinkedGood(v, m, a) ==
  /\ Ordered(v, Live(m)) /\ a \subseteq Elements /\ m \in [Lists -> {None} \cup Headers]
  /\ \A l \in Live(m) : m[l].nitems = Len(Forward(v, l)) /\ ToSet(Forward(v, l)) \subseteq a

\* A change of one list keeps the others.
LEMMA LinkedKeeps ==
  ASSUME NEW v, NEW m, NEW a, LinkedGood(v, m, a),
         NEW w, NEW n \in [Lists -> {None} \cup Headers],
         NEW b \in SUBSET Elements, NEW l, NEW s, Changed(v, Live(m), w, Live(n), l, s),
         \A r \in Lists \ {l} : n[r] = m[r],
         l \in Live(n) => n[l].nitems = Len(s) /\ ToSet(s) \subseteq b,
         \A r \in Live(m) \ {l} : ToSet(Forward(v, r)) \subseteq b
  PROVE  LinkedGood(w, n, b)
<1>1. Ordered(w, Live(n))
  BY DEF Changed
<1>2. ASSUME NEW r \in Live(n)
      PROVE  n[r].nitems = Len(Forward(w, r)) /\ ToSet(Forward(w, r)) \subseteq b
  <2>1. CASE r = l
    BY <1>2, <2>1 DEF Changed
  <2>2. CASE r # l
    <3>1. r \in Live(m) \ {l} /\ r \in Lists
      BY <1>2, <2>2 DEF Live
    <3>2. Forward(w, r) = Forward(v, r) /\ n[r] = m[r]
      BY <2>2, <3>1 DEF Changed
    <3>3. m[r].nitems = Len(Forward(v, r))
      BY <3>1 DEF LinkedGood
    <3>4. QED
      BY <3>1, <3>2, <3>3
  <2>3. QED
    BY <2>1, <2>2
<1>3. QED
  BY <1>1, <1>2 DEF LinkedGood

\* What adding an element to a list does.
LEMMA LinkedAdds ==
  ASSUME EndsApart, None \notin Headers, NEW v, NEW m, NEW a, LinkedGood(v, m, a),
         NEW l \in Live(m), NEW x \in a, \A r \in Live(m) : x \notin ToSet(Forward(v, r)),
         NEW w, NEW r, PutBy(v, w, l, x, r), NEW n, n = [m EXCEPT ![l].nitems = @ + 1]
  PROVE  LinkedGood(w, n, a) /\ Called(v, Live(m), w, Live(n), r)
<1> DEFINE s == Forward(v, l)
<1>1. /\ Live(m) \in SUBSET Lists /\ Ordered(v, Live(m)) /\ x \in Elements /\ a \in SUBSET Elements
      /\ l \in Lists /\ m[l] \in Headers /\ m[l].nitems = Len(s) /\ ToSet(s) \subseteq a
  BY DEF LinkedGood, Live
<1>2. PICK k \in 0 .. Len(s) : PutAt(v, w, l, k, x) /\ r \in PutCalls(s, l, k, x)
  BY DEF PutBy
<1>3. Changed(v, Live(m), w, Live(m), l, InsertAt(s, k + 1, x))
  BY <1>1, <1>2, Puts
<1>4. Called(v, Live(m), w, Live(m), r)
  BY <1>1, <1>2, <1>3, PutCalled
<1>5. /\ Len(s) \in Nat /\ Len(InsertAt(s, k + 1, x)) = Len(s) + 1
      /\ ToSet(InsertAt(s, k + 1, x)) = ToSet(s) \cup {x}
  <2>1. ListFacts(v, l, s)
    BY <1>1, ListIs
  <2>2. QED
    BY <1>1, <2>1 DEF ListFacts
<1> HIDE DEF s
<1>6. /\ n \in [Lists -> {None} \cup Headers] /\ n[l] \in Headers /\ n[l].nitems = Len(s) + 1
      /\ \A q \in Lists \ {l} : n[q] = m[q]
  <2>1. m \in [Lists -> {None} \cup Headers]
    BY DEF LinkedGood
  <2>2. n = [m EXCEPT ![l] = [m[l] EXCEPT !.nitems = m[l].nitems + 1]]
    OBVIOUS
  <2>3. [m[l] EXCEPT !.nitems = m[l].nitems + 1] \in Headers
    BY <1>1, <1>5 DEF Headers
  <2>4. [m[l] EXCEPT !.nitems = m[l].nitems + 1].nitems = Len(s) + 1
    BY <1>1, <1>5 DEF Headers
  <2>5. QED
    BY <1>1, <2>1, <2>2, <2>3, <2>4
<1>7. Live(n) = Live(m)
  BY <1>1, <1>6 DEF Live
<1>8. \A q \in Live(m) : ToSet(Forward(v, q)) \subseteq a
  BY DEF LinkedGood
<1>9. LinkedGood(w, n, a)
  <2> DEFINE t == InsertAt(s, k + 1, x)
  <2>1. Changed(v, Live(m), w, Live(n), l, t) /\ n[l].nitems = Len(t) /\ ToSet(t) \subseteq a
    BY <1>1, <1>3, <1>5, <1>6, <1>7
  <2> HIDE DEF t
  <2>2. QED
    BY <1>1, <1>6, <1>8, <2>1, LinkedKeeps
<1>10. QED
  BY <1>4, <1>7, <1>9

\* What taking one out does.
LEMMA LinkedTakes ==
  ASSUME EndsApart, None \notin Headers, NEW v, NEW m, NEW a, LinkedGood(v, m, a),
         NEW l \in Live(m), NEW x,
         NEW w, NEW r, CutBy(v, w, l, x, r), NEW n, n = [m EXCEPT ![l].nitems = @ - 1]
  PROVE  LinkedGood(w, n, a) /\ Called(v, Live(m), w, Live(n), r)
<1> DEFINE s == Forward(v, l)
<1>1. /\ Live(m) \in SUBSET Lists /\ Ordered(v, Live(m)) /\ a \in SUBSET Elements
      /\ l \in Lists /\ m[l] \in Headers /\ m[l].nitems = Len(s) /\ ToSet(s) \subseteq a
  BY DEF LinkedGood, Live
<1>2. PICK k \in 1 .. Len(s) : w = Unlink(v, s[k]) /\ r \in CutCalls(s, l, k)
  BY DEF CutBy
<1>3. Changed(v, Live(m), w, Live(m), l, RemoveAt(s, k))
  BY <1>1, <1>2, Cuts
<1>4. Called(v, Live(m), w, Live(m), r)
  BY <1>1, <1>2, <1>3, CutCalled
<1>5. /\ Len(s) \in Nat /\ Len(RemoveAt(s, k)) = Len(s) - 1
      /\ ToSet(RemoveAt(s, k)) = ToSet(s) \ {s[k]}
  <2>1. ListFacts(v, l, s)
    BY <1>1, ListIs
  <2>2. QED
    BY <1>1, <2>1 DEF ListFacts
<1> HIDE DEF s
<1>6. /\ n \in [Lists -> {None} \cup Headers] /\ n[l] \in Headers /\ n[l].nitems = Len(s) - 1
      /\ \A q \in Lists \ {l} : n[q] = m[q]
  <2>1. m \in [Lists -> {None} \cup Headers]
    BY DEF LinkedGood
  <2>2. n = [m EXCEPT ![l] = [m[l] EXCEPT !.nitems = m[l].nitems - 1]]
    OBVIOUS
  <2>3. Len(s) - 1 \in Nat
    BY <1>2, <1>5
  <2>4. [m[l] EXCEPT !.nitems = m[l].nitems - 1] \in Headers
    BY <1>1, <2>3 DEF Headers
  <2>5. [m[l] EXCEPT !.nitems = m[l].nitems - 1].nitems = Len(s) - 1
    BY <1>1, <1>5 DEF Headers
  <2>6. QED
    BY <1>1, <2>1, <2>2, <2>4, <2>5
<1>7. Live(n) = Live(m)
  BY <1>1, <1>6 DEF Live
<1>8. \A q \in Live(m) : ToSet(Forward(v, q)) \subseteq a
  BY DEF LinkedGood
<1>9. LinkedGood(w, n, a)
  BY <1>1, <1>3, <1>5, <1>6, <1>7, <1>8, LinkedKeeps
<1>10. QED
  BY <1>4, <1>7, <1>9

\* What becomes of a list that is constructed or cleared.
LEMMA LinkedEmpties ==
  ASSUME EndsApart, None \notin Headers, NEW v, NEW m, NEW a, LinkedGood(v, m, a), NEW l \in Lists,
         NEW r, \/ r = <<"create", l>> /\ l \notin Live(m)
                \/ r = <<"clear", l>> /\ l \in Live(m),
         NEW n \in [Lists -> {None} \cup Headers], n[l] \in Headers, n[l].nitems = 0,
         \A q \in Lists \ {l} : n[q] = m[q],
         NEW b, b = a \/ (l \in Live(m) /\ b = a \ ToSet(Forward(v, l)))
  PROVE  LinkedGood(EmptyEnds(v, {l}), n, b) /\ Called(v, Live(m), EmptyEnds(v, {l}), Live(n), r)
<1> DEFINE w == EmptyEnds(v, {l})
<1>1. Live(m) \in SUBSET Lists /\ Ordered(v, Live(m)) /\ b \in SUBSET Elements
  BY DEF LinkedGood, Live
<1>2. Live(n) = Live(m) \cup {l}
  BY DEF Live
<1>3. Changed(v, Live(m), w, Live(n), l, <<>>)
  BY <1>1, <1>2, Empties
<1>4. \A q \in Live(m) \ {l} : ToSet(Forward(v, q)) \subseteq b
  <2>1. \A q, p \in Live(m) : q # p => ToSet(Forward(v, q)) \cap ToSet(Forward(v, p)) = {}
    BY <1>1, OrderedIs
  <2>2. \A q \in Live(m) : ToSet(Forward(v, q)) \subseteq a
    BY DEF LinkedGood
  <2>3. QED
    BY <2>1, <2>2
<1> HIDE DEF w
<1>5. Len(<<>>) = 0 /\ ToSet(<<>>) \subseteq b
  BY DEF ToSet
<1>6. LinkedGood(w, n, b)
  BY <1>1, <1>2, <1>3, <1>4, <1>5, LinkedKeeps
<1>7. Does(Elements, IF l \in Live(m) THEN Forward(v, l) ELSE None, <<>>, l, r)
  <2>1. l \in Live(m) => Forward(v, l) # None
    <3>1. l \in Live(m) => ListFacts(v, l, Forward(v, l))
      BY <1>1, ListIs
    <3>2. QED
      BY <3>1 DEF ListFacts
  <2>2. QED
    BY <2>1 DEF Does
<1>8. Called(v, Live(m), w, Live(n), r)
  BY <1>2, <1>3, <1>7, CalledIs
<1>9. QED
  BY <1>6, <1>8 DEF w

\* What becomes of one that is destroyed.
LEMMA LinkedLeaves ==
  ASSUME EndsApart, NEW v, NEW m, NEW a, LinkedGood(v, m, a), NEW l \in Live(m),
         NEW n, n = [m EXCEPT ![l] = None], NEW b, b = a \/ b = a \ ToSet(Forward(v, l))
  PROVE  LinkedGood(v, n, b) /\ Called(v, Live(m), v, Live(n), <<"destroy", l>>)
<1>1. /\ Live(m) \in SUBSET Lists /\ Ordered(v, Live(m)) /\ b \in SUBSET Elements /\ l \in Lists
      /\ m \in [Lists -> {None} \cup Headers]
  BY DEF LinkedGood, Live
<1>2. /\ n \in [Lists -> {None} \cup Headers] /\ Live(n) = Live(m) \ {l}
      /\ \A q \in Lists \ {l} : n[q] = m[q]
  BY <1>1 DEF Live
<1>3. Changed(v, Live(m), v, Live(n), l, None)
  <2>1. Changed(v, Live(m), v, Live(m) \ {l}, l, None)
    BY <1>1, Leaves
  <2>2. QED
    BY <1>2, <2>1
<1>4. \A q \in Live(m) \ {l} : ToSet(Forward(v, q)) \subseteq b
  <2>1. \A q, p \in Live(m) : q # p => ToSet(Forward(v, q)) \cap ToSet(Forward(v, p)) = {}
    BY <1>1, OrderedIs
  <2>2. \A q \in Live(m) : ToSet(Forward(v, q)) \subseteq a
    BY DEF LinkedGood
  <2>3. QED
    BY <2>1, <2>2
<1>5. l \notin Live(n)
  BY <1>2
<1>6. LinkedGood(v, n, b)
  BY <1>1, <1>2, <1>3, <1>4, <1>5, LinkedKeeps
<1>7. Does(Elements, IF l \in Live(m) THEN Forward(v, l) ELSE None, None, l, <<"destroy", l>>)
  <2>1. Forward(v, l) # None
    <3>1. ListFacts(v, l, Forward(v, l))
      BY <1>1, ListIs
    <3>2. QED
      BY <3>1 DEF ListFacts
  <2>2. QED
    BY <2>1 DEF Does
<1>8. Called(v, Live(m), v, Live(n), <<"destroy", l>>)
  BY <1>3, <1>7, CalledIs
<1>9. QED
  BY <1>6, <1>8

\* What is to be seen of lists in that order.
LEMMA LinkedShows ==
  ASSUME EndsApart, NEW v, NEW m, NEW a, LinkedGood(v, m, a), NEW l \in Live(m)
  PROVE  /\ Backward(v, l) = Reverse(Forward(v, l)) /\ m[l].nitems = Len(Forward(v, l))
         /\ ToSet(Forward(v, l)) \subseteq a
         /\ \A r \in Live(m) \ {l} : ToSet(Forward(v, l)) \cap ToSet(Forward(v, r)) = {}
         /\ m[l].ToClean \in BOOLEAN /\ v[HeadOf(l)].prev = None /\ v[TailOf(l)].next = None
<1>1. Live(m) \in SUBSET Lists /\ Ordered(v, Live(m))
  BY DEF LinkedGood, Live
<1>2. ListFacts(v, l, Forward(v, l))
  BY <1>1, ListIs
<1>3. \A r \in Live(m) : l # r => ToSet(Forward(v, l)) \cap ToSet(Forward(v, r)) = {}
  BY <1>1, OrderedIs
<1>4. m[l].ToClean \in BOOLEAN
  <2>1. m[l] \in Headers
    BY DEF LinkedGood, Live
  <2>2. QED
    BY <2>1 DEF Headers
<1>5. QED
  BY <1>2, <1>3, <1>4 DEF LinkedGood, ListFacts

-----------------------------------------------------------------------------
(* SimpleLinkList.                                                         *)

\* The values of items that f has.
Mapped(f, s) == [i \in DOMAIN s |-> f[s[i]]]
Items(f, v, S) == [l \in Lists |-> IF l \in S THEN Mapped(f, Forward(v, l)) ELSE None]

Valued(f, s, V) == \A x \in ToSet(s) : f[x] \in V

LEMMA MappedIs ==
  ASSUME NEW E, NEW s \in Seq(E), NEW V, NEW f, Valued(f, s, V)
  PROVE  /\ Mapped(f, s) \in Seq(V) /\ Len(Mapped(f, s)) = Len(s)
         /\ \A i \in 1 .. Len(s) : Mapped(f, s)[i] = f[s[i]]
<1>1. Len(s) \in Nat /\ DOMAIN s = 1 .. Len(s)
  OBVIOUS
<1>2. \A i \in 1 .. Len(s) : f[s[i]] \in V
  BY <1>1 DEF ToSet, Valued
<1>3. Mapped(f, s) = [i \in 1 .. Len(s) |-> f[s[i]]]
  BY <1>1 DEF Mapped
<1>4. QED
  BY <1>1, <1>2, <1>3

\* f and g have the same values of the items s.
Alike(f, g, s) == \A x \in ToSet(s) : g[x] = f[x]

\* An item put in is its value put in, and an item taken out likewise.
LEMMA MappedPut ==
  ASSUME NEW E, NEW s \in Seq(E), NEW V, NEW f, Valued(f, s, V),
         NEW j \in 1 .. Len(s) + 1, NEW x \in E, x \notin ToSet(s), NEW y \in V,
         NEW g, g[x] = y, Alike(f, g, s)
  PROVE  Mapped(g, InsertAt(s, j, x)) = InsertAt(Mapped(f, s), j, y)
<1> DEFINE m == Mapped(f, s)
<1>1. m \in Seq(V) /\ Len(m) = Len(s) /\ \A i \in 1 .. Len(s) : m[i] = f[s[i]]
  BY MappedIs
<1>2. Len(s) \in Nat /\ \A i \in 1 .. Len(s) : s[i] \in ToSet(s) /\ g[s[i]] = f[s[i]]
  BY DEF ToSet, Alike
<1> HIDE DEF m
<1>4. /\ InsertAt(s, j, x) \in Seq(E) /\ Len(InsertAt(s, j, x)) = Len(s) + 1
      /\ \A i \in 1 .. Len(s) + 1 :
           InsertAt(s, j, x)[i] = IF i < j THEN s[i] ELSE IF i = j THEN x ELSE s[i - 1]
  BY InsertAtIs
<1>5. /\ InsertAt(m, j, y) \in Seq(V) /\ Len(InsertAt(m, j, y)) = Len(s) + 1
      /\ \A i \in 1 .. Len(s) + 1 :
           InsertAt(m, j, y)[i] = IF i < j THEN m[i] ELSE IF i = j THEN y ELSE m[i - 1]
  <2>1. j \in 1 .. Len(m) + 1
    BY <1>1
  <2>2. QED
    BY <1>1, <2>1, InsertAtIs
<1> DEFINE a == InsertAt(s, j, x)
           b == InsertAt(m, j, y)
<1>6. a \in Seq(E) /\ Len(a) = Len(s) + 1 /\ b \in Seq(V) /\ Len(b) = Len(s) + 1
  BY <1>4, <1>5
<1>7. ASSUME NEW i \in 1 .. Len(s) + 1
      PROVE  g[a[i]] = b[i]
  <2>1. CASE i < j
    <3>1. i \in 1 .. Len(s)
      BY <1>2, <2>1
    <3>2. QED
      BY <1>1, <1>2, <1>4, <1>5, <2>1, <3>1
  <2>2. CASE i = j
    BY <1>4, <1>5, <2>2
  <2>3. CASE i > j
    <3>1. i - 1 \in 1 .. Len(s)
      BY <1>2, <2>3
    <3>2. a[i] = s[i - 1] /\ b[i] = m[i - 1]
      BY <1>2, <1>4, <1>5, <2>3
    <3>3. QED
      BY <1>1, <1>2, <3>1, <3>2
  <2>4. QED
    BY <1>2, <2>1, <2>2, <2>3
<1> HIDE DEF a, b
<1>8. Mapped(g, a) = [i \in 1 .. Len(s) + 1 |-> g[a[i]]] /\ b = [i \in 1 .. Len(s) + 1 |-> b[i]]
  BY <1>2, <1>6 DEF Mapped
<1>9. Mapped(g, a) = b
  BY <1>7, <1>8
<1>10. QED
  BY <1>9 DEF a, b, m

\* g is f but for the value y of x.
Written(f, g, x, y) == g = [f EXCEPT ![x] = y]

LEMMA MappedWrite ==
  ASSUME NEW E, NEW s \in Seq(E), NEW V, NEW f, Valued(f, s, V), DOMAIN f = E,
         NEW k \in 0 .. Len(s), NEW x \in E, x \notin ToSet(s), NEW y \in V, NEW g, Written(f, g, x, y)
  PROVE  Mapped(g, InsertAt(s, k + 1, x)) = InsertAt(Mapped(f, s), k + 1, y)
<1>1. g[x] = y /\ Alike(f, g, s)
  BY DEF Alike, Written
<1>2. PICK j \in 1 .. Len(s) + 1 : j = k + 1
  OBVIOUS
<1>3. Mapped(g, InsertAt(s, j, x)) = InsertAt(Mapped(f, s), j, y)
  BY <1>1, MappedPut
<1>4. QED
  BY <1>2, <1>3

LEMMA MappedCut ==
  ASSUME NEW E, NEW s \in Seq(E), NEW V, NEW f, Valued(f, s, V), NEW k \in 1 .. Len(s)
  PROVE  Mapped(f, RemoveAt(s, k)) = RemoveAt(Mapped(f, s), k)
<1> DEFINE m == Mapped(f, s)
<1>1. m \in Seq(V) /\ Len(m) = Len(s) /\ \A i \in 1 .. Len(s) : m[i] = f[s[i]]
  BY MappedIs
<1>2. Len(s) \in Nat
  OBVIOUS
<1> HIDE DEF m
<1> DEFINE a == RemoveAt(s, k)
           b == RemoveAt(m, k)
<1>3. /\ a \in Seq(E) /\ Len(a) = Len(s) - 1
      /\ \A i \in 1 .. Len(s) - 1 : a[i] = IF i < k THEN s[i] ELSE s[i + 1]
  BY RemoveAtIs
<1>4. /\ b \in Seq(V) /\ Len(b) = Len(s) - 1
      /\ \A i \in 1 .. Len(s) - 1 : b[i] = IF i < k THEN m[i] ELSE m[i + 1]
  <2>1. k \in 1 .. Len(m)
    BY <1>1
  <2>2. QED
    BY <1>1, <2>1, RemoveAtIs
<1> HIDE DEF a, b
<1>5. ASSUME NEW i \in 1 .. Len(s) - 1
      PROVE  f[a[i]] = b[i]
  <2>1. i \in 1 .. Len(s) /\ i + 1 \in 1 .. Len(s)
    BY <1>2
  <2>2. CASE i < k
    BY <1>1, <1>3, <1>4, <2>1, <2>2
  <2>3. CASE ~(i < k)
    BY <1>1, <1>3, <1>4, <2>1, <2>3
  <2>4. QED
    BY <2>2, <2>3
<1>6. Mapped(f, a) = [i \in 1 .. Len(s) - 1 |-> f[a[i]]] /\ b = [i \in 1 .. Len(s) - 1 |-> b[i]]
  BY <1>2, <1>3, <1>4 DEF Mapped
<1>7. Mapped(f, a) = b
  BY <1>5, <1>6
<1>8. QED
  BY <1>7 DEF a, b, m

\* What the calls do, by the place where they do it.
LEMMA PutDoes ==
  ASSUME NEW V, NEW q \in Seq(V), q # None, NEW l, NEW y \in V, NEW k \in 0 .. Len(q),
         NEW r \in PutCalls(q, l, k, y)
  PROVE  Does(V, q, InsertAt(q, k + 1, y), l, r)
<1>1. InsertAt(q, 0 + 1, y) = <<y>> \o q /\ InsertAt(q, Len(q) + 1, y) = Append(q, y)
  BY InsertEnds
<1>2. k + 1 \in 1 .. Len(q) + 1
  <2>1. Len(q) \in Nat
    OBVIOUS
  <2>2. QED
    BY <2>1
<1>3. \/ r = <<"add", l, k + 1, y>>
      \/ k = 0 /\ r = <<"pushHead", l, y>>
      \/ k = Len(q) /\ r = <<"pushTail", l, y>>
  BY DEF PutCalls
<1>4. QED
  BY <1>1, <1>2, <1>3 DEF Does

LEMMA CutDoes ==
  ASSUME NEW V, NEW q \in Seq(V), q # None, NEW l, NEW k \in 1 .. Len(q), NEW r \in CutCalls(q, l, k)
  PROVE  Does(V, q, RemoveAt(q, k), l, r)
<1>1. q # <<>>
  OBVIOUS
<1>2. \/ r = <<"remove", l, k>>
      \/ k = 1 /\ r = <<"popHead", l, q[1]>>
      \/ k = Len(q) /\ r = <<"popTail", l, q[Len(q)]>>
  BY DEF CutCalls
<1>3. QED
  BY <1>1, <1>2 DEF Does

\* A change of one list, of items g that had f before, is a step of the values.
LEMMA ItemsStepped ==
  ASSUME NEW V, NEW v, NEW S, NEW w, NEW T, NEW l, NEW s, Changed(v, S, w, T, l, s),
         NEW f, NEW g, \A q \in S \ {l} : Mapped(g, Forward(v, q)) = Mapped(f, Forward(v, q)),
         NEW t, t = IF l \in T THEN Mapped(g, s) ELSE None,
         NEW r, Does(V, IF l \in S THEN Mapped(f, Forward(v, l)) ELSE None, t, l, r)
  PROVE  Stepped(V, Items(f, v, S), Items(g, w, T), r)
<1> DEFINE I == Items(f, v, S)
           J == Items(g, w, T)
<1>1. l \in Lists /\ I[l] = IF l \in S THEN Mapped(f, Forward(v, l)) ELSE None
  BY DEF Changed, Items
<1>2. J = [I EXCEPT ![l] = t]
  <2>1. \A q \in Lists \ {l} : J[q] = I[q]
    BY DEF Changed, Items
  <2>2. J[l] = t
    BY <1>1 DEF Changed, Items
  <2>3. QED
    BY <1>1, <2>1, <2>2 DEF Items
<1>3. Does(V, I[l], t, l, r)
  BY <1>1
<1> HIDE DEF I, J
<1>4. Stepped(V, I, J, r)
  BY <1>1, <1>2, <1>3, SteppedIs
<1>5. QED
  BY <1>4 DEF I, J

\* The elements of the lists S other than l.
Others(v, S, l) == UNION {ToSet(Forward(v, r)) : r \in S \ {l}}

\* The lists that exist, as c counts them, are in order, and the items
\* allocated are those of the lists and have values.
SimpleGood(V, v, c, f, a) ==
  /\ Ordered(v, Live(c)) /\ a \subseteq Elements /\ c \in [Lists -> {None} \cup Nat]
  /\ \A l \in Live(c) : c[l] = Len(Forward(v, l))
  /\ a = UNION {ToSet(Forward(v, l)) : l \in Live(c)}
  /\ DOMAIN f = Elements /\ \A x \in a : f[x] \in V

LEMMA OthersAre ==
  ASSUME EndsApart, NEW V, NEW v, NEW c, NEW f, NEW a, SimpleGood(V, v, c, f, a), NEW l
  PROVE  /\ l \notin Live(c) => a = Others(v, Live(c), l)
         /\ l \in Live(c) => /\ a = Others(v, Live(c), l) \cup ToSet(Forward(v, l))
                             /\ Others(v, Live(c), l) \cap ToSet(Forward(v, l)) = {}
<1>1. Live(c) \in SUBSET Lists
  BY DEF Live
<1>2. \A q, p \in Live(c) : q # p => ToSet(Forward(v, q)) \cap ToSet(Forward(v, p)) = {}
  BY <1>1, OrderedIs DEF SimpleGood
<1>3. a = UNION {ToSet(Forward(v, q)) : q \in Live(c)}
  BY DEF SimpleGood
<1>4. QED
  BY <1>2, <1>3 DEF Others

\* A change of one list keeps the others.
LEMMA SimpleKeeps ==
  ASSUME EndsApart, NEW V, NEW v, NEW c, NEW f, NEW a, SimpleGood(V, v, c, f, a),
         NEW w, NEW d \in [Lists -> {None} \cup Nat], NEW g, NEW b \in SUBSET Elements,
         NEW l, NEW s, Changed(v, Live(c), w, Live(d), l, s),
         \A r \in Lists \ {l} : d[r] = c[r], l \in Live(d) => d[l] = Len(s),
         b = Others(v, Live(c), l) \cup (IF l \in Live(d) THEN ToSet(s) ELSE {}),
         DOMAIN g = Elements, \A x \in b : g[x] \in V
  PROVE  SimpleGood(V, w, d, g, b)
<1>1. Ordered(w, Live(d)) /\ Live(c) \ {l} = Live(d) \ {l}
  BY DEF Changed
<1>2. ASSUME NEW r \in Live(d)
      PROVE  d[r] = Len(Forward(w, r))
  <2>1. CASE r = l
    BY <1>2, <2>1 DEF Changed
  <2>2. CASE r # l
    <3>1. r \in Live(c) \ {l} /\ r \in Lists
      BY <1>2, <2>2 DEF Live
    <3>2. Forward(w, r) = Forward(v, r) /\ d[r] = c[r] /\ c[r] = Len(Forward(v, r))
      BY <3>1 DEF Changed, SimpleGood
    <3>3. QED
      BY <3>2
  <2>3. QED
    BY <2>1, <2>2
<1>3. \A r \in Live(d) : Forward(w, r) = IF r = l THEN s ELSE Forward(v, r)
  BY <1>1 DEF Changed
<1>4. b = UNION {ToSet(Forward(w, r)) : r \in Live(d)}
  <2>1. \A x \in b : \E r \in Live(d) : x \in ToSet(Forward(w, r))
    BY <1>1, <1>3 DEF Others
  <2>2. \A r \in Live(d) : \A x \in ToSet(Forward(w, r)) : x \in b
    <3>1. ASSUME NEW r \in Live(d), NEW x \in ToSet(Forward(w, r))
          PROVE  x \in b
      <4>1. CASE r = l
        BY <1>3, <3>1, <4>1
      <4>2. CASE r # l
        <5>1. r \in Live(c) \ {l} /\ x \in ToSet(Forward(v, r))
          BY <1>1, <1>3, <3>1, <4>2
        <5>2. QED
          BY <5>1 DEF Others
      <4>3. QED
        BY <4>1, <4>2
    <3>2. QED
      BY <3>1
  <2>3. QED
    BY <2>1, <2>2
<1>5. QED
  BY <1>1, <1>2, <1>4 DEF SimpleGood

\* What is known of one of the lists.
LEMMA SimpleListIs ==
  ASSUME EndsApart, NEW V, None \notin Seq(V), NEW v, NEW c, NEW f, NEW a, SimpleGood(V, v, c, f, a),
         NEW l \in Live(c), NEW s, s = Forward(v, l)
  PROVE  /\ Live(c) \in SUBSET Lists /\ Ordered(v, Live(c)) /\ l \in Lists /\ ListFacts(v, l, s)
         /\ ToSet(s) \subseteq a /\ Valued(f, s, V)
         /\ s \in Seq(Elements) /\ Len(s) \in Nat
         /\ Mapped(f, s) \in Seq(V) /\ Len(Mapped(f, s)) = Len(s) /\ Mapped(f, s) # None
         /\ \A i \in 1 .. Len(s) : Mapped(f, s)[i] = f[s[i]]
<1>1. Live(c) \in SUBSET Lists /\ Ordered(v, Live(c)) /\ l \in Lists
  BY DEF Live, SimpleGood
<1>2. ListFacts(v, l, s)
  BY <1>1, ListIs
<1>3. s \in Seq(Elements) /\ Len(s) \in Nat
  BY <1>2 DEF ListFacts
<1>4. ToSet(s) \subseteq a /\ Valued(f, s, V)
  <2>1. ToSet(s) \subseteq a
    BY OthersAre
  <2>2. QED
    BY <2>1 DEF SimpleGood, Valued
<1>5. /\ Mapped(f, s) \in Seq(V) /\ Len(Mapped(f, s)) = Len(s)
      /\ \A i \in 1 .. Len(s) : Mapped(f, s)[i] = f[s[i]]
  BY <1>3, <1>4, MappedIs
<1>6. QED
  BY <1>1, <1>2, <1>3, <1>4, <1>5

\* What adding an item to a list does.
LEMMA SimpleAdds ==
  ASSUME EndsApart, NEW V, None \notin Seq(V), None \notin Nat,
         NEW v, NEW c, NEW f, NEW a, SimpleGood(V, v, c, f, a),
         NEW l \in Live(c), NEW x \in Elements \ a, NEW y \in V,
         NEW w, NEW r, \/ w = LinkBefore(v, x, TailOf(l)) /\ r = <<"pushTail", l, y>>
                       \/ w = LinkAfter(v, x, HeadOf(l)) /\ r = <<"pushHead", l, y>>,
         NEW d, d = [c EXCEPT ![l] = @ + 1], NEW g, Written(f, g, x, y)
  PROVE  /\ SimpleGood(V, w, d, g, a \cup {x})
         /\ Stepped(V, Items(f, v, Live(c)), Items(g, w, Live(d)), r)
<1> DEFINE s == Forward(v, l)
           S == Live(c)
<1>1. /\ S \in SUBSET Lists /\ Ordered(v, S) /\ l \in Lists /\ ListFacts(v, l, s)
      /\ ToSet(s) \subseteq a /\ Valued(f, s, V)
      /\ s \in Seq(Elements) /\ Len(s) \in Nat
      /\ Mapped(f, s) \in Seq(V) /\ Len(Mapped(f, s)) = Len(s) /\ Mapped(f, s) # None
  BY SimpleListIs
<1>2. \A q \in S : ToSet(Forward(v, q)) \subseteq a
  BY DEF SimpleGood
<1>3. PICK k \in 0 .. Len(s) : PutAt(v, w, l, k, x) /\ r \in PutCalls(s, l, k, y)
  <2>1. NodeOf(l, s, 0) = HeadOf(l) /\ NodeOf(l, s, Len(s) + 1) = TailOf(l)
    BY <1>1 DEF ListFacts
  <2>2. CASE w = LinkBefore(v, x, TailOf(l)) /\ r = <<"pushTail", l, y>>
    <3>1. PutAt(v, w, l, Len(s), x)
      BY <2>1, <2>2 DEF PutAt
    <3>2. r \in PutCalls(s, l, Len(s), y) /\ Len(s) \in 0 .. Len(s)
      BY <1>1, <2>2 DEF PutCalls
    <3>3. QED
      BY <3>1, <3>2
  <2>3. CASE w = LinkAfter(v, x, HeadOf(l)) /\ r = <<"pushHead", l, y>>
    <3>1. PutAt(v, w, l, 0, x)
      BY <2>1, <2>3 DEF PutAt
    <3>2. r \in PutCalls(s, l, 0, y) /\ 0 \in 0 .. Len(s)
      BY <1>1, <2>3 DEF PutCalls
    <3>3. QED
      BY <3>1, <3>2
  <2>4. QED
    BY <2>2, <2>3
<1> DEFINE t == InsertAt(s, k + 1, x)
<1>4. Changed(v, S, w, S, l, t)
  BY <1>1, <1>2, <1>3, Puts
<1>5. Len(t) = Len(s) + 1 /\ ToSet(t) = ToSet(s) \cup {x}
  BY <1>1 DEF ListFacts
<1>6. Mapped(g, t) = InsertAt(Mapped(f, s), k + 1, y)
  <2>1. DOMAIN f = Elements /\ x \in Elements /\ x \notin ToSet(s)
    BY <1>1 DEF SimpleGood
  <2> HIDE DEF s, S
  <2>2. QED
    BY <1>1, <2>1, MappedWrite
<1> HIDE DEF s, t
<1>7. /\ c \in [Lists -> {None} \cup Nat] /\ c[l] = Len(s) /\ d \in [Lists -> {None} \cup Nat]
      /\ d[l] = Len(s) + 1 /\ \A q \in Lists \ {l} : d[q] = c[q]
  <2>1. c \in [Lists -> {None} \cup Nat] /\ c[l] = Len(s)
    BY DEF SimpleGood, s
  <2>2. QED
    BY <1>1, <2>1
<1>8. Live(d) = S
  BY <1>1, <1>7 DEF Live
<1>9. SimpleGood(V, w, d, g, a \cup {x})
  <2>1. a = Others(v, S, l) \cup ToSet(s)
    BY OthersAre DEF s
  <2>2. a \cup {x} = Others(v, S, l) \cup (IF l \in Live(d) THEN ToSet(t) ELSE {})
    BY <1>5, <1>8, <2>1
  <2>3. DOMAIN g = Elements /\ (\A z \in a \cup {x} : g[z] \in V) /\ a \cup {x} \in SUBSET Elements
    BY DEF SimpleGood, Written
  <2>4. Changed(v, Live(c), w, Live(d), l, t) /\ d[l] = Len(t)
    BY <1>4, <1>5, <1>7, <1>8
  <2>5. QED
    BY <1>7, <2>2, <2>3, <2>4, SimpleKeeps
<1>10. Does(V, Mapped(f, s), Mapped(g, t), l, r)
  <2>1. k \in 0 .. Len(Mapped(f, s)) /\ r \in PutCalls(Mapped(f, s), l, k, y)
    BY <1>1, <1>3 DEF PutCalls
  <2>2. Does(V, Mapped(f, s), InsertAt(Mapped(f, s), k + 1, y), l, r)
    BY <1>1, <2>1, PutDoes
  <2>3. QED
    BY <1>6, <2>2
<1>11. \A q \in S \ {l} : Mapped(g, Forward(v, q)) = Mapped(f, Forward(v, q))
  <2>1. ASSUME NEW q \in S \ {l}, NEW i \in DOMAIN Forward(v, q)
        PROVE  g[Forward(v, q)[i]] = f[Forward(v, q)[i]]
    <3>1. Forward(v, q)[i] \in a
      BY <1>2 DEF ToSet
    <3>2. QED
      BY <3>1 DEF SimpleGood, Written
  <2>2. QED
    BY <2>1 DEF Mapped
<1>12. Stepped(V, Items(f, v, S), Items(g, w, S), r)
  <2>1. Does(V, IF l \in S THEN Mapped(f, Forward(v, l)) ELSE None, Mapped(g, t), l, r)
    BY <1>10 DEF s
  <2> DEFINE e == Mapped(g, t)
  <2>2. e = IF l \in S THEN Mapped(g, t) ELSE None
    OBVIOUS
  <2> HIDE DEF S
  <2>3. QED
    BY <1>4, <1>11, <2>1, <2>2, ItemsStepped
<1>13. QED
  BY <1>8, <1>9, <1>12

\* The call r takes x out.
TakenBy(v, f, l, x, r) ==
  \/ x \in ToSet(Forward(v, l)) /\ r = <<"remove", l, PlaceOf(Forward(v, l), x)>>
  \/ /\ v[HeadOf(l)].next # TailOf(l)
     /\ \/ x = v[TailOf(l)].prev /\ r = <<"popTail", l, f[x]>>
        \/ x = v[HeadOf(l)].next /\ r = <<"popHead", l, f[x]>>

\* The list l counts one less.
Less(c, l) == [c EXCEPT ![l] = @ - 1]

\* What taking one out does.
LEMMA SimpleTakes ==
  ASSUME EndsApart, NEW V, None \notin Seq(V), None \notin Nat,
         NEW v, NEW c, NEW f, NEW a, SimpleGood(V, v, c, f, a),
         NEW l \in Live(c), NEW x,
         NEW r, TakenBy(v, f, l, x, r),
         NEW w, w = Unlink(v, x), NEW d, d = Less(c, l)
  PROVE  /\ SimpleGood(V, w, d, f, a \ {x})
         /\ Stepped(V, Items(f, v, Live(c)), Items(f, w, Live(d)), r)
<1> DEFINE s == Forward(v, l)
           S == Live(c)
<1>1. /\ S \in SUBSET Lists /\ Ordered(v, S) /\ l \in Lists /\ ListFacts(v, l, s)
      /\ ToSet(s) \subseteq a /\ Valued(f, s, V)
      /\ s \in Seq(Elements) /\ Len(s) \in Nat
      /\ Mapped(f, s) \in Seq(V) /\ Len(Mapped(f, s)) = Len(s) /\ Mapped(f, s) # None
      /\ \A i \in 1 .. Len(s) : Mapped(f, s)[i] = f[s[i]]
  BY SimpleListIs
<1>2. PICK k \in 1 .. Len(s) : x = s[k] /\ r \in CutCalls(Mapped(f, s), l, k)
  <2>1. /\ \A z \in ToSet(s) : \E k \in 1 .. Len(s) : z = s[k]
        /\ \A k \in 1 .. Len(s) : PlaceOf(s, s[k]) = k
        /\ v[HeadOf(l)].next # TailOf(l) => /\ Len(s) \in 1 .. Len(s) /\ 1 \in 1 .. Len(s)
                                            /\ v[HeadOf(l)].next = s[1] /\ v[TailOf(l)].prev = s[Len(s)]
    BY <1>1 DEF ListFacts
  <2> HIDE DEF s
  <2>2. CASE x \in ToSet(s) /\ r = <<"remove", l, PlaceOf(s, x)>>
    <3>1. PICK k \in 1 .. Len(s) : x = s[k]
      BY <2>1, <2>2
    <3>2. r = <<"remove", l, k>>
      BY <2>1, <2>2, <3>1
    <3>3. QED
      BY <3>1, <3>2 DEF CutCalls
  <2>3. CASE /\ v[HeadOf(l)].next # TailOf(l)
             /\ x = v[TailOf(l)].prev /\ r = <<"popTail", l, f[x]>>
    <3>1. Len(s) \in 1 .. Len(s) /\ x = s[Len(s)] /\ f[x] = Mapped(f, s)[Len(s)]
      BY <1>1, <2>1, <2>3
    <3>2. r \in CutCalls(Mapped(f, s), l, Len(s))
      BY <1>1, <2>3, <3>1 DEF CutCalls
    <3>3. QED
      BY <3>1, <3>2
  <2>4. CASE /\ v[HeadOf(l)].next # TailOf(l)
             /\ x = v[HeadOf(l)].next /\ r = <<"popHead", l, f[x]>>
    <3>1. 1 \in 1 .. Len(s) /\ x = s[1] /\ f[x] = Mapped(f, s)[1]
      BY <1>1, <2>1, <2>4
    <3>2. r \in CutCalls(Mapped(f, s), l, 1)
      BY <1>1, <2>4, <3>1 DEF CutCalls
    <3>3. QED
      BY <3>1, <3>2
  <2>5. QED
    BY <2>2, <2>3, <2>4 DEF TakenBy, s
<1> DEFINE t == RemoveAt(s, k)
<1>3. Changed(v, S, w, S, l, t)
  BY <1>1, <1>2, Cuts
<1>4. Len(t) = Len(s) - 1 /\ ToSet(t) = ToSet(s) \ {x}
  BY <1>1, <1>2 DEF ListFacts
<1> HIDE DEF s
<1>5. Mapped(f, t) = RemoveAt(Mapped(f, s), k)
  BY <1>1, MappedCut
<1> HIDE DEF t
<1>6. /\ c \in [Lists -> {None} \cup Nat] /\ c[l] = Len(s) /\ d \in [Lists -> {None} \cup Nat]
      /\ d[l] = Len(s) - 1 /\ d[l] \in Nat /\ \A q \in Lists \ {l} : d[q] = c[q]
  <2>1. c \in [Lists -> {None} \cup Nat] /\ c[l] = Len(s)
    BY DEF SimpleGood, s
  <2>2. Len(s) - 1 \in Nat
    BY <1>1, <1>2
  <2>3. QED
    BY <1>1, <2>1, <2>2 DEF Less
<1>7. Live(d) = S
  BY <1>1, <1>6 DEF Live
<1>8. SimpleGood(V, w, d, f, a \ {x})
  <2>1. a = Others(v, S, l) \cup ToSet(s) /\ Others(v, S, l) \cap ToSet(s) = {}
    BY OthersAre DEF s
  <2>2. x \in ToSet(s)
    BY <1>2 DEF ToSet
  <2>3. a \ {x} = Others(v, S, l) \cup (IF l \in Live(d) THEN ToSet(t) ELSE {})
    BY <1>4, <1>7, <2>1, <2>2
  <2>4. DOMAIN f = Elements /\ (\A z \in a \ {x} : f[z] \in V) /\ a \ {x} \in SUBSET Elements
    BY DEF SimpleGood
  <2>5. Changed(v, Live(c), w, Live(d), l, t) /\ d[l] = Len(t)
    BY <1>3, <1>4, <1>6, <1>7
  <2>6. QED
    BY <1>6, <2>3, <2>4, <2>5, SimpleKeeps
<1>9. Does(V, Mapped(f, s), Mapped(f, t), l, r)
  <2>1. k \in 1 .. Len(Mapped(f, s))
    BY <1>1, <1>2
  <2>2. Does(V, Mapped(f, s), RemoveAt(Mapped(f, s), k), l, r)
    BY <1>1, <1>2, <2>1, CutDoes
  <2>3. QED
    BY <1>5, <2>2
<1>10. Stepped(V, Items(f, v, S), Items(f, w, S), r)
  <2>1. Does(V, IF l \in S THEN Mapped(f, Forward(v, l)) ELSE None, Mapped(f, t), l, r)
    BY <1>9 DEF s
  <2> DEFINE e == Mapped(f, t)
  <2>2. e = IF l \in S THEN Mapped(f, t) ELSE None
    OBVIOUS
  <2> HIDE DEF S
  <2>3. QED
    BY <1>3, <2>1, <2>2, ItemsStepped
<1>11. QED
  BY <1>7, <1>8, <1>10

\* What becomes of a list that is constructed or cleared.
LEMMA SimpleEmpties ==
  ASSUME EndsApart, NEW V, None \notin Seq(V), None \notin Nat,
         NEW v, NEW c, NEW f, NEW a, SimpleGood(V, v, c, f, a), NEW l \in Lists, NEW b,
         NEW r, \/ r = <<"create", l>> /\ l \notin Live(c) /\ b = a
                \/ r = <<"clear", l>> /\ l \in Live(c) /\ b = a \ ToSet(Forward(v, l)),
         NEW d, d = [c EXCEPT ![l] = 0]
  PROVE  /\ SimpleGood(V, EmptyEnds(v, {l}), d, f, b)
         /\ Stepped(V, Items(f, v, Live(c)), Items(f, EmptyEnds(v, {l}), Live(d)), r)
<1> DEFINE w == EmptyEnds(v, {l})
           S == Live(c)
           T == Live(d)
<1>1. /\ S \in SUBSET Lists /\ Ordered(v, S) /\ c \in [Lists -> {None} \cup Nat]
      /\ DOMAIN f = Elements /\ (\A x \in a : f[x] \in V) /\ a \subseteq Elements
  BY DEF SimpleGood, Live
<1>2. /\ d \in [Lists -> {None} \cup Nat] /\ d[l] = 0 /\ \A q \in Lists \ {l} : d[q] = c[q]
  BY <1>1
<1>3. T = S \cup {l}
  BY <1>2 DEF Live
<1>4. Changed(v, S, w, T, l, <<>>)
  <2>1. Changed(v, S, w, S \cup {l}, l, <<>>)
    BY <1>1, Empties
  <2>2. QED
    BY <1>3, <2>1
<1>5. Len(<<>>) = 0 /\ ToSet(<<>>) = {} /\ Mapped(f, <<>>) = <<>>
  BY DEF ToSet, Mapped
<1>6. b = Others(v, S, l) \cup (IF l \in T THEN ToSet(<<>>) ELSE {})
  BY <1>5, OthersAre
<1> HIDE DEF w
<1>7. SimpleGood(V, w, d, f, b)
  <2>1. b \in SUBSET Elements /\ \A x \in b : f[x] \in V
    BY <1>1
  <2> DEFINE e == <<>>
  <2>2. Changed(v, Live(c), w, Live(d), l, e) /\ d[l] = Len(e)
        /\ b = Others(v, Live(c), l) \cup (IF l \in Live(d) THEN ToSet(e) ELSE {})
    BY <1>2, <1>4, <1>5, <1>6
  <2> HIDE DEF e
  <2>3. QED
    BY <1>1, <1>2, <2>1, <2>2, SimpleKeeps
<1>8. Does(V, IF l \in S THEN Mapped(f, Forward(v, l)) ELSE None, <<>>, l, r)
  <2>1. l \in S => Mapped(f, Forward(v, l)) # None
    BY SimpleListIs
  <2>2. QED
    BY <2>1 DEF Does
<1>9. Stepped(V, Items(f, v, S), Items(f, w, T), r)
  <2> DEFINE e == <<>>
  <2>1. e = IF l \in T THEN Mapped(f, <<>>) ELSE None
    BY <1>3, <1>5
  <2> HIDE DEF S, T
  <2>2. QED
    BY <1>4, <1>8, <2>1, ItemsStepped
<1>10. QED
  BY <1>7, <1>9 DEF w

\* What becomes of one that is destroyed.
LEMMA SimpleLeaves ==
  ASSUME EndsApart, NEW V, None \notin Seq(V), NEW v, NEW c, NEW f, NEW a, SimpleGood(V, v, c, f, a),
         NEW l \in Live(c), NEW b, b = a \ ToSet(Forward(v, l)), NEW d, d = [c EXCEPT ![l] = None]
  PROVE  /\ SimpleGood(V, v, d, f, b)
         /\ Stepped(V, Items(f, v, Live(c)), Items(f, v, Live(d)), <<"destroy", l>>)
<1> DEFINE S == Live(c)
           T == Live(d)
<1>1. /\ S \in SUBSET Lists /\ Ordered(v, S) /\ c \in [Lists -> {None} \cup Nat] /\ l \in Lists
      /\ DOMAIN f = Elements /\ (\A x \in a : f[x] \in V) /\ a \subseteq Elements
  BY DEF SimpleGood, Live
<1>2. /\ d \in [Lists -> {None} \cup Nat] /\ d[l] = None /\ \A q \in Lists \ {l} : d[q] = c[q]
  BY <1>1
<1>3. T = S \ {l} /\ l \notin T
  BY <1>2 DEF Live
<1>4. Changed(v, S, v, T, l, None)
  <2>1. Changed(v, S, v, S \ {l}, l, None)
    BY <1>1, Leaves
  <2>2. QED
    BY <1>3, <2>1
<1>5. b = Others(v, S, l) \cup (IF l \in T THEN ToSet(None) ELSE {})
  BY <1>3, OthersAre
<1>6. SimpleGood(V, v, d, f, b)
  <2>1. b \in SUBSET Elements /\ \A x \in b : f[x] \in V
    BY <1>1
  <2>2. QED
    BY <1>1, <1>2, <1>3, <1>4, <1>5, <2>1, SimpleKeeps
<1>7. Does(V, IF l \in S THEN Mapped(f, Forward(v, l)) ELSE None, None, l, <<"destroy", l>>)
  <2>1. Mapped(f, Forward(v, l)) # None
    BY SimpleListIs
  <2>2. QED
    BY <2>1 DEF Does
<1>8. Stepped(V, Items(f, v, S), Items(f, v, T), <<"destroy", l>>)
  <2> DEFINE e == None
  <2>1. e = IF l \in T THEN Mapped(f, None) ELSE None
    BY <1>3
  <2> HIDE DEF S, T
  <2>2. QED
    BY <1>4, <1>7, <2>1, ItemsStepped
<1>9. QED
  BY <1>6, <1>8

\* What is to be seen of lists in that order.
LEMMA SimpleShows ==
  ASSUME EndsApart, NEW V, NEW v, NEW c, NEW f, NEW a, SimpleGood(V, v, c, f, a), NEW l \in Live(c)
  PROVE  /\ Backward(v, l) = Reverse(Forward(v, l)) /\ c[l] = Len(Forward(v, l))
         /\ IsInjective(Forward(v, l))
         /\ \A r \in Live(c) \ {l} : ToSet(Forward(v, l)) \cap ToSet(Forward(v, r)) = {}
<1>1. Live(c) \in SUBSET Lists /\ Ordered(v, Live(c))
  BY DEF Live, SimpleGood
<1>2. ListFacts(v, l, Forward(v, l))
  BY <1>1, ListIs
<1>3. \A r \in Live(c) : l # r => ToSet(Forward(v, l)) \cap ToSet(Forward(v, r)) = {}
  BY <1>1, OrderedIs
<1>4. QED
  BY <1>2, <1>3 DEF SimpleGood, ListFacts

-----------------------------------------------------------------------------
(* SLinkList.                                                              *)

SHeaders == [Head : Elements \cup {None}, Tail : Elements \cup {None}, nitems : Nat]

\* The list of header e has the sequence s, by the links v.
Singly(v, e, s) ==
  /\ e \in SHeaders /\ s \in Seq(Elements) /\ IsInjective(s) /\ Leads(v, e.Head, None, s)
  /\ e.Tail = IF s = <<>> THEN None ELSE s[Len(s)]
  /\ e.nitems = Len(s)

\* The lists of headers m are c.
SinglyAre(v, m, c) ==
  /\ DOMAIN v = Elements /\ DOMAIN m = Lists /\ c = [l \in Lists |-> c[l]]
  /\ \A l \in Lists : Singly(v, m[l], c[l])
  /\ \A l, r \in Lists : l # r => ToSet(c[l]) \cap ToSet(c[r]) = {}

SChains(v, m) == [l \in Lists |-> Walk(v, m[l].Head, None, Cardinality(Elements))]

LEMMA SChainsAre ==
  ASSUME EndsApart, NEW v, NEW m, NEW c, SinglyAre(v, m, c)
  PROVE  SChains(v, m) = c
<1>1. ASSUME NEW l \in Lists
      PROVE  Walk(v, m[l].Head, None, Cardinality(Elements)) = c[l]
  <2>1. /\ c[l] \in Seq(Elements) /\ IsInjective(c[l]) /\ Leads(v, m[l].Head, None, c[l])
        /\ DOMAIN v = Elements
    BY DEF SinglyAre, Singly
  <2>2. Cardinality(Elements) \in Nat /\ Len(c[l]) <= Cardinality(Elements)
    BY <2>1, InjectiveFits DEF EndsApart
  <2>3. None \notin Elements
    BY DEF EndsApart
  <2>4. QED
    BY <2>1, <2>2, <2>3, WalkIs
<1>2. c = [l \in Lists |-> c[l]]
  BY DEF SinglyAre
<1>3. QED
  BY <1>1, <1>2 DEF SChains

\* Links that are the same on the elements of a list have it.
LEMMA SinglyKept ==
  ASSUME NEW v, NEW w, NEW e, NEW s, Singly(v, e, s), \A i \in 1 .. Len(s) : w[s[i]] = v[s[i]]
  PROVE  Singly(w, e, s)
BY DEF Singly, Leads

\* What a push and a pop make of the links and of one header.
Pushed(v, x, e) == [IF e.Tail = None THEN v ELSE [v EXCEPT ![e.Tail] = x] EXCEPT ![x] = None]
WithTail(e, x) ==
  [Head |-> IF e.Head = None THEN x ELSE e.Head, Tail |-> x, nitems |-> e.nitems + 1]
WithHead(e, x) ==
  [Head |-> x, Tail |-> IF e.Tail = None THEN x ELSE e.Tail, nitems |-> e.nitems + 1]
WithoutHead(e, h) ==
  [Head |-> h, Tail |-> IF h = None THEN None ELSE e.Tail, nitems |-> e.nitems - 1]

LEMMA SinglyIs ==
  ASSUME EndsApart, NEW v, NEW e, NEW s, Singly(v, e, s)
  PROVE  /\ Len(s) \in Nat /\ \A i \in 1 .. Len(s) : s[i] \in Elements /\ s[i] \in ToSet(s) /\ s[i] # None
         /\ \A i, j \in 1 .. Len(s) : s[i] = s[j] => i = j
         /\ e.Head = None <=> Len(s) = 0
         /\ e.Tail = None <=> Len(s) = 0
         /\ s = <<>> <=> Len(s) = 0
         /\ Len(s) # 0 => /\ e.Head = s[1] /\ e.Tail = s[Len(s)] /\ 1 \in 1 .. Len(s)
                          /\ Len(s) \in 1 .. Len(s)
<1>1. s \in Seq(Elements) /\ IsInjective(s)
  BY DEF Singly
<1>2. Len(s) \in Nat /\ DOMAIN s = 1 .. Len(s) /\ (s = <<>> <=> Len(s) = 0)
  BY <1>1
<1>3. \A i \in 1 .. Len(s) : s[i] \in Elements /\ s[i] \in ToSet(s) /\ s[i] # None
  BY <1>1, <1>2 DEF ToSet, EndsApart
<1>4. \A i, j \in 1 .. Len(s) : s[i] = s[j] => i = j
  BY <1>1, <1>2 DEF IsInjective
<1>5. Len(s) # 0 => 1 \in 1 .. Len(s) /\ Len(s) \in 1 .. Len(s)
  BY <1>2
<1>6. QED
  BY <1>2, <1>3, <1>4, <1>5 DEF Singly, Leads

\* Behind the last.
LEMMA SinglyBehind ==
  ASSUME EndsApart, NEW v, DOMAIN v = Elements, NEW e, NEW s, Singly(v, e, s),
         NEW x \in Elements, \A i \in 1 .. Len(s) : s[i] # x
  PROVE  /\ Singly(Pushed(v, x, e), WithTail(e, x), Append(s, x))
         /\ ToSet(Append(s, x)) = ToSet(s) \cup {x}
         /\ \A y \in Elements \ (ToSet(s) \cup {x}) : Pushed(v, x, e)[y] = v[y]
<1> DEFINE n == Len(s)
           t == Append(s, x)
           w == Pushed(v, x, e)
<1>1. /\ n \in Nat /\ (\A i \in 1 .. n : s[i] \in Elements /\ s[i] \in ToSet(s) /\ s[i] # None)
      /\ (\A i, j \in 1 .. n : s[i] = s[j] => i = j)
      /\ (e.Head = None <=> n = 0) /\ (e.Tail = None <=> n = 0) /\ (s = <<>> <=> n = 0)
      /\ n # 0 => e.Head = s[1] /\ e.Tail = s[n] /\ 1 \in 1 .. n /\ n \in 1 .. n
  BY SinglyIs
<1>2. s \in Seq(Elements) /\ e \in SHeaders /\ e.nitems = n
      /\ \A i \in 1 .. n : v[s[i]] = IF i = n THEN None ELSE s[i + 1]
  BY DEF Singly, Leads
<1>3. /\ t \in Seq(Elements) /\ Len(t) = n + 1 /\ t[n + 1] = x /\ \A i \in 1 .. n : t[i] = s[i]
  BY <1>2
<1>4. /\ w[x] = None /\ (n # 0 => w[s[n]] = x)
      /\ \A y \in Elements : y # x /\ (n # 0 => y # s[n]) => w[y] = v[y]
  BY <1>1 DEF Pushed
<1> HIDE DEF n, t, w
<1>5. IsInjective(t)
  <2>1. DOMAIN t = 1 .. n + 1
    BY <1>1, <1>3
  <2>2. ASSUME NEW i \in 1 .. n + 1, NEW j \in 1 .. n + 1, t[i] = t[j]
        PROVE  i = j
    <3>1. \A k \in 1 .. n + 1 : k \in 1 .. n \/ k = n + 1
      BY <1>1
    <3>2. \A k \in 1 .. n : t[k] = s[k] /\ s[k] # x
      BY <1>3 DEF n
    <3>3. CASE i = n + 1 /\ j = n + 1
      BY <3>3
    <3>4. CASE i = n + 1 /\ j \in 1 .. n
      BY <1>3, <2>2, <3>2, <3>4
    <3>5. CASE i \in 1 .. n /\ j = n + 1
      BY <1>3, <2>2, <3>2, <3>5
    <3>6. CASE i \in 1 .. n /\ j \in 1 .. n
      BY <1>1, <2>2, <3>2, <3>6
    <3>7. QED
      BY <3>1, <3>3, <3>4, <3>5, <3>6
  <2>3. QED
    BY <2>1, <2>2 DEF IsInjective
<1>6. ASSUME NEW i \in 1 .. n + 1
      PROVE  w[t[i]] = IF i = n + 1 THEN None ELSE t[i + 1]
  <2>1. CASE i = n + 1
    BY <1>3, <1>4, <2>1
  <2>2. CASE i = n /\ n # 0
    <3>1. t[i] = s[n] /\ t[i + 1] = x
      BY <1>1, <1>3, <2>2
    <3>2. QED
      BY <1>1, <1>4, <2>2, <3>1
  <2>3. CASE i # n + 1 /\ i # n
    <3>1. i \in 1 .. n /\ i + 1 \in 1 .. n /\ n # 0 /\ n \in 1 .. n
      BY <1>1, <2>3
    <3>2. t[i] = s[i] /\ t[i + 1] = s[i + 1] /\ s[i] # x /\ s[i] # s[n] /\ s[i] \in Elements
      BY <1>1, <1>3, <2>3, <3>1 DEF n
    <3>3. QED
      BY <1>2, <1>4, <2>3, <3>1, <3>2
  <2>4. QED
    BY <1>1, <2>1, <2>2, <2>3
<1>7. WithTail(e, x) \in SHeaders /\ WithTail(e, x).Head = t[1] /\ WithTail(e, x).Tail = x
      /\ WithTail(e, x).nitems = n + 1
  <2>1. IF n = 0 THEN e.Head = None /\ t[1] = x ELSE e.Head # None /\ t[1] = e.Head
    BY <1>1, <1>3
  <2>2. QED
    BY <1>1, <1>2, <2>1 DEF WithTail, SHeaders
<1>8. Leads(w, WithTail(e, x).Head, None, t)
  BY <1>1, <1>3, <1>6, <1>7 DEF Leads
<1>9. ToSet(t) = ToSet(s) \cup {x}
  <2>1. DOMAIN t = 1 .. n + 1 /\ DOMAIN s = 1 .. n /\ 1 .. n + 1 = (1 .. n) \cup {n + 1}
    BY <1>1, <1>2, <1>3 DEF n
  <2>2. QED
    BY <1>3, <2>1 DEF ToSet
<1>10. \A y \in Elements \ (ToSet(s) \cup {x}) : w[y] = v[y]
  BY <1>1, <1>4
<1>11. Singly(w, WithTail(e, x), t)
  <2>1. t # <<>>
    BY <1>1, <1>3
  <2>2. QED
    BY <1>3, <1>5, <1>7, <1>8, <2>1 DEF Singly
<1>12. QED
  BY <1>9, <1>10, <1>11 DEF t, w

\* Before the first.
LEMMA SinglyBefore ==
  ASSUME EndsApart, NEW v, DOMAIN v = Elements, NEW e, NEW s, Singly(v, e, s),
         NEW x \in Elements, \A i \in 1 .. Len(s) : s[i] # x, NEW w, Written(v, w, x, e.Head)
  PROVE  /\ Singly(w, WithHead(e, x), <<x>> \o s)
         /\ ToSet(<<x>> \o s) = ToSet(s) \cup {x}
         /\ \A y \in Elements \ {x} : w[y] = v[y]
<1> DEFINE n == Len(s)
           t == <<x>> \o s
<1>1. /\ n \in Nat /\ (\A i \in 1 .. n : s[i] \in Elements /\ s[i] \in ToSet(s) /\ s[i] # None)
      /\ (\A i, j \in 1 .. n : s[i] = s[j] => i = j)
      /\ (e.Head = None <=> n = 0) /\ (e.Tail = None <=> n = 0) /\ (s = <<>> <=> n = 0)
      /\ n # 0 => e.Head = s[1] /\ e.Tail = s[n] /\ 1 \in 1 .. n /\ n \in 1 .. n
  BY SinglyIs
<1>2. s \in Seq(Elements) /\ e \in SHeaders /\ e.nitems = n
      /\ \A i \in 1 .. n : v[s[i]] = IF i = n THEN None ELSE s[i + 1]
  BY DEF Singly, Leads
<1>3. /\ t \in Seq(Elements) /\ Len(t) = n + 1 /\ t[1] = x /\ \A i \in 2 .. n + 1 : t[i] = s[i - 1]
  BY <1>1, <1>2
<1>4. w[x] = e.Head /\ \A y \in Elements \ {x} : w[y] = v[y]
  BY DEF Written
<1> HIDE DEF n, t
<1>5. \A k \in 1 .. n + 1 : k = 1 \/ k \in 2 .. n + 1
  BY <1>1
<1>6. \A k \in 2 .. n + 1 : k - 1 \in 1 .. n /\ t[k] = s[k - 1] /\ s[k - 1] # x
  <2>1. \A k \in 2 .. n + 1 : k - 1 \in 1 .. n
    BY <1>1
  <2>2. QED
    BY <1>3, <2>1 DEF n
<1>7. IsInjective(t)
  <2>1. DOMAIN t = 1 .. n + 1
    BY <1>1, <1>3
  <2>2. ASSUME NEW i \in 1 .. n + 1, NEW j \in 1 .. n + 1, t[i] = t[j]
        PROVE  i = j
    <3>1. CASE i = 1 /\ j = 1
      BY <3>1
    <3>2. CASE i = 1 /\ j \in 2 .. n + 1
      BY <1>3, <1>6, <2>2, <3>2
    <3>3. CASE i \in 2 .. n + 1 /\ j = 1
      BY <1>3, <1>6, <2>2, <3>3
    <3>4. CASE i \in 2 .. n + 1 /\ j \in 2 .. n + 1
      <4>1. i - 1 = j - 1
        BY <1>1, <1>6, <2>2, <3>4
      <4>2. QED
        BY <4>1
    <3>5. QED
      BY <1>5, <3>1, <3>2, <3>3, <3>4
  <2>3. QED
    BY <2>1, <2>2 DEF IsInjective
<1>8. ASSUME NEW i \in 1 .. n + 1
      PROVE  w[t[i]] = IF i = n + 1 THEN None ELSE t[i + 1]
  <2>1. CASE i = 1 /\ n = 0
    BY <1>1, <1>3, <1>4, <2>1
  <2>2. CASE i = 1 /\ n # 0
    <3>1. t[2] = s[1] /\ i + 1 = 2 /\ i # n + 1
      <4>1. 2 \in 2 .. n + 1 /\ 2 - 1 = 1
        BY <1>1, <2>2
      <4>2. QED
        BY <1>1, <1>3, <2>2, <4>1
    <3>2. QED
      BY <1>1, <1>3, <1>4, <2>2, <3>1
  <2>3. CASE i \in 2 .. n + 1
    <3>1. /\ i - 1 \in 1 .. n /\ t[i] = s[i - 1] /\ w[t[i]] = v[s[i - 1]]
      BY <1>1, <1>4, <1>6, <2>3
    <3>2. v[s[i - 1]] = IF i - 1 = n THEN None ELSE s[i - 1 + 1]
      BY <1>2, <3>1
    <3>3. CASE i = n + 1
      <4>1. i - 1 = n
        BY <1>1, <3>3
      <4>2. QED
        BY <3>1, <3>2, <3>3, <4>1
    <3>4. CASE i # n + 1
      <4>1. i - 1 # n /\ i + 1 \in 2 .. n + 1 /\ i + 1 - 1 = i /\ i - 1 + 1 = i
        BY <1>1, <2>3, <3>4
      <4>2. t[i + 1] = s[i]
        BY <1>3, <4>1
      <4>3. QED
        BY <3>1, <3>2, <3>4, <4>1, <4>2
    <3>5. QED
      BY <3>3, <3>4
  <2>4. QED
    BY <1>5, <2>1, <2>2, <2>3
<1>9. WithHead(e, x) \in SHeaders /\ WithHead(e, x).Head = x /\ WithHead(e, x).Tail = t[n + 1]
      /\ WithHead(e, x).nitems = n + 1
  <2>1. IF n = 0 THEN e.Tail = None /\ t[n + 1] = x ELSE e.Tail # None /\ t[n + 1] = e.Tail
    <3>1. CASE n = 0
      BY <1>1, <1>3, <3>1
    <3>2. CASE n # 0
      <4>1. n + 1 \in 2 .. n + 1 /\ n + 1 - 1 = n
        BY <1>1, <3>2
      <4>2. QED
        BY <1>1, <1>3, <3>2, <4>1
    <3>3. QED
      BY <3>1, <3>2
  <2>2. QED
    BY <1>1, <1>2, <2>1 DEF WithHead, SHeaders
<1>10. Leads(w, WithHead(e, x).Head, None, t)
  BY <1>1, <1>3, <1>8, <1>9 DEF Leads
<1>11. ToSet(t) = ToSet(s) \cup {x}
  <2>1. DOMAIN t = 1 .. n + 1 /\ DOMAIN s = 1 .. n
    BY <1>1, <1>2, <1>3 DEF n
  <2>2. \A i \in 1 .. n : i + 1 \in 2 .. n + 1 /\ i + 1 - 1 = i /\ i + 1 \in 1 .. n + 1
    BY <1>1
  <2>3. \A i \in 1 .. n : t[i + 1] = s[i]
    BY <1>3, <2>2
  <2>4. 1 \in 1 .. n + 1
    BY <1>1
  <2>5. \A y \in ToSet(s) \cup {x} : y \in ToSet(t)
    BY <1>3, <2>1, <2>2, <2>3, <2>4 DEF ToSet
  <2>6. \A y \in ToSet(t) : y \in ToSet(s) \cup {x}
    <3>1. ASSUME NEW i \in 1 .. n + 1
          PROVE  t[i] \in ToSet(s) \cup {x}
      <4>1. CASE i = 1
        BY <1>3, <4>1
      <4>2. CASE i \in 2 .. n + 1
        BY <1>1, <1>6, <4>2
      <4>3. QED
        BY <1>5, <4>1, <4>2
    <3>2. QED
      BY <2>1, <3>1 DEF ToSet
  <2>7. QED
    BY <2>5, <2>6
<1>12. Singly(w, WithHead(e, x), t)
  <2>1. t # <<>>
    BY <1>1, <1>3
  <2>2. QED
    BY <1>3, <1>7, <1>9, <1>10, <2>1 DEF Singly
<1>13. QED
  BY <1>4, <1>11, <1>12 DEF t

\* Without the first.
LEMMA SinglyRest ==
  ASSUME EndsApart, NEW v, DOMAIN v = Elements, NEW e, NEW s, Singly(v, e, s), e.Head # None
  PROVE  /\ Singly(v, WithoutHead(e, v[e.Head]), RemoveAt(s, 1))
         /\ ToSet(RemoveAt(s, 1)) \subseteq ToSet(s) /\ s # <<>> /\ e.Head = s[1]
<1> DEFINE n == Len(s)
           t == RemoveAt(s, 1)
<1>1. /\ n \in Nat /\ (\A i \in 1 .. n : s[i] \in Elements /\ s[i] \in ToSet(s) /\ s[i] # None)
      /\ (\A i, j \in 1 .. n : s[i] = s[j] => i = j)
      /\ (e.Head = None <=> n = 0) /\ (e.Tail = None <=> n = 0) /\ (s = <<>> <=> n = 0)
      /\ n # 0 => e.Head = s[1] /\ e.Tail = s[n] /\ 1 \in 1 .. n /\ n \in 1 .. n
  BY SinglyIs
<1>2. s \in Seq(Elements) /\ e \in SHeaders /\ e.nitems = n
      /\ \A i \in 1 .. n : v[s[i]] = IF i = n THEN None ELSE s[i + 1]
  BY DEF Singly, Leads
<1>3. n # 0 /\ 1 \in 1 .. n /\ e.Head = s[1] /\ e.Tail = s[n] /\ n \in 1 .. n
  BY <1>1
<1>4. /\ t \in Seq(Elements) /\ Len(t) = n - 1
      /\ \A i \in 1 .. n - 1 : t[i] = IF i < 1 THEN s[i] ELSE s[i + 1]
  BY <1>2, <1>3, RemoveAtIs
<1> HIDE DEF n, t
<1>5. \A i \in 1 .. n - 1 : t[i] = s[i + 1] /\ i + 1 \in 1 .. n
  BY <1>1, <1>4
<1>6. IsInjective(t) /\ \A i \in 1 .. n - 1 : t[i] \in ToSet(s)
  <2>1. DOMAIN t = 1 .. n - 1
    BY <1>1, <1>3, <1>4
  <2>2. ASSUME NEW i \in 1 .. n - 1, NEW j \in 1 .. n - 1, t[i] = t[j]
        PROVE  i = j
    <3>1. i + 1 = j + 1
      BY <1>1, <1>5, <2>2
    <3>2. QED
      BY <3>1
  <2>3. QED
    BY <1>1, <1>5, <2>1, <2>2 DEF IsInjective
<1>7. ASSUME NEW i \in 1 .. n - 1
      PROVE  v[t[i]] = IF i = n - 1 THEN None ELSE t[i + 1]
  <2>1. t[i] = s[i + 1] /\ i + 1 \in 1 .. n
    BY <1>5
  <2>2. v[s[i + 1]] = IF i + 1 = n THEN None ELSE s[i + 1 + 1]
    BY <1>2, <2>1
  <2>3. CASE i = n - 1
    <3>1. i + 1 = n
      BY <1>1, <2>3
    <3>2. QED
      BY <2>1, <2>2, <2>3, <3>1
  <2>4. CASE i # n - 1
    <3>1. i + 1 # n /\ i + 1 \in 1 .. n - 1
      BY <1>1, <2>4
    <3>2. t[i + 1] = s[i + 1 + 1]
      BY <1>5, <3>1
    <3>3. QED
      BY <2>1, <2>2, <2>4, <3>1, <3>2
  <2>5. QED
    BY <2>3, <2>4
<1>8. v[e.Head] = IF n = 1 THEN None ELSE s[2]
  BY <1>2, <1>3
<1>9. n = 1 <=> Len(t) = 0
  BY <1>1, <1>3, <1>4
<1>10. n # 1 => /\ 1 \in 1 .. n - 1 /\ n - 1 \in 1 .. n - 1 /\ t[1] = s[2] /\ t[n - 1] = s[n]
                /\ s[2] \in Elements /\ s[2] # None
  <2>1. n # 1 => 1 \in 1 .. n - 1 /\ n - 1 \in 1 .. n - 1 /\ n - 1 + 1 = n /\ 2 \in 1 .. n
    BY <1>1, <1>3
  <2>2. n # 1 => t[1] = s[1 + 1] /\ t[n - 1] = s[n - 1 + 1]
    BY <1>5, <2>1
  <2>3. QED
    BY <1>1, <2>1, <2>2
<1> DEFINE d == WithoutHead(e, v[e.Head])
<1>11. d \in SHeaders /\ d.nitems = n - 1 /\ d.Head = v[e.Head]
       /\ d.Tail = IF n = 1 THEN None ELSE s[n]
  <2>1. n - 1 \in Nat
    BY <1>1, <1>3
  <2>2. CASE n = 1
    BY <1>2, <1>8, <2>1, <2>2 DEF WithoutHead, SHeaders
  <2>3. CASE n # 1
    <3>1. v[e.Head] = s[2] /\ s[2] # None /\ s[2] \in Elements
      BY <1>8, <1>10, <2>3
    <3>2. QED
      BY <1>2, <1>3, <2>1, <2>3, <3>1 DEF WithoutHead, SHeaders
  <2>4. QED
    BY <2>2, <2>3
<1> HIDE DEF d
<1>12. Leads(v, d.Head, None, t)
  <2>1. d.Head = IF Len(t) = 0 THEN None ELSE t[1]
    BY <1>8, <1>9, <1>10, <1>11
  <2>2. QED
    BY <1>4, <1>7, <2>1 DEF Leads
<1>13. d.Tail = IF t = <<>> THEN None ELSE t[Len(t)]
  <2>1. t = <<>> <=> Len(t) = 0
    <3>1. t \in Seq(Elements)
      BY <1>4
    <3>2. QED
      BY <3>1
  <2>2. QED
    BY <1>4, <1>9, <1>10, <1>11, <2>1
<1>14. Singly(v, d, t)
  BY <1>4, <1>6, <1>11, <1>12, <1>13 DEF Singly
<1>15. ToSet(t) \subseteq ToSet(s)
  <2>1. DOMAIN t = 1 .. n - 1
    BY <1>1, <1>3, <1>4
  <2>2. QED
    BY <1>6, <2>1 DEF ToSet
<1>16. QED
  BY <1>1, <1>3, <1>14, <1>15 DEF d, t

\* A change of one list, that uses at most X besides, keeps the others.
LEMMA SinglyKeeps ==
  ASSUME NEW v, NEW m, NEW c, SinglyAre(v, m, c), NEW l \in Lists,
         NEW w, DOMAIN w = Elements, NEW e, NEW s, Singly(w, e, s),
         NEW X, ToSet(s) \subseteq ToSet(c[l]) \cup X, \A r \in Lists : X \cap ToSet(c[r]) = {},
         \A y \in Elements \ (ToSet(c[l]) \cup X) : w[y] = v[y],
         NEW n, Written(m, n, l, e), NEW d, Written(c, d, l, s)
  PROVE  SinglyAre(w, n, d)
<1>1. /\ DOMAIN m = Lists /\ c = [r \in Lists |-> c[r]] /\ (\A r \in Lists : Singly(v, m[r], c[r]))
      /\ \A r, q \in Lists : r # q => ToSet(c[r]) \cap ToSet(c[q]) = {}
  BY DEF SinglyAre
<1>2. DOMAIN n = Lists /\ n[l] = e /\ \A r \in Lists \ {l} : n[r] = m[r]
  BY <1>1 DEF Written
<1>3. d = [r \in Lists |-> d[r]] /\ d[l] = s /\ \A r \in Lists \ {l} : d[r] = c[r]
  BY <1>1 DEF Written
<1>4. ASSUME NEW r \in Lists \ {l}
      PROVE  Singly(w, m[r], c[r])
  <2>1. Singly(v, m[r], c[r]) /\ c[r] \in Seq(Elements)
    BY <1>1 DEF Singly
  <2>2. \A i \in 1 .. Len(c[r]) : c[r][i] \in ToSet(c[r]) /\ c[r][i] \in Elements
    BY <2>1 DEF ToSet
  <2>3. ToSet(c[l]) \cap ToSet(c[r]) = {} /\ X \cap ToSet(c[r]) = {}
    BY <1>1
  <2>4. \A i \in 1 .. Len(c[r]) : w[c[r][i]] = v[c[r][i]]
    BY <2>2, <2>3
  <2>5. QED
    BY <2>1, <2>4, SinglyKept
<1>5. \A r \in Lists : Singly(w, n[r], d[r])
  BY <1>2, <1>3, <1>4
<1>6. \A r, q \in Lists : r # q => ToSet(d[r]) \cap ToSet(d[q]) = {}
  <2>1. \A r \in Lists \ {l} : ToSet(s) \cap ToSet(c[r]) = {}
    BY <1>1
  <2>2. QED
    BY <1>1, <1>3, <2>1
<1>7. QED
  BY <1>2, <1>3, <1>5, <1>6 DEF SinglyAre

\* Lists in order, as their links show them.
SinglyGood(v, m) == SinglyAre(v, m, SChains(v, m))

\* What becomes of lists in order of which one has changed.
LEMMA SinglyStepped ==
  ASSUME EndsApart, NEW v, NEW m, SinglyGood(v, m), NEW l \in Lists, NEW w, NEW n, NEW s,
         NEW d, Written(SChains(v, m), d, l, s), SinglyAre(w, n, d),
         NEW r, Does(Elements, SChains(v, m)[l], s, l, r)
  PROVE  SinglyGood(w, n) /\ Stepped(Elements, SChains(v, m), SChains(w, n), r)
<1> DEFINE c == SChains(v, m)
<1>1. SinglyAre(w, n, d) /\ Does(Elements, c[l], s, l, r) /\ d = [c EXCEPT ![l] = s]
  BY DEF Written
<1>2. SChains(w, n) = d
  BY <1>1, SChainsAre
<1> HIDE DEF c
<1>3. Stepped(Elements, c, d, r)
  BY <1>1, SteppedIs
<1>4. QED
  BY <1>1, <1>2, <1>3 DEF SinglyGood, c

LEMMA SinglySteps ==
  ASSUME EndsApart, NEW v, NEW m, SinglyGood(v, m), NEW l \in Lists, NEW n, NEW w, NEW r
  PROVE  /\ \A x \in Elements :
              /\ \A q \in Lists : x \notin ToSet(SChains(v, m)[q])
              /\ \/ /\ w = Pushed(v, x, m[l]) /\ n = [m EXCEPT ![l] = WithTail(m[l], x)]
                    /\ r = <<"pushTail", l, x>>
                 \/ /\ w = [v EXCEPT ![x] = m[l].Head] /\ n = [m EXCEPT ![l] = WithHead(m[l], x)]
                    /\ r = <<"pushHead", l, x>>
              => SinglyGood(w, n) /\ Stepped(Elements, SChains(v, m), SChains(w, n), r)
         /\ /\ m[l].Head # None /\ n = [m EXCEPT ![l] = WithoutHead(m[l], v[m[l].Head])]
            /\ r = <<"popHead", l, m[l].Head>> /\ w = v
            => SinglyGood(w, n) /\ Stepped(Elements, SChains(v, m), SChains(w, n), r)
<1> DEFINE c == SChains(v, m)
           s == c[l]
<1>1. SinglyAre(v, m, c)
  BY DEF SinglyGood
<1> HIDE DEF c
<1>2. DOMAIN v = Elements /\ Singly(v, m[l], s) /\ s \in Seq(Elements)
  BY <1>1 DEF SinglyAre, Singly
<1>3. s # None
  BY <1>2 DEF EndsApart
<1> HIDE DEF s
<1>4. \A i \in 1 .. Len(s) : s[i] \in ToSet(s)
  BY <1>2 DEF ToSet
<1>5. ASSUME NEW x \in Elements, \A q \in Lists : x \notin ToSet(c[q]),
             w = Pushed(v, x, m[l]), n = [m EXCEPT ![l] = WithTail(m[l], x)], r = <<"pushTail", l, x>>
      PROVE  SinglyGood(w, n) /\ Stepped(Elements, c, SChains(w, n), r)
  <2>1. /\ Singly(w, WithTail(m[l], x), Append(s, x)) /\ ToSet(Append(s, x)) = ToSet(s) \cup {x}
        /\ \A y \in Elements \ (ToSet(s) \cup {x}) : w[y] = v[y]
    <3>1. \A i \in 1 .. Len(s) : s[i] # x
      BY <1>4, <1>5 DEF s
    <3>2. QED
      BY <1>2, <1>5, <3>1, SinglyBehind
  <2>2. DOMAIN w = Elements
    BY <1>2, <1>5 DEF Pushed
  <2> DEFINE t == Append(s, x)
             X == {x}
  <2>3. /\ Singly(w, WithTail(m[l], x), t) /\ ToSet(t) \subseteq ToSet(c[l]) \cup X
        /\ (\A q \in Lists : X \cap ToSet(c[q]) = {})
        /\ \A y \in Elements \ (ToSet(c[l]) \cup X) : w[y] = v[y]
    BY <1>5, <2>1 DEF s
  <2> HIDE DEF t, X
  <2> DEFINE d == [c EXCEPT ![l] = t]
  <2>7. Written(m, n, l, WithTail(m[l], x)) /\ Written(c, d, l, t)
    BY <1>5 DEF Written
  <2> HIDE DEF d
  <2>4. SinglyAre(w, n, d)
    BY <1>1, <2>2, <2>3, <2>7, SinglyKeeps
  <2>5. Does(Elements, c[l], t, l, r)
    BY <1>3, <1>5 DEF Does, s, t
  <2>6. QED
    BY <2>4, <2>5, <2>7, SinglyStepped DEF c
<1>6. ASSUME NEW x \in Elements, \A q \in Lists : x \notin ToSet(c[q]),
             w = [v EXCEPT ![x] = m[l].Head], n = [m EXCEPT ![l] = WithHead(m[l], x)],
             r = <<"pushHead", l, x>>
      PROVE  SinglyGood(w, n) /\ Stepped(Elements, c, SChains(w, n), r)
  <2>1. /\ Singly(w, WithHead(m[l], x), <<x>> \o s) /\ ToSet(<<x>> \o s) = ToSet(s) \cup {x}
        /\ \A y \in Elements \ {x} : w[y] = v[y]
    <3>1. \A i \in 1 .. Len(s) : s[i] # x
      BY <1>4, <1>6 DEF s
    <3>2. QED
        <4>1. Written(v, w, x, m[l].Head)
        BY <1>6 DEF Written
      <4>2. QED
        BY <1>2, <3>1, <4>1, SinglyBefore
  <2>2. DOMAIN w = Elements
    BY <1>2, <1>6
  <2> DEFINE t == <<x>> \o s
             X == {x}
  <2>3. /\ Singly(w, WithHead(m[l], x), t) /\ ToSet(t) \subseteq ToSet(c[l]) \cup X
        /\ (\A q \in Lists : X \cap ToSet(c[q]) = {})
        /\ \A y \in Elements \ (ToSet(c[l]) \cup X) : w[y] = v[y]
    BY <1>6, <2>1 DEF s
  <2> HIDE DEF t, X
  <2> DEFINE d == [c EXCEPT ![l] = t]
  <2>7. Written(m, n, l, WithHead(m[l], x)) /\ Written(c, d, l, t)
    BY <1>6 DEF Written
  <2> HIDE DEF d
  <2>4. SinglyAre(w, n, d)
    BY <1>1, <2>2, <2>3, <2>7, SinglyKeeps
  <2>5. Does(Elements, c[l], t, l, r)
    BY <1>3, <1>6 DEF Does, s, t
  <2>6. QED
    BY <2>4, <2>5, <2>7, SinglyStepped DEF c
<1>7. ASSUME m[l].Head # None, n = [m EXCEPT ![l] = WithoutHead(m[l], v[m[l].Head])],
             r = <<"popHead", l, m[l].Head>>, w = v
      PROVE  SinglyGood(w, n) /\ Stepped(Elements, c, SChains(w, n), r)
  <2> DEFINE t == RemoveAt(s, 1)
             X == {}
  <2>1. /\ Singly(w, WithoutHead(m[l], v[m[l].Head]), t) /\ ToSet(t) \subseteq ToSet(s)
        /\ s # <<>> /\ m[l].Head = s[1]
    BY <1>2, <1>7, SinglyRest
  <2>2. /\ DOMAIN w = Elements /\ ToSet(t) \subseteq ToSet(c[l]) \cup X
        /\ (\A q \in Lists : X \cap ToSet(c[q]) = {})
        /\ \A y \in Elements \ (ToSet(c[l]) \cup X) : w[y] = v[y]
    BY <1>2, <1>7, <2>1 DEF s
  <2> HIDE DEF X
  <2>3. Does(Elements, c[l], t, l, r)
    BY <1>3, <1>7, <2>1 DEF Does, s
  <2> HIDE DEF t
  <2> DEFINE d == [c EXCEPT ![l] = t]
             e == WithoutHead(m[l], v[m[l].Head])
  <2>4. Written(m, n, l, e) /\ Written(c, d, l, t) /\ Singly(w, e, t)
    BY <1>7, <2>1 DEF Written
  <2> HIDE DEF d, e
  <2>5. SinglyAre(w, n, d)
    BY <1>1, <2>2, <2>4, SinglyKeeps
  <2>6. QED
    BY <2>3, <2>4, <2>5, SinglyStepped DEF c
<1>8. QED
  BY <1>5, <1>6, <1>7 DEF c

LEMMA SinglyInit ==
  ASSUME EndsApart, NEW v, v = [x \in Elements |-> None],
         NEW m, m = [l \in Lists |-> [Head |-> None, Tail |-> None, nitems |-> 0]]
  PROVE  SinglyGood(v, m)
<1> DEFINE c == [l \in Lists |-> <<>>]
<1>1. ASSUME NEW l \in Lists
      PROVE  Singly(v, m[l], c[l])
  BY DEF Singly, SHeaders, IsInjective, Leads
<1>2. ToSet(<<>>) = {}
  BY DEF ToSet
<1>3. SinglyAre(v, m, c)
  BY <1>1, <1>2 DEF SinglyAre
<1> HIDE DEF c
<1>4. SChains(v, m) = c
  BY <1>3, SChainsAre
<1>5. QED
  BY <1>3, <1>4 DEF SinglyGood

\* What is to be seen of lists in that order.
LEMMA SinglyShows ==
  ASSUME NEW v, NEW m, SinglyGood(v, m), NEW l \in Lists
  PROVE  LET s == Walk(v, m[l].Head, None, Cardinality(Elements))
         IN m[l].Tail = (IF s = <<>> THEN None ELSE s[Len(s)]) /\ m[l].nitems = Len(s)
BY DEF SinglyGood, SinglyAre, SChains, Singly

-----------------------------------------------------------------------------
(* SortedLinkList: K has the keys of elements.                             *)

KeysAre(K) == \A x \in Elements : K[x] \in Int
Rising(K, s) == \A i, j \in 1 .. Len(s) : i < j => K[s[i]] <= K[s[j]]

\* The first element with a key at least k; with exact, if its key is k.
FirstFrom(K, s, k) ==
  LET I == {i \in 1 .. Len(s) : K[s[i]] >= k}
  IN IF I # {} THEN Min(I) ELSE 0
Found(K, s, k, exact) ==
  LET i == FirstFrom(K, s, k)
  IN IF i = 0 \/ (exact /\ K[s[i]] # k) THEN None ELSE s[i]
Smaller(K, s, k) == {i \in 1 .. Len(s) : K[s[i]] < k}
Equal(K, s, k) == {i \in 1 .. Len(s) : K[s[i]] = k}
Above(K, s, k) == {i \in 1 .. Len(s) : K[s[i]] >= k}

\* Where the first one is.
LEMMA FirstIs ==
  ASSUME NEW K, KeysAre(K), NEW s \in Seq(Elements), Rising(K, s), NEW k \in Int
  PROVE  /\ Len(s) \in Nat /\ \A i \in 1 .. Len(s) : s[i] \in Elements /\ K[s[i]] \in Int
         /\ \/ FirstFrom(K, s, k) = 0 /\ \A i \in 1 .. Len(s) : K[s[i]] < k
            \/ /\ FirstFrom(K, s, k) \in 1 .. Len(s) /\ K[s[FirstFrom(K, s, k)]] >= k
               /\ \A i \in 1 .. Len(s) : i < FirstFrom(K, s, k) => K[s[i]] < k
               /\ \A i \in 1 .. Len(s) : i >= FirstFrom(K, s, k) => K[s[i]] >= k
<1> DEFINE I == {i \in 1 .. Len(s) : K[s[i]] >= k}
<1>1. Len(s) \in Nat /\ \A i \in 1 .. Len(s) : s[i] \in Elements /\ K[s[i]] \in Int
  BY DEF KeysAre
<1>2. CASE I = {}
  <2>1. \A i \in 1 .. Len(s) : ~ (K[s[i]] >= k)
    BY <1>2
  <2>2. \A i \in 1 .. Len(s) : K[s[i]] < k
    BY <1>1, <2>1
  <2>3. QED
    BY <1>1, <1>2, <2>2 DEF FirstFrom
<1>3. CASE I # {}
  <2>1. FirstFrom(K, s, k) = Min(I)
    BY <1>3 DEF FirstFrom
  <2>2. Min(I) \in I /\ \A y \in I : Min(I) <= y
    <3>1. I \in SUBSET (1 .. Len(s))
      OBVIOUS
    <3> HIDE DEF I
    <3>2. QED
      BY <1>1, <1>3, <3>1, LeastIs
  <2> DEFINE m == Min(I)
  <2>3. m \in 1 .. Len(s) /\ K[s[m]] >= k
    BY <2>2
  <2>4. \A i \in 1 .. Len(s) : K[s[i]] >= k => m <= i
    BY <2>2
  <2> HIDE DEF m
  <2>5. ASSUME NEW i \in 1 .. Len(s), i < m
        PROVE  K[s[i]] < k
    BY <1>1, <2>3, <2>4, <2>5
  <2>6. ASSUME NEW i \in 1 .. Len(s), i >= m
        PROVE  K[s[i]] >= k
    <3>1. m = i \/ K[s[m]] <= K[s[i]]
      BY <1>1, <2>3, <2>6 DEF Rising
    <3>2. QED
      BY <1>1, <2>3, <3>1
  <2>7. FirstFrom(K, s, k) = m
    BY <2>1 DEF m
  <2>8. QED
    BY <1>1, <2>3, <2>5, <2>6, <2>7
<1>4. QED
  BY <1>2, <1>3

\* Where insert puts an element: behind k smaller ones, before the others.
InsertsAt(K, s, x, k) ==
  /\ k \in 0 .. Len(s)
  /\ \A i \in 1 .. Len(s) : K[s[i]] < K[x] <=> i <= k
  /\ Found(K, s, K[x], FALSE) = IF k = Len(s) THEN None ELSE s[k + 1]
  /\ Cardinality(Smaller(K, s, K[x])) = k

LEMMA InsertPlace ==
  ASSUME EndsApart, NEW K, KeysAre(K), NEW s \in Seq(Elements), Rising(K, s), NEW x \in Elements
  PROVE  \E k \in 0 .. Len(s) : InsertsAt(K, s, x, k)
<1> DEFINE f == FirstFrom(K, s, K[x])
<1>1. /\ Len(s) \in Nat /\ (\A i \in 1 .. Len(s) : s[i] \in Elements /\ K[s[i]] \in Int) /\ K[x] \in Int
      /\ \/ f = 0 /\ \A i \in 1 .. Len(s) : K[s[i]] < K[x]
         \/ /\ f \in 1 .. Len(s) /\ K[s[f]] >= K[x]
            /\ \A i \in 1 .. Len(s) : i < f => K[s[i]] < K[x]
            /\ \A i \in 1 .. Len(s) : i >= f => K[s[i]] >= K[x]
  <2>1. K[x] \in Int
    BY DEF KeysAre
  <2>2. QED
    BY <2>1, FirstIs
<1>2. Found(K, s, K[x], FALSE) = IF f = 0 THEN None ELSE s[f]
  BY DEF Found
<1> HIDE DEF f
<1>3. PICK k \in 0 .. Len(s) : k = IF f = 0 THEN Len(s) ELSE f - 1
  <2>1. (IF f = 0 THEN Len(s) ELSE f - 1) \in 0 .. Len(s)
    BY <1>1
  <2>2. QED
    BY <2>1
<1>4. ASSUME NEW i \in 1 .. Len(s)
      PROVE  K[s[i]] < K[x] <=> i <= k
  <2>1. CASE f = 0
    BY <1>1, <1>3, <2>1
  <2>2. CASE f # 0
    <3>1. f \in 1 .. Len(s) /\ k = f - 1
      BY <1>1, <1>3, <2>2
    <3>2. CASE i < f
      BY <1>1, <2>2, <3>1, <3>2
    <3>3. CASE i >= f
      <4>1. K[s[i]] >= K[x] /\ ~ (i <= k)
        BY <1>1, <2>2, <3>1, <3>3
      <4>2. QED
        BY <1>1, <4>1
    <3>4. QED
      BY <3>1, <3>2, <3>3
  <2>3. QED
    BY <2>1, <2>2
<1>5. Found(K, s, K[x], FALSE) = IF k = Len(s) THEN None ELSE s[k + 1]
  <2>1. CASE f = 0
    BY <1>2, <1>3, <2>1
  <2>2. CASE f # 0
    <3>1. k # Len(s) /\ k + 1 = f
      BY <1>1, <1>3, <2>2
    <3>2. QED
      BY <1>2, <2>2, <3>1
  <2>3. QED
    BY <2>1, <2>2
<1>6. Cardinality(Smaller(K, s, K[x])) = k
  <2>1. Smaller(K, s, K[x]) = 1 .. k
    <3>1. \A i \in 1 .. k : i \in 1 .. Len(s)
      BY <1>1
    <3>2. QED
      BY <1>4, <3>1 DEF Smaller
  <2>2. k \in Int /\ k >= 0
    BY <1>1
  <2>3. Cardinality(1 .. k) = IF 1 > k THEN 0 ELSE k - 1 + 1
    BY <2>2, FS_Interval
  <2>4. QED
    BY <2>1, <2>2, <2>3
<1>7. QED
  BY <1>4, <1>5, <1>6 DEF InsertsAt

\* It stays sorted.
LEMMA InsertedRises ==
  ASSUME NEW K, KeysAre(K), NEW s \in Seq(Elements), Rising(K, s), NEW x \in Elements,
         NEW k, InsertsAt(K, s, x, k)
  PROVE  Rising(K, InsertAt(s, k + 1, x))
<1>1. /\ Len(s) \in Nat /\ (\A i \in 1 .. Len(s) : K[s[i]] \in Int) /\ K[x] \in Int
  BY DEF KeysAre
<1>2. k \in 0 .. Len(s) /\ \A i \in 1 .. Len(s) : K[s[i]] < K[x] <=> i <= k
  BY DEF InsertsAt
<1>3. PICK p \in 1 .. Len(s) + 1 : p = k + 1
  BY <1>1, <1>2
<1> DEFINE t == InsertAt(s, p, x)
<1>4. /\ Len(t) = Len(s) + 1
      /\ \A j \in 1 .. Len(s) + 1 : t[j] = IF j < p THEN s[j] ELSE IF j = p THEN x ELSE s[j - 1]
  <2>1. Len(t) = Len(s) + 1
    BY InsertAtIs, SMTT(30)
  <2>2. \A j \in 1 .. Len(s) + 1 : t[j] = IF j < p THEN s[j] ELSE IF j = p THEN x ELSE s[j - 1]
    BY InsertAtIs, SMTT(30)
  <2>3. QED
    BY <2>1, <2>2
<1> HIDE DEF t
<1>n. p \in Int /\ k \in Int
  BY <1>1, <1>2
<1>5. ASSUME NEW j \in 1 .. Len(s) + 1, j < p
      PROVE  t[j] = s[j] /\ j \in 1 .. Len(s) /\ K[t[j]] < K[x]
  <2>1. j \in 1 .. Len(s) /\ j <= k
    BY <1>1, <1>2, <1>3, <1>5
  <2>2. t[j] = s[j]
    BY <1>4, <1>5
  <2>3. K[s[j]] < K[x]
    BY <1>2, <2>1
  <2>4. QED
    BY <2>1, <2>2, <2>3
<1>6. t[p] = x
  BY <1>4, <1>n
<1>7. ASSUME NEW j \in 1 .. Len(s) + 1, j > p
      PROVE  t[j] = s[j - 1] /\ j - 1 \in 1 .. Len(s) /\ K[t[j]] >= K[x]
  <2>1. PICK i \in 1 .. Len(s) : i = j - 1 /\ ~ (i <= k)
    BY <1>1, <1>2, <1>3, <1>7
  <2>2. t[j] = s[j - 1]
    BY <1>4, <1>7, <1>n
  <2>3. K[s[i]] \in Int /\ ~ (K[s[i]] < K[x])
    BY <1>1, <1>2, <2>1
  <2>4. K[s[i]] >= K[x]
    BY <1>1, <2>3
  <2>5. QED
    BY <2>1, <2>2, <2>4
<1>8. ASSUME NEW i \in 1 .. Len(s) + 1, NEW j \in 1 .. Len(s) + 1, i < j
      PROVE  K[t[i]] <= K[t[j]]
  <2>0. i \in Int /\ j \in Int
    BY <1>1
  <2>1. CASE j < p
    <3>1. i < p
      BY <1>n, <1>8, <2>0, <2>1
    <3>2. t[i] = s[i] /\ i \in 1 .. Len(s) /\ t[j] = s[j] /\ j \in 1 .. Len(s)
      BY <1>5, <2>1, <3>1
    <3>3. QED
      BY <1>8, <3>2 DEF Rising
  <2>2. CASE i > p
    <3>1. j > p
      BY <1>n, <1>8, <2>0, <2>2
    <3>2. t[i] = s[i - 1] /\ i - 1 \in 1 .. Len(s) /\ t[j] = s[j - 1] /\ j - 1 \in 1 .. Len(s)
      BY <1>7, <2>2, <3>1
    <3>3. i - 1 < j - 1
      BY <1>8, <2>0
    <3>4. QED
      BY <3>2, <3>3 DEF Rising
  <2>3. CASE i <= p /\ j >= p
    <3>1. (i < p /\ i \in 1 .. Len(s) /\ t[i] = s[i] /\ K[t[i]] < K[x]) \/ t[i] = x
      BY <1>n, <1>5, <1>6, <2>0, <2>3
    <3>2. (j > p /\ j - 1 \in 1 .. Len(s) /\ t[j] = s[j - 1] /\ K[t[j]] >= K[x]) \/ t[j] = x
      BY <1>n, <1>6, <1>7, <2>0, <2>3
    <3>3. K[t[i]] \in Int /\ K[t[j]] \in Int
      BY <1>1, <3>1, <3>2
    <3>4. K[t[i]] <= K[x]
      BY <1>1, <3>1, <3>3
    <3>5. K[x] <= K[t[j]]
      BY <1>1, <3>2, <3>3
    <3>6. QED
      BY <1>1, <3>3, <3>4, <3>5
  <2>4. QED
    BY <1>n, <2>0, <2>1, <2>2, <2>3
<1>9. Rising(K, t)
  BY <1>4, <1>8 DEF Rising
<1>10. QED
  BY <1>3, <1>9 DEF t

LEMMA RemovedRises ==
  ASSUME NEW K, NEW s \in Seq(Elements), Rising(K, s), NEW k \in 1 .. Len(s)
  PROVE  Rising(K, RemoveAt(s, k))
<1> DEFINE t == RemoveAt(s, k)
<1>1. /\ Len(s) \in Nat /\ Len(t) = Len(s) - 1
      /\ \A j \in 1 .. Len(s) - 1 : t[j] = IF j < k THEN s[j] ELSE s[j + 1]
  BY RemoveAtIs
<1> HIDE DEF t
<1>2. ASSUME NEW i \in 1 .. Len(s) - 1, NEW j \in 1 .. Len(s) - 1, i < j
      PROVE  K[t[i]] <= K[t[j]]
  <2>1. /\ i \in 1 .. Len(s) /\ i + 1 \in 1 .. Len(s) /\ j \in 1 .. Len(s) /\ j + 1 \in 1 .. Len(s)
    BY <1>1
  <2>2. CASE j < k
    <3>1. t[i] = s[i] /\ t[j] = s[j]
      BY <1>1, <1>2, <2>2
    <3>2. QED
      BY <1>2, <2>1, <3>1 DEF Rising
  <2>3. CASE i < k /\ ~ (j < k)
    <3>1. t[i] = s[i] /\ t[j] = s[j + 1] /\ i < j + 1
      BY <1>1, <1>2, <2>3
    <3>2. QED
      BY <2>1, <3>1 DEF Rising
  <2>4. CASE ~ (i < k)
    <3>1. t[i] = s[i + 1] /\ t[j] = s[j + 1] /\ i + 1 < j + 1
      BY <1>1, <1>2, <2>4
    <3>2. QED
      BY <2>1, <3>1 DEF Rising
  <2>5. QED
    BY <1>2, <2>2, <2>3, <2>4
<1>3. QED
  BY <1>1, <1>2 DEF Rising, t

\* What is found.
LEMMA FoundIs ==
  ASSUME NEW K, KeysAre(K), NEW s \in Seq(Elements), Rising(K, s), NEW k \in Int
  PROVE  /\ Found(K, s, k, TRUE) = IF Equal(K, s, k) = {} THEN None ELSE s[Min(Equal(K, s, k))]
         /\ Found(K, s, k, FALSE) = IF Above(K, s, k) = {} THEN None ELSE s[Min(Above(K, s, k))]
<1> DEFINE equal == {i \in 1 .. Len(s) : K[s[i]] = k}
           above == {i \in 1 .. Len(s) : K[s[i]] >= k}
           f == FirstFrom(K, s, k)
<1>1. /\ Len(s) \in Nat /\ (\A i \in 1 .. Len(s) : K[s[i]] \in Int)
      /\ \/ f = 0 /\ \A i \in 1 .. Len(s) : K[s[i]] < k
         \/ /\ f \in 1 .. Len(s) /\ K[s[f]] >= k
            /\ \A i \in 1 .. Len(s) : i < f => K[s[i]] < k
            /\ \A i \in 1 .. Len(s) : i >= f => K[s[i]] >= k
  BY FirstIs
<1>2. f = IF above # {} THEN Min(above) ELSE 0
  BY DEF FirstFrom
<1>3. Found(K, s, k, TRUE) = (IF f = 0 \/ K[s[f]] # k THEN None ELSE s[f])
      /\ Found(K, s, k, FALSE) = (IF f = 0 THEN None ELSE s[f])
  BY DEF Found
<1> HIDE DEF f
<1>4. f = 0 <=> above = {}
  <2>1. CASE f = 0
    BY <1>1, <2>1
  <2>2. CASE f # 0
    BY <1>1, <2>2
  <2>3. QED
    BY <2>1, <2>2
<1>5. Found(K, s, k, FALSE) = IF above = {} THEN None ELSE s[Min(above)]
  BY <1>2, <1>3, <1>4
<1>6. ASSUME equal = {}
      PROVE  Found(K, s, k, TRUE) = None
  <2>1. f = 0 \/ K[s[f]] # k
    BY <1>1, <1>6
  <2>2. QED
    BY <1>3, <2>1
<1>7. ASSUME equal # {}
      PROVE  Found(K, s, k, TRUE) = s[Min(equal)]
  <2>1. Min(equal) \in equal /\ \A y \in equal : Min(equal) <= y
    <3>1. equal \in SUBSET (1 .. Len(s))
      OBVIOUS
    <3> HIDE DEF equal
    <3>2. QED
      BY <1>1, <1>7, <3>1, LeastIs
  <2> DEFINE m == Min(equal)
  <2>2. m \in 1 .. Len(s) /\ K[s[m]] = k /\ \A i \in 1 .. Len(s) : K[s[i]] = k => m <= i
    BY <2>1
  <2> HIDE DEF m
  <2>3. f # 0 /\ f \in 1 .. Len(s) /\ f <= m
    <3>1. ~ (K[s[m]] < k)
      BY <2>2
    <3>2. f # 0 /\ f \in 1 .. Len(s)
      BY <1>1, <2>2, <3>1
    <3>3. m < f => K[s[m]] < k
      BY <1>1, <2>2, <3>2
    <3>4. QED
      BY <2>2, <3>1, <3>2, <3>3
  <2>4. K[s[f]] = k
    <3>1. K[s[f]] >= k /\ K[s[f]] \in Int
      BY <1>1, <2>3
    <3>2. f = m \/ K[s[f]] <= K[s[m]]
      BY <2>2, <2>3 DEF Rising
    <3>3. QED
      BY <2>2, <3>1, <3>2
  <2>5. f = m
    BY <2>2, <2>3, <2>4
  <2>6. QED
    BY <1>3, <2>3, <2>4, <2>5 DEF m
<1>8. QED
  BY <1>5, <1>6, <1>7 DEF Equal, Above

\* The lists S are in order and sorted.
SortedGood(K, v, S) ==
  /\ S \subseteq Lists /\ Ordered(v, S) /\ \A l \in S : Rising(K, Forward(v, l))

LEMMA SortedKeeps ==
  ASSUME NEW K, NEW v, NEW S, SortedGood(K, v, S), NEW w, NEW T, NEW l, NEW s, Changed(v, S, w, T, l, s),
         l \in T => Rising(K, s)
  PROVE  SortedGood(K, w, T)
<1>1. ASSUME NEW r \in T
      PROVE  Rising(K, Forward(w, r))
  <2>1. CASE r = l
    BY <1>1, <2>1 DEF Changed
  <2>2. CASE r # l
    BY <1>1, <2>2 DEF Changed, SortedGood
  <2>3. QED
    BY <2>1, <2>2
<1>2. QED
  BY <1>1 DEF Changed, SortedGood

\* What the calls do.
LEMMA SortedInserts ==
  ASSUME EndsApart, NEW K, KeysAre(K), NEW v, NEW S, SortedGood(K, v, S), NEW l \in S,
         NEW x \in Elements, \A q \in S : x \notin ToSet(Forward(v, q)),
         NEW f, f = Found(K, Forward(v, l), K[x], FALSE),
         NEW w, w = LinkBefore(v, x, IF f = None THEN TailOf(l) ELSE f),
         NEW r, r = <<"add", l, Cardinality(Smaller(K, Forward(v, l), K[x])) + 1, x>>
  PROVE  /\ SortedGood(K, w, S) /\ Called(v, S, w, S, r)
         /\ \E k \in 0 .. Len(Forward(v, l)) :
              /\ InsertsAt(K, Forward(v, l), x, k)
              /\ Changed(v, S, w, S, l, InsertAt(Forward(v, l), k + 1, x))
<1> DEFINE s == Forward(v, l)
<1>1. S \in SUBSET Lists /\ Ordered(v, S) /\ Rising(K, s) /\ ListFacts(v, l, s)
  BY ListIs DEF SortedGood
<1>2. /\ s \in Seq(Elements) /\ Len(s) \in Nat /\ NodeOf(l, s, Len(s) + 1) = TailOf(l)
      /\ \A k \in 1 .. Len(s) : NodeOf(l, s, k) = s[k] /\ s[k] \in Elements
  BY <1>1 DEF ListFacts
<1> HIDE DEF s
<1>3. PICK k \in 0 .. Len(s) : InsertsAt(K, s, x, k)
  BY <1>1, <1>2, InsertPlace
<1>4. f = (IF k = Len(s) THEN None ELSE s[k + 1]) /\ r = <<"add", l, k + 1, x>>
  BY <1>3 DEF InsertsAt, s
<1>5. (IF f = None THEN TailOf(l) ELSE f) = NodeOf(l, s, k + 1)
  <2>1. CASE k = Len(s)
    BY <1>2, <1>4, <2>1
  <2>2. CASE k # Len(s)
    <3>1. PICK i \in 1 .. Len(s) : i = k + 1
      BY <1>2, <2>2
    <3>2. f = s[i] /\ s[i] # None
      BY <1>2, <1>4, <2>2, <3>1 DEF EndsApart
    <3>3. QED
      BY <1>2, <3>1, <3>2
  <2>3. QED
    BY <2>1, <2>2
<1>6. PutAt(v, w, l, k, x)
  BY <1>5 DEF PutAt, s
<1>7. Changed(v, S, w, S, l, InsertAt(s, k + 1, x))
  BY <1>1, <1>6, Puts DEF s
<1>8. Called(v, S, w, S, r)
  <2>1. r \in PutCalls(s, l, k, x)
    BY <1>4 DEF PutCalls
  <2>2. QED
    BY <1>1, <1>7, <2>1, PutCalled DEF s
<1>9. Rising(K, InsertAt(s, k + 1, x))
  BY <1>1, <1>2, <1>3, InsertedRises
<1>10. SortedGood(K, w, S)
  BY <1>7, <1>9, SortedKeeps
<1>11. QED
  BY <1>3, <1>7, <1>8, <1>10 DEF s

LEMMA SortedTakes ==
  ASSUME EndsApart, NEW K, NEW v, NEW S, SortedGood(K, v, S), NEW l \in S, NEW x,
         NEW w, NEW r, CutBy(v, w, l, x, r)
  PROVE  SortedGood(K, w, S) /\ Called(v, S, w, S, r)
<1> DEFINE s == Forward(v, l)
<1>1. S \in SUBSET Lists /\ Ordered(v, S) /\ Rising(K, s) /\ ListFacts(v, l, s)
  BY ListIs DEF SortedGood
<1>2. PICK k \in 1 .. Len(s) : w = Unlink(v, s[k]) /\ r \in CutCalls(s, l, k)
  BY DEF CutBy
<1>3. Changed(v, S, w, S, l, RemoveAt(s, k))
  BY <1>1, <1>2, Cuts
<1>4. Called(v, S, w, S, r)
  BY <1>1, <1>2, <1>3, CutCalled
<1>5. Rising(K, RemoveAt(s, k))
  <2>1. s \in Seq(Elements)
    BY <1>1 DEF ListFacts
  <2> HIDE DEF s
  <2>2. QED
    BY <1>1, <2>1, RemovedRises
<1>6. QED
  BY <1>3, <1>4, <1>5, SortedKeeps

LEMMA SortedComes ==
  ASSUME EndsApart, NEW K, NEW v, NEW S, SortedGood(K, v, S), NEW l \in Lists \ S
  PROVE  /\ SortedGood(K, EmptyEnds(v, {l}), S \cup {l})
         /\ Called(v, S, EmptyEnds(v, {l}), S \cup {l}, <<"create", l>>)
<1>1. S \in SUBSET Lists /\ Ordered(v, S)
  BY DEF SortedGood
<1> DEFINE w == EmptyEnds(v, {l})
           T == S \cup {l}
           e == <<>>
<1>2. Changed(v, S, w, T, l, e)
  BY <1>1, Empties
<1>3. Rising(K, e) /\ l \in T /\ l \notin S
  BY DEF Rising
<1>4. Does(Elements, IF l \in S THEN Forward(v, l) ELSE None, e, l, <<"create", l>>)
  BY DEF Does
<1> HIDE DEF w, T, e
<1>5. SortedGood(K, w, T)
  BY <1>2, <1>3, SortedKeeps
<1>6. Called(v, S, w, T, <<"create", l>>)
  BY <1>2, <1>3, <1>4, CalledIs
<1>7. QED
  BY <1>5, <1>6 DEF w, T

LEMMA SortedLeaves ==
  ASSUME EndsApart, NEW K, NEW v, NEW S, SortedGood(K, v, S), NEW l \in S
  PROVE  SortedGood(K, v, S \ {l}) /\ Called(v, S, v, S \ {l}, <<"destroy", l>>)
<1>1. S \in SUBSET Lists /\ Ordered(v, S) /\ l \in Lists /\ ListFacts(v, l, Forward(v, l))
  BY ListIs DEF SortedGood
<1> DEFINE T == S \ {l}
<1>2. Changed(v, S, v, T, l, None)
  BY <1>1, Leaves
<1>3. l \notin T
  OBVIOUS
<1>4. Does(Elements, IF l \in S THEN Forward(v, l) ELSE None, None, l, <<"destroy", l>>)
  BY <1>1 DEF Does, ListFacts
<1> HIDE DEF T
<1>5. SortedGood(K, v, T)
  BY <1>2, <1>3, SortedKeeps
<1>6. Called(v, S, v, T, <<"destroy", l>>)
  BY <1>2, <1>3, <1>4, CalledIs
<1>7. QED
  BY <1>5, <1>6 DEF T

-----------------------------------------------------------------------------
(* HashTable: the buckets S in the links v, the list o of all elements in  *)
(* the links a, and the number n of them; H has the buckets of elements.   *)

\* y is in front of z.
Precedes(s, y, z) == \E i, j \in 1 .. Len(s) : i < j /\ s[i] = y /\ s[j] = z
\* Of the elements with one key, those that came later in t are first in s.
NewestFirst(K, s, t) ==
  \A y, z \in Elements : Precedes(s, y, z) /\ K[y] = K[z] => Precedes(t, z, y)

BucketsAre(H, S) == \A x \in Elements : H[x] \in S
BucketIs(K, H, k, b) == \A x \in Elements : K[x] = k => H[x] = b
Fresh(v, S, x) == \A q \in S : x \notin ToSet(Forward(v, q))
Split(H, s, t, b) == ToSet(s) = {x \in ToSet(t) : H[x] = b}

TableGood(K, H, S, v, o, a, n) ==
  /\ SortedGood(K, v, S) /\ o \in Lists /\ Ordered(a, {o})
  /\ \A b \in S : /\ Split(H, Forward(v, b), Forward(a, o), b)
                  /\ NewestFirst(K, Forward(v, b), Forward(a, o))
  /\ n = Len(Forward(a, o))

\* What the order of a sequence has to do with that of one changed.
LEMMA PrecedesPut ==
  ASSUME NEW s \in Seq(Elements), NEW x \in Elements, NEW k \in 0 .. Len(s), NEW y, NEW z,
         Precedes(InsertAt(s, k + 1, x), y, z)
  PROVE  \/ Precedes(s, y, z)
         \/ y = x /\ z \in ToSet(s)
         \/ z = x /\ \E i \in 1 .. k : y = s[i]
<1>1. Len(s) \in Nat /\ DOMAIN s = 1 .. Len(s)
  OBVIOUS
<1>2. PICK p \in 1 .. Len(s) + 1 : p = k + 1
  BY <1>1
<1> DEFINE t == InsertAt(s, p, x)
<1>3. /\ Len(t) = Len(s) + 1
      /\ \A j \in 1 .. Len(s) + 1 : t[j] = IF j < p THEN s[j] ELSE IF j = p THEN x ELSE s[j - 1]
  BY InsertAtIs
<1>4. Precedes(t, y, z)
  BY <1>2
<1> HIDE DEF t
<1>5. PICK i \in 1 .. Len(s) + 1, j \in 1 .. Len(s) + 1 : i < j /\ t[i] = y /\ t[j] = z
  BY <1>3, <1>4 DEF Precedes
<1>6. p \in Int /\ i \in Int /\ j \in Int
  BY <1>1
<1>7. CASE j < p
  <2>1. i < p
    BY <1>5, <1>6, <1>7
  <2>2. s[i] = y /\ s[j] = z
    BY <1>3, <1>5, <1>7, <2>1
  <2>3. i \in 1 .. Len(s) /\ j \in 1 .. Len(s)
    BY <1>1, <1>6, <1>7, <2>1
  <2>4. QED
    BY <1>5, <2>2, <2>3 DEF Precedes
<1>8. CASE j = p
  <2>1. z = x
    BY <1>3, <1>5, <1>6, <1>8
  <2>2. i \in 1 .. k /\ i < p
    BY <1>1, <1>2, <1>5, <1>6, <1>8
  <2>3. y = s[i]
    BY <1>3, <1>5, <2>2
  <2>4. QED
    BY <2>1, <2>2, <2>3
<1>9. CASE j > p
  <2>1. PICK m \in 1 .. Len(s) : m = j - 1
    BY <1>1, <1>6, <1>9
  <2>2. z = s[m]
    BY <1>3, <1>5, <1>6, <1>9, <2>1
  <2>3. CASE i < p
    <3>1. y = s[i] /\ i \in 1 .. Len(s) /\ i < m
      BY <1>1, <1>3, <1>5, <1>6, <1>9, <2>1, <2>3
    <3>2. QED
      BY <2>2, <3>1 DEF Precedes
  <2>4. CASE i = p
    <3>1. y = x
      BY <1>3, <1>5, <1>6, <2>4
    <3>2. QED
      BY <1>1, <2>2, <3>1 DEF ToSet
  <2>5. CASE i > p
    <3>1. PICK q \in 1 .. Len(s) : q = i - 1
      BY <1>1, <1>6, <2>5
    <3>2. y = s[q] /\ q < m
      BY <1>3, <1>5, <1>6, <2>1, <2>5, <3>1
    <3>3. QED
      BY <2>2, <3>2 DEF Precedes
  <2>6. QED
    BY <1>6, <2>3, <2>4, <2>5
<1>10. QED
  BY <1>6, <1>7, <1>8, <1>9

LEMMA PrecedesAppend ==
  ASSUME NEW t \in Seq(Elements), NEW x \in Elements
  PROVE  /\ \A y, z : Precedes(t, y, z) => Precedes(Append(t, x), y, z)
         /\ \A y \in ToSet(t) : Precedes(Append(t, x), y, x)
<1>1. /\ Len(t) \in Nat /\ DOMAIN t = 1 .. Len(t) /\ Len(Append(t, x)) = Len(t) + 1
      /\ Append(t, x)[Len(t) + 1] = x /\ \A i \in 1 .. Len(t) : Append(t, x)[i] = t[i]
  OBVIOUS
<1>2. Len(t) + 1 \in 1 .. Len(t) + 1 /\ \A i \in 1 .. Len(t) : i \in 1 .. Len(t) + 1 /\ i < Len(t) + 1
  BY <1>1
<1> DEFINE u == Append(t, x)
           n == Len(t) + 1
<1>3. /\ Len(u) = n /\ u[n] = x /\ n \in 1 .. n
      /\ \A i \in 1 .. Len(t) : u[i] = t[i] /\ i \in 1 .. n /\ i < n
  BY <1>1, <1>2
<1> HIDE DEF u, n
<1>4. ASSUME NEW y, NEW z, Precedes(t, y, z)
      PROVE  Precedes(u, y, z)
  BY <1>3, <1>4 DEF Precedes
<1>5. ASSUME NEW y \in ToSet(t)
      PROVE  Precedes(u, y, x)
  <2>1. PICK i \in 1 .. Len(t) : y = t[i]
    BY <1>1 DEF ToSet
  <2>2. QED
    BY <1>3, <2>1 DEF Precedes
<1>6. QED
  BY <1>4, <1>5 DEF u

LEMMA PrecedesCut ==
  ASSUME NEW s \in Seq(Elements), NEW k \in 1 .. Len(s), NEW y, NEW z
  PROVE  /\ Precedes(RemoveAt(s, k), y, z) => Precedes(s, y, z)
         /\ Precedes(s, y, z) /\ y # s[k] /\ z # s[k] => Precedes(RemoveAt(s, k), y, z)
<1> DEFINE t == RemoveAt(s, k)
<1>0. /\ Len(t) = Len(s) - 1
      /\ \A j \in 1 .. Len(s) - 1 : t[j] = IF j < k THEN s[j] ELSE s[j + 1]
  BY RemoveAtIs
<1> HIDE DEF t
<1>1. /\ Len(s) \in Nat /\ Len(t) = Len(s) - 1
      /\ \A j \in 1 .. Len(s) - 1 : t[j] = IF j < k THEN s[j] ELSE s[j + 1]
  BY <1>0
<1>2. ASSUME NEW i \in 1 .. Len(s) - 1, NEW j \in 1 .. Len(s) - 1, i < j
      PROVE  \E p, q \in 1 .. Len(s) : p < q /\ t[i] = s[p] /\ t[j] = s[q]
  <2>1. PICK p \in 1 .. Len(s) : p = IF i < k THEN i ELSE i + 1
    BY <1>1
  <2>2. PICK q \in 1 .. Len(s) : q = IF j < k THEN j ELSE j + 1
    BY <1>1
  <2>3. t[i] = s[p] /\ t[j] = s[q]
    BY <1>1, <2>1, <2>2
  <2>4. p < q
    BY <1>1, <1>2, <2>1, <2>2
  <2>5. QED
    BY <2>3, <2>4
<1>3. ASSUME Precedes(t, y, z)
      PROVE  Precedes(s, y, z)
  <2>1. PICK i \in 1 .. Len(s) - 1, j \in 1 .. Len(s) - 1 : i < j /\ t[i] = y /\ t[j] = z
    BY <1>0, <1>3 DEF Precedes
  <2>2. \E p, q \in 1 .. Len(s) : p < q /\ t[i] = s[p] /\ t[j] = s[q]
    BY <1>2, <2>1
  <2>3. QED
    BY <2>1, <2>2 DEF Precedes
<1>4. ASSUME NEW i \in 1 .. Len(s), i # k
      PROVE  \E m \in 1 .. Len(s) - 1 : m = (IF i < k THEN i ELSE i - 1) /\ t[m] = s[i]
  <2>1. PICK m \in 1 .. Len(s) - 1 : m = IF i < k THEN i ELSE i - 1
    BY <1>1, <1>4
  <2>2. t[m] = IF m < k THEN s[m] ELSE s[m + 1]
    BY <1>1
  <2>3. IF i < k THEN m = i /\ m < k ELSE m + 1 = i /\ ~ (m < k)
    BY <1>1, <1>4, <2>1
  <2>4. QED
    BY <2>1, <2>2, <2>3
<1>5. ASSUME Precedes(s, y, z), y # s[k], z # s[k]
      PROVE  Precedes(t, y, z)
  <2>1. PICK i \in 1 .. Len(s), j \in 1 .. Len(s) : i < j /\ s[i] = y /\ s[j] = z
    BY <1>5 DEF Precedes
  <2>2. i # k /\ j # k
    BY <1>5, <2>1
  <2>3. PICK m \in 1 .. Len(s) - 1 : m = (IF i < k THEN i ELSE i - 1) /\ t[m] = s[i]
    BY <1>4, <2>2
  <2>4. PICK q \in 1 .. Len(s) - 1 : q = (IF j < k THEN j ELSE j - 1) /\ t[q] = s[j]
    BY <1>4, <2>2
  <2>5. m < q
    BY <1>1, <2>1, <2>2, <2>3, <2>4
  <2>6. QED
    BY <1>1, <2>1, <2>3, <2>4, <2>5 DEF Precedes
<1>6. QED
  BY <1>3, <1>5 DEF t

\* An empty table.
LEMMA TableMade ==
  ASSUME EndsApart, NEW K, NEW H, NEW S \in SUBSET Lists, NEW v, NEW a, LinkTypes(v), LinkTypes(a),
         NEW o \in Lists
  PROVE  TableGood(K, H, S, EmptyEnds(v, S), o, EmptyEnds(a, {o}), 0)
<1>1. {o} \in SUBSET Lists /\ {} \in SUBSET Lists
  OBVIOUS
<1>2. Ordered(v, {}) /\ Ordered(a, {})
  BY NoneOrdered
<1> DEFINE w == EmptyEnds(v, S)
           b == EmptyEnds(a, {o})
           e == <<>>
<1>3. Ordered(w, S) /\ \A l \in S : Forward(w, l) = e
  <2>1. /\ Ordered(EmptyEnds(v, S), {} \cup S)
        /\ \A l \in S : Forward(EmptyEnds(v, S), l) = <<>>
    BY <1>1, <1>2, Emptied
  <2>2. {} \cup S = S
    OBVIOUS
  <2>3. QED
    BY <2>1, <2>2
<1>4. Ordered(b, {o}) /\ Forward(b, o) = e
  <2>1. /\ Ordered(EmptyEnds(a, {o}), {} \cup {o})
        /\ \A l \in {o} : Forward(EmptyEnds(a, {o}), l) = <<>>
    BY <1>1, <1>2, Emptied
  <2>2. {} \cup {o} = {o}
    OBVIOUS
  <2>3. QED
    BY <2>1, <2>2
<1>5. Len(e) = 0 /\ ToSet(e) = {} /\ Rising(K, e) /\ ~ (\E i \in 1 .. Len(e) : TRUE)
  BY DEF ToSet, Rising
<1> HIDE DEF w, b, e
<1>6. \A l \in S : Split(H, Forward(w, l), Forward(b, o), l)
  BY <1>3, <1>4, <1>5 DEF Split
<1>7. \A l \in S : NewestFirst(K, Forward(w, l), Forward(b, o))
  BY <1>3, <1>4, <1>5 DEF NewestFirst, Precedes
<1>8. SortedGood(K, w, S)
  BY <1>3, <1>5 DEF SortedGood
<1>9. TableGood(K, H, S, w, o, b, 0)
  BY <1>4, <1>5, <1>6, <1>7, <1>8 DEF TableGood
<1>10. QED
  BY <1>9 DEF w, b

\* An element goes to its bucket and behind all the others.
TableInserting(K, H, S, v, o, a, n, x, w, b) ==
  /\ KeysAre(K) /\ BucketsAre(H, S) /\ TableGood(K, H, S, v, o, a, n)
  /\ x \in Elements /\ Fresh(v, S, x) /\ b = LinkBefore(a, x, TailOf(o))
  /\ LET f == Found(K, Forward(v, H[x]), K[x], FALSE)
     IN w = LinkBefore(v, x, IF f = None THEN TailOf(H[x]) ELSE f)

LEMMA TableInserts ==
  ASSUME EndsApart, NEW K, NEW H, NEW S, NEW v, NEW o, NEW a, NEW n, NEW x, NEW w, NEW b,
         TableInserting(K, H, S, v, o, a, n, x, w, b)
  PROVE  TableGood(K, H, S, w, o, b, n + 1) /\ Forward(b, o) = Append(Forward(a, o), x)
<1> /\ KeysAre(K) /\ BucketsAre(H, S) /\ TableGood(K, H, S, v, o, a, n)
      /\ x \in Elements
  BY DEF TableInserting
<1> \A q \in S : x \notin ToSet(Forward(v, q))
  BY DEF TableInserting, Fresh
<1> PICK l : l = H[x]
  OBVIOUS
<1>0. PICK f : f = Found(K, Forward(v, l), K[x], FALSE)
               /\ w = LinkBefore(v, x, IF f = None THEN TailOf(l) ELSE f)
  BY DEF TableInserting
<1> DEFINE t == Forward(a, o)
           s == Forward(v, l)
<1>1. /\ SortedGood(K, v, S) /\ o \in Lists /\ Ordered(a, {o}) /\ n = Len(t)
      /\ \A q \in S : Split(H, Forward(v, q), t, q) /\ NewestFirst(K, Forward(v, q), t)
  BY DEF TableGood
<1>2. l \in S /\ S \in SUBSET Lists /\ {o} \in SUBSET Lists
  BY <1>1 DEF BucketsAre, SortedGood
<1>3. ListFacts(a, o, t)
  BY <1>1, <1>2, ListIs
<1>4. x \notin ToSet(t)
  BY <1>1, <1>2 DEF Split
<1>5. Ordered(b, {o}) /\ Forward(b, o) = Append(t, x)
  <2>1. /\ t \in Seq(Elements) /\ Len(t) \in Nat /\ NodeOf(o, t, Len(t) + 1) = TailOf(o)
        /\ InsertAt(t, Len(t) + 1, x) = Append(t, x)
    BY <1>3 DEF ListFacts
  <2>2. PICK k \in 0 .. Len(t) : k = Len(t)
    BY <2>1
  <2>3. PutAt(a, b, o, k, x)
    BY <2>1, <2>2 DEF PutAt, TableInserting
  <2>4. \A r \in {o} : x \notin ToSet(Forward(a, r))
    BY <1>4
  <2>5. Ordered(b, {o}) /\ Forward(b, o) = InsertAt(t, k + 1, x)
    BY <1>1, <1>2, <2>2, <2>3, <2>4, Inserted
  <2>6. QED
    BY <2>1, <2>2, <2>5
<1>6. PICK k \in 0 .. Len(s) : /\ InsertsAt(K, s, x, k)
                               /\ Changed(v, S, w, S, l, InsertAt(s, k + 1, x))
  <2>1. PICK r : r = <<"add", l, Cardinality(Smaller(K, s, K[x])) + 1, x>>
    OBVIOUS
  <2>2. QED
    BY <1>0, <1>1, <1>2, <2>1, SortedInserts
<1>7. SortedGood(K, w, S)
  <2>1. PICK r : r = <<"add", l, Cardinality(Smaller(K, s, K[x])) + 1, x>>
    OBVIOUS
  <2>2. QED
    BY <1>0, <1>1, <1>2, <2>1, SortedInserts
<1>8. Forward(w, l) = InsertAt(s, k + 1, x) /\ \A q \in S \ {l} : Forward(w, q) = Forward(v, q)
  BY <1>2, <1>6 DEF Changed
<1>9. ListFacts(v, l, s)
  BY <1>1, <1>2, ListIs DEF SortedGood
<1>10. /\ t \in Seq(Elements) /\ s \in Seq(Elements) /\ Len(s) \in Nat /\ Len(t) \in Nat
       /\ ToSet(InsertAt(s, k + 1, x)) = ToSet(s) \cup {x}
       /\ ToSet(t) \subseteq Elements /\ ToSet(s) \subseteq Elements
       /\ \A i \in 1 .. Len(s) : s[i] \in ToSet(s)
  <2>1. ToSet(InsertAt(s, k + 1, x)) = ToSet(s) \cup {x}
    BY <1>9 DEF ListFacts
  <2>2. t \in Seq(Elements) /\ Len(t) \in Nat /\ ToSet(t) \subseteq Elements
    BY <1>3 DEF ListFacts
  <2>3. s \in Seq(Elements) /\ Len(s) \in Nat /\ ToSet(s) \subseteq Elements
    BY <1>9 DEF ListFacts
  <2>4. \A i \in 1 .. Len(s) : s[i] \in ToSet(s)
    BY <1>9 DEF ListFacts
  <2> HIDE DEF t, s
  <2>5. QED
    BY <2>1, <2>2, <2>3, <2>4
<1>11. ToSet(Append(t, x)) = ToSet(t) \cup {x} /\ Len(Append(t, x)) = Len(t) + 1
  <2>1. InsertAt(t, Len(t) + 1, x) = Append(t, x)
    BY <1>3 DEF ListFacts
  <2>2. PICK m \in 0 .. Len(t) : m = Len(t)
    BY <1>10
  <2>3. ToSet(InsertAt(t, m + 1, x)) = ToSet(t) \cup {x} /\ Len(InsertAt(t, m + 1, x)) = Len(t) + 1
    BY <1>3 DEF ListFacts
  <2>4. QED
    BY <2>1, <2>2, <2>3
<1> HIDE DEF t, s
<1>12. ASSUME NEW q \in S
       PROVE  Split(H, Forward(w, q), Append(t, x), q)
  <2>1. Split(H, Forward(v, q), t, q)
    BY <1>1
  <2>2. CASE q = l
    BY <1>8, <1>10, <1>11, <2>1, <2>2 DEF Split, s
  <2>3. CASE q # l
    BY <1>8, <1>11, <2>1, <2>3 DEF Split
  <2>4. QED
    BY <2>2, <2>3
<1>13. ASSUME NEW q \in S
       PROVE  NewestFirst(K, Forward(w, q), Append(t, x))
  <2>1. NewestFirst(K, Forward(v, q), t)
    BY <1>1
  <2>2. ASSUME NEW y \in Elements, NEW z \in Elements, Precedes(Forward(w, q), y, z), K[y] = K[z]
        PROVE  Precedes(Append(t, x), z, y)
    <3>1. CASE Precedes(Forward(v, q), y, z)
      <4>1. Precedes(t, z, y)
        BY <2>1, <2>2, <3>1 DEF NewestFirst
      <4>2. QED
        BY <1>10, <4>1, PrecedesAppend
    <3>2. CASE ~ Precedes(Forward(v, q), y, z)
      <4>1. q = l /\ Precedes(InsertAt(s, k + 1, x), y, z) /\ ~ Precedes(s, y, z)
        BY <1>8, <2>2, <3>2 DEF s
      <4>2. (y = x /\ z \in ToSet(s)) \/ (z = x /\ \E i \in 1 .. k : y = s[i])
        BY <1>10, <4>1, PrecedesPut
      <4>3. CASE y = x /\ z \in ToSet(s)
        <5>1. z \in ToSet(t)
          BY <1>1, <1>2, <4>3 DEF Split, s
        <5>2. QED
          BY <1>10, <4>3, <5>1, PrecedesAppend
      <4>4. CASE z = x /\ \E i \in 1 .. k : y = s[i]
        <5>1. PICK i \in 1 .. k : y = s[i]
          BY <4>4
        <5>2. i \in 1 .. Len(s) /\ i <= k
          BY <1>10
        <5>3. K[s[i]] < K[x]
          BY <1>6, <5>2 DEF InsertsAt
        <5>4. K[x] \in Int
          BY DEF KeysAre
        <5>5. QED
          BY <2>2, <4>4, <5>1, <5>3, <5>4
      <4>5. QED
        BY <4>2, <4>3, <4>4
    <3>3. QED
      BY <3>1, <3>2
  <2>3. QED
    BY <2>2 DEF NewestFirst
<1>14. n + 1 = Len(Append(t, x))
  BY <1>1, <1>11
<1>15. TableGood(K, H, S, w, o, b, n + 1)
  <2>1. Forward(b, o) = Append(t, x)
    BY <1>5 DEF t
  <2>2. QED
    BY <1>1, <1>5, <1>7, <1>12, <1>13, <1>14, <2>1 DEF TableGood
<1>16. QED
  BY <1>5, <1>15 DEF t

\* An element goes out of its bucket and of the list of all.
LEMMA TableRemoves ==
  ASSUME EndsApart, NEW K, NEW H, NEW S, BucketsAre(H, S), NEW v, NEW o, NEW a, NEW n,
         TableGood(K, H, S, v, o, a, n), NEW x \in ToSet(Forward(a, o))
  PROVE  /\ TableGood(K, H, S, Unlink(v, x), o, Unlink(a, x), n - 1)
         /\ \E i \in 1 .. Len(Forward(a, o)) : Forward(Unlink(a, x), o) = RemoveAt(Forward(a, o), i)
<1> DEFINE t == Forward(a, o)
           l == H[x]
           s == Forward(v, l)
           w == Unlink(v, x)
           b == Unlink(a, x)
<1>1. /\ SortedGood(K, v, S) /\ o \in Lists /\ Ordered(a, {o}) /\ n = Len(t)
      /\ \A q \in S : Split(H, Forward(v, q), t, q) /\ NewestFirst(K, Forward(v, q), t)
  BY DEF TableGood
<1>2. S \in SUBSET Lists /\ {o} \in SUBSET Lists /\ o \in {o} /\ Ordered(v, S)
  BY <1>1 DEF SortedGood
<1>3. ListFacts(a, o, t)
  BY <1>1, <1>2, ListIs
<1>4. x \in Elements
  BY <1>3 DEF ListFacts
<1>5. l \in S
  BY <1>4 DEF BucketsAre
<1>6. ListFacts(v, l, s) /\ x \in ToSet(s)
  BY <1>1, <1>2, <1>4, <1>5, ListIs DEF Split
<1>7. PICK k \in 1 .. Len(s) : x = s[k]
  BY <1>6 DEF ListFacts
<1>8. PICK p \in 1 .. Len(t) : x = t[p]
  BY <1>3 DEF ListFacts
<1>9. /\ Ordered(w, S) /\ Forward(w, l) = RemoveAt(s, k)
      /\ \A q \in S \ {l} : Forward(w, q) = Forward(v, q)
  <2>1. LET u == Unlink(v, Forward(v, l)[k])
        IN /\ Ordered(u, S)
           /\ Forward(u, l) = RemoveAt(Forward(v, l), k)
           /\ \A r \in S \ {l} : Forward(u, r) = Forward(v, r)
    BY <1>2, <1>5, Removed
  <2>2. QED
    BY <1>7, <2>1
<1>10. Ordered(b, {o}) /\ Forward(b, o) = RemoveAt(t, p)
  <2>1. LET u == Unlink(a, Forward(a, o)[p])
        IN /\ Ordered(u, {o})
           /\ Forward(u, o) = RemoveAt(Forward(a, o), p)
           /\ \A r \in {o} \ {o} : Forward(u, r) = Forward(a, r)
    BY <1>1, <1>2, Removed
  <2>2. QED
    BY <1>8, <2>1
<1>11. /\ t \in Seq(Elements) /\ s \in Seq(Elements) /\ Len(t) \in Nat
       /\ ToSet(RemoveAt(s, k)) = ToSet(s) \ {x}
       /\ ToSet(RemoveAt(t, p)) = ToSet(t) \ {x} /\ Len(RemoveAt(t, p)) = Len(t) - 1
  BY <1>3, <1>6, <1>7, <1>8 DEF ListFacts
<1> HIDE DEF t, s, w, b, l
<1>12. SortedGood(K, w, S)
  <2>1. \A q \in S : Rising(K, Forward(v, q))
    BY <1>1 DEF SortedGood
  <2>2. Rising(K, RemoveAt(s, k))
    BY <1>5, <1>11, <2>1, RemovedRises DEF s
  <2>3. ASSUME NEW q \in S
        PROVE  Rising(K, Forward(w, q))
    BY <1>9, <2>1, <2>2
  <2>4. QED
    BY <1>2, <1>9, <2>3 DEF SortedGood
<1>13. ASSUME NEW q \in S
       PROVE  Split(H, Forward(w, q), RemoveAt(t, p), q)
  <2>1. Split(H, Forward(v, q), t, q)
    BY <1>1
  <2>2. CASE q = l
    BY <1>9, <1>11, <2>1, <2>2 DEF Split, s
  <2>3. CASE q # l
    BY <1>9, <1>11, <2>1, <2>3 DEF Split, l
  <2>4. QED
    BY <2>2, <2>3
<1>14. ASSUME NEW q \in S
       PROVE  NewestFirst(K, Forward(w, q), RemoveAt(t, p))
  <2>1. NewestFirst(K, Forward(v, q), t) /\ Split(H, Forward(w, q), RemoveAt(t, p), q)
    BY <1>1, <1>13
  <2>2. ASSUME NEW y \in Elements, NEW z \in Elements, Precedes(Forward(w, q), y, z), K[y] = K[z]
        PROVE  Precedes(RemoveAt(t, p), z, y)
    <3>1. Precedes(Forward(v, q), y, z)
      <4>1. CASE q = l
        BY <1>9, <1>11, <2>2, <4>1, PrecedesCut DEF s
      <4>2. CASE q # l
        BY <1>9, <2>2, <4>2
      <4>3. QED
        BY <4>1, <4>2
    <3>2. Precedes(t, z, y)
      BY <2>1, <2>2, <3>1 DEF NewestFirst
    <3>3. y \in ToSet(Forward(w, q)) /\ z \in ToSet(Forward(w, q))
      <4>1. ListFacts(w, q, Forward(w, q))
        BY <1>2, <1>9, ListIs
      <4>2. QED
        BY <2>2, <4>1 DEF Precedes, ListFacts
    <3>4. y # t[p] /\ z # t[p]
      BY <1>8, <1>11, <2>1, <3>3 DEF Split
    <3>5. QED
      BY <1>11, <3>2, <3>4, PrecedesCut
  <2>3. QED
    BY <2>2 DEF NewestFirst
<1>15. n - 1 = Len(RemoveAt(t, p))
  BY <1>1, <1>11
<1>16. TableGood(K, H, S, w, o, b, n - 1)
  BY <1>1, <1>10, <1>12, <1>13, <1>14, <1>15 DEF TableGood
<1>17. QED
  BY <1>10, <1>16 DEF w, b, t

\* An injective sequence has as many elements as places.
LEMMA InjectiveCounts ==
  ASSUME NEW s \in Seq(Elements), IsInjective(s)
  PROVE  Cardinality(ToSet(s)) = Len(s)
<1>1. Len(s) \in Nat /\ DOMAIN s = 1 .. Len(s)
  OBVIOUS
<1>2. s \in Bijection(1 .. Len(s), ToSet(s))
  <2>1. s \in [1 .. Len(s) -> ToSet(s)]
    BY <1>1 DEF ToSet
  <2>2. \A i, j \in 1 .. Len(s) : s[i] = s[j] => i = j
    BY <1>1 DEF IsInjective
  <2>3. \A y \in ToSet(s) : \E i \in 1 .. Len(s) : s[i] = y
    BY <1>1 DEF ToSet
  <2>4. QED
    BY <2>1, <2>2, <2>3 DEF Bijection, Injection, Surjection, IsInjective
<1>3. ExistsBijection(1 .. Len(s), ToSet(s))
  BY <1>2 DEF ExistsBijection
<1>4. IsFiniteSet(1 .. Len(s)) /\ Cardinality(1 .. Len(s)) = Len(s)
  <2>1. IsFiniteSet(1 .. Len(s))
        /\ Cardinality(1 .. Len(s)) = IF 1 > Len(s) THEN 0 ELSE Len(s) - 1 + 1
    BY <1>1, FS_Interval
  <2>2. QED
    BY <1>1, <2>1
<1>5. QED
  BY <1>3, <1>4, FS_Bijection

LEMMA TableShows ==
  ASSUME EndsApart, NEW K, NEW H, NEW S, NEW v, NEW o, NEW a, NEW n, TableGood(K, H, S, v, o, a, n)
  PROVE  LET t == Forward(a, o)
         IN /\ \A b \in S : ToSet(Forward(v, b)) = {x \in ToSet(t) : H[x] = b}
            /\ Cardinality(ToSet(t)) = Len(t) /\ n = Len(t)
            /\ Backward(a, o) = Reverse(t)
<1> DEFINE t == Forward(a, o)
<1>1. {o} \in SUBSET Lists /\ Ordered(a, {o}) /\ n = Len(t)
  BY DEF TableGood
<1>2. ListFacts(a, o, t)
  BY <1>1, ListIs
<1>3. t \in Seq(Elements) /\ IsInjective(t) /\ Backward(a, o) = Reverse(t)
  BY <1>2 DEF ListFacts
<1> HIDE DEF t
<1>4. Cardinality(ToSet(t)) = Len(t)
  BY <1>3, InjectiveCounts
<1> USE DEF t
<1>5. \A b \in S : ToSet(Forward(v, b)) = {x \in ToSet(t) : H[x] = b}
  BY DEF TableGood, Split
<1>6. QED
  BY <1>1, <1>3, <1>4, <1>5

\* What is found in the bucket of a key is the last with that key of all.
LookingFor(K, H, S, v, o, a, n, k, b) ==
  /\ KeysAre(K) /\ TableGood(K, H, S, v, o, a, n)
  /\ k \in Int /\ b \in S /\ BucketIs(K, H, k, b)
FindsNewest(K, s, t, k) ==
  Found(K, s, k, TRUE) = IF Equal(K, t, k) = {} THEN None ELSE t[Max(Equal(K, t, k))]

LEMMA NewestIs ==
  ASSUME EndsApart, NEW K, NEW H, NEW S, NEW v, NEW o, NEW a, NEW n, NEW k, NEW b,
         LookingFor(K, H, S, v, o, a, n, k, b)
  PROVE  FindsNewest(K, Forward(v, b), Forward(a, o), k)
<1> DEFINE t == Forward(a, o)
           s == Forward(v, b)
           equal == {i \in 1 .. Len(t) : K[t[i]] = k}
           here == {i \in 1 .. Len(s) : K[s[i]] = k}
<1> KeysAre(K) /\ TableGood(K, H, S, v, o, a, n) /\ k \in Int /\ b \in S /\ BucketIs(K, H, k, b)
  BY DEF LookingFor
<1>1. /\ S \in SUBSET Lists /\ Ordered(v, S) /\ {o} \in SUBSET Lists /\ Ordered(a, {o})
      /\ Rising(K, s) /\ NewestFirst(K, s, t) /\ Split(H, s, t, b)
  BY DEF TableGood, SortedGood
<1>2. ListFacts(a, o, t) /\ ListFacts(v, b, s)
  BY <1>1, ListIs
<1>3. /\ t \in Seq(Elements) /\ IsInjective(t) /\ Len(t) \in Nat /\ DOMAIN t = 1 .. Len(t)
      /\ s \in Seq(Elements) /\ Len(s) \in Nat
      /\ \A x \in ToSet(t) : \E i \in 1 .. Len(t) : x = t[i]
      /\ \A i \in 1 .. Len(t) : t[i] \in ToSet(t)
      /\ \A x \in ToSet(s) : \E i \in 1 .. Len(s) : x = s[i]
      /\ \A i \in 1 .. Len(s) : s[i] \in ToSet(s)
  BY <1>2 DEF ListFacts
<1>4. Found(K, s, k, TRUE) = IF here = {} THEN None ELSE s[Min(here)]
  <2> HIDE DEF s
  <2>1. LET e == {i \in 1 .. Len(s) : K[s[i]] = k}
        IN Found(K, s, k, TRUE) = IF e = {} THEN None ELSE s[Min(e)]
    <3>1. s \in Seq(Elements) /\ Rising(K, s)
      BY <1>1, <1>3
    <3>2. Found(K, s, k, TRUE) = IF Equal(K, s, k) = {} THEN None ELSE s[Min(Equal(K, s, k))]
      BY <3>1, FoundIs
    <3>3. QED
      BY <3>2 DEF Equal
  <2>2. QED
    BY <2>1
<1> HIDE DEF t, s
<1>5. \A i \in 1 .. Len(t) : K[t[i]] = k => \E j \in 1 .. Len(s) : t[i] = s[j]
  <2>1. ASSUME NEW i \in 1 .. Len(t), K[t[i]] = k
        PROVE  \E j \in 1 .. Len(s) : t[i] = s[j]
    <3>1. t[i] \in ToSet(t) /\ t[i] \in Elements
      BY <1>3
    <3>2. t[i] \in ToSet(s)
      BY <1>1, <2>1, <3>1 DEF Split, BucketIs
    <3>3. QED
      BY <1>3, <3>2
  <2>2. QED
    BY <2>1
<1>6. \A i \in 1 .. Len(s) : \E j \in 1 .. Len(t) : s[i] = t[j]
  BY <1>1, <1>3 DEF Split
<1>7. ASSUME equal = {}
      PROVE  Found(K, s, k, TRUE) = None
  <2>1. here = {}
    BY <1>6, <1>7
  <2>2. QED
    BY <1>4, <2>1
<1>8. ASSUME equal # {}
      PROVE  Found(K, s, k, TRUE) = t[Max(equal)]
  <2>1. here # {}
    BY <1>5, <1>8
  <2>2. Min(here) \in here /\ \A i \in here : Min(here) <= i
    <3>1. here \in SUBSET (1 .. Len(s))
      OBVIOUS
    <3> HIDE DEF here
    <3>2. QED
      BY <1>3, <2>1, <3>1, LeastIs
  <2>3. Max(equal) \in equal /\ \A i \in equal : Max(equal) >= i
    <3>1. equal \in SUBSET (1 .. Len(t))
      OBVIOUS
    <3> HIDE DEF equal
    <3>2. QED
      BY <1>3, <1>8, <3>1, GreatestIs
  <2> DEFINE m == Min(here)
             q == Max(equal)
  <2>4. /\ m \in 1 .. Len(s) /\ K[s[m]] = k /\ q \in 1 .. Len(t) /\ K[t[q]] = k
        /\ (\A i \in 1 .. Len(s) : K[s[i]] = k => m <= i)
        /\ \A i \in 1 .. Len(t) : K[t[i]] = k => q >= i
    BY <2>2, <2>3
  <2> HIDE DEF m, q
  <2>5. PICK j \in 1 .. Len(s) : t[q] = s[j]
    BY <1>5, <2>4
  <2>6. m = j \/ m < j
    BY <2>4, <2>5
  <2>7. ~ (m < j)
    <3>1. SUFFICES ASSUME m < j
                   PROVE  FALSE
      OBVIOUS
    <3>2. Precedes(s, s[m], s[j])
      BY <2>4, <3>1 DEF Precedes
    <3>3. s[m] \in Elements /\ s[j] \in Elements /\ K[s[m]] = K[s[j]]
      BY <1>3, <2>4, <2>5
    <3>4. Precedes(t, s[j], s[m])
      BY <1>1, <3>2, <3>3 DEF NewestFirst
    <3>5. PICK i \in 1 .. Len(t), p \in 1 .. Len(t) : i < p /\ t[i] = s[j] /\ t[p] = s[m]
      BY <3>4 DEF Precedes
    <3>6. i = q
      BY <1>3, <2>4, <2>5, <3>5 DEF IsInjective
    <3>7. q >= p
      BY <2>4, <3>5
    <3>8. QED
      BY <2>4, <3>5, <3>6, <3>7
  <2>8. s[m] = t[q]
    BY <2>5, <2>6, <2>7
  <2>9. QED
    BY <1>4, <2>1, <2>8 DEF m, q
<1>9. Found(K, s, k, TRUE) = IF equal = {} THEN None ELSE t[Max(equal)]
  BY <1>7, <1>8
<1>10. QED
  BY <1>9 DEF FindsNewest, Equal, t, s
=============================================================================
