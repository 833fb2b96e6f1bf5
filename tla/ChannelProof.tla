----------------------------- MODULE ChannelProof -----------------------------
EXTENDS MCQueues, TLAPS

-----------------------------------------------------------------------------
(* The inductive invariant of the channel.                                 *)

\* The position k places after the receiver's.
Ahead(k) == (ReceivePos + k) % Word

\* Who runs what, and what it has in hand: the sender's element is its
\* parameter, the receiver's the one it has copied.
Phases ==
  /\ op[sender] # "dequeue" /\ op[receiver] # "enqueue"
  /\ \A t \in Threads :
       /\ pc[t] = "idle" <=> op[t] = "none"
       /\ pc[t] \in {"copy", "inc"} => op[t] \notin Queries /\ answer[t] = 0
  /\ element[sender] \in IF op[sender] = "enqueue" THEN Values ELSE {Null}
  /\ pc[receiver] \notin {"inc", "done"} => element[receiver] = Null
  /\ op[receiver] # "dequeue" => element[receiver] = Null

\* The ring has one slot that is not filled.  The sender knows its own
\* position, and once it goes on to copy there stays room for its element.
SenderView ==
  /\ Waiting < SIZE
  /\ pc[sender] = "readReceive" => sendpos[sender] = Local(sender, SendPos)
  /\ pc[sender] \in {"copy", "inc"} => sendpos[sender] = Slot(SendPos) /\ Waiting < SIZE - 1

\* What the receiver has read of SendPos is a position that SendPos had, at
\* or after its own; once it goes on to copy there stays an element for it.
ReceiverView ==
  /\ pc[receiver] = "readReceive" =>
       \E k \in 0..Waiting : sendpos[receiver] = Local(receiver, Ahead(k))
  /\ pc[receiver] \in {"copy", "inc"} => receivepos[receiver] = Slot(ReceivePos) /\ Waiting > 0

\* The slots from the receiver's to the sender's hold elements; between its
\* copy and its increment a thread has in hand what the slot holds.
SlotsHold ==
  /\ \A i \in 0..(Waiting - 1) : Elements[Slot(ReceivePos + i)] \in Values
  /\ pc[sender] = "inc" => Elements[Slot(SendPos)] = element[sender]
  /\ pc[receiver] = "inc" => Elements[Slot(ReceivePos)] = element[receiver]

IInv == TypeOK /\ Phases /\ SenderView /\ ReceiverView /\ SlotsHold /\ QueriesReliable

-----------------------------------------------------------------------------
(* Division.                                                               *)

\* The remainder of a division is unique.
LEMMA RemainderUnique ==
  ASSUME NEW n \in Nat, NEW d \in Nat \ {0}, NEW q \in Int, NEW r \in 0..(d - 1), n = d * q + r
  PROVE  n % d = r
OBVIOUS

\* A number is a multiple of the divisor and the remainder.
LEMMA Division ==
  ASSUME NEW n \in Nat, NEW d \in Nat \ {0}
  PROVE  /\ n % d \in 0..(d - 1)
         /\ n \div d \in Int
         /\ n = d * (n \div d) + (n % d)
<1> DEFINE q == n \div d
<1>1. q \in Int /\ d * q <= n
  OBVIOUS
<1>2. n - d * q < d
  OBVIOUS
<1> HIDE DEF q
<1>3. d * q \in Int
  BY <1>1
<1>4. n = d * q + (n - d * q) /\ n - d * q \in 0..(d - 1)
  BY <1>1, <1>2, <1>3
<1>5. n % d = n - d * q
  BY <1>1, <1>4, RemainderUnique
<1>6. QED
  BY <1>1, <1>4, <1>5 DEF q

\* The remainder of a sum, at most one divisor further on.
LEMMA RemainderPlus ==
  ASSUME NEW n \in Nat, NEW d \in Nat \ {0}, NEW i \in 0..d
  PROVE  (n + i) % d = IF (n % d) + i < d THEN (n % d) + i ELSE (n % d) + i - d
<1>1. PICK q \in Int : n = d * q + (n % d)
  BY Division
<1>2. n % d \in 0..(d - 1)
  BY Division
<1> DEFINE m == n % d
<1> HIDE DEF m
<1>3. d * (q + 1) = d * q + d /\ d * q \in Int
  OBVIOUS
<1>4. CASE m + i < d
  <2>1. n + i = d * q + (m + i) /\ m + i \in 0..(d - 1)
    BY <1>1, <1>2, <1>3, <1>4 DEF m
  <2>2. (n + i) % d = m + i
    <3>1. n + i \in Nat
      OBVIOUS
    <3>2. QED
      BY <2>1, <3>1, RemainderUnique
  <2>3. QED
    BY <2>2, <1>4 DEF m
<1>5. CASE m + i >= d
  <2>1. /\ n + i = d * (q + 1) + (m + i - d) /\ m + i - d \in 0..(d - 1)
        /\ q + 1 \in Int
    BY <1>1, <1>2, <1>3, <1>5 DEF m
  <2>2. (n + i) % d = m + i - d
    <3>1. n + i \in Nat
      OBVIOUS
    <3>2. QED
      BY <2>1, <3>1, RemainderUnique
  <2>3. QED
    BY <2>2, <1>2, <1>5 DEF m
<1>6. QED
  BY <1>2, <1>4, <1>5 DEF m

\* The remainder of a sum with a multiple of the divisor.
LEMMA RemainderMultiple ==
  ASSUME NEW n \in Nat, NEW d \in Nat \ {0}, NEW w \in Nat, w % d = 0
  PROVE  (n + w) % d = n % d
<1>1. PICK q \in Int : n = d * q + (n % d)
  BY Division
<1>2. PICK e \in Int : w = d * e
  <2> DEFINE f == w \div d
  <2>1. w = d * f + (w % d) /\ f \in Int
    BY Division
  <2> HIDE DEF f
  <2>2. w = d * f
    BY <2>1
  <2>3. QED
    BY <2>1, <2>2
<1>3. n % d \in 0..(d - 1)
  BY Division
<1> DEFINE m == n % d
<1> HIDE DEF m
<1>4. d * (q + e) = d * q + d * e /\ d * q \in Int /\ d * e \in Int /\ q + e \in Int
  OBVIOUS
<1>5. n + w = d * (q + e) + m
  <2>1. n = d * q + m /\ m \in Int
    BY <1>1, <1>3 DEF m
  <2>2. QED
    BY <2>1, <1>2, <1>4
<1>6. (n + w) % d = m
  <2>1. n + w \in Nat /\ m \in 0..(d - 1)
    BY <1>3 DEF m
  <2>2. QED
    BY <1>4, <1>5, <2>1, RemainderUnique
<1>7. QED
  BY <1>6 DEF m

-----------------------------------------------------------------------------
(* Positions and slots.                                                    *)

\* What the assumption on the sizes gives for positions and slots.
LEMMA SizeFacts ==
  /\ SIZE \in Nat \ {0} /\ Word \in Nat \ {0} /\ SIZE < Word
  /\ \A pos \in Positions : pos \in Nat /\ pos < Word
  /\ \A pos \in Nat : pos < Word => pos \in Positions
  /\ \A pos \in Nat : Slot(pos) \in Slots
<1>1. SIZE \in Nat \ {0} /\ Word \in Nat \ {0} /\ SIZE < Word
  BY SizeAssumption
<1>2. \A pos \in Nat : Slot(pos) \in Slots
  BY <1>1, Division DEF Slot, Slots
<1>3. QED
  BY <1>1, <1>2 DEF Positions

\* Slots follow each other, and the last is followed by the first.
LEMMA SlotPlus ==
  ASSUME NEW pos \in Nat, NEW i \in 0..SIZE
  PROVE  Slot(pos + i) = IF Slot(pos) + i < SIZE THEN Slot(pos) + i ELSE Slot(pos) + i - SIZE
BY SizeFacts, RemainderPlus DEF Slot

\* Positions wrap with the word, slots do not notice.
LEMMA SlotWord ==
  ASSUME NEW pos \in Nat
  PROVE  Slot(pos + Word) = Slot(pos)
BY SizeAssumption, SizeFacts, RemainderMultiple DEF Slot

\* Going on from a position, by less than a word.
LEMMA Wrap ==
  ASSUME NEW pos \in Positions, NEW i \in 0..Word
  PROVE  /\ (pos + i) % Word = IF pos + i < Word THEN pos + i ELSE pos + i - Word
         /\ (pos + i) % Word \in Positions
         /\ Slot((pos + i) % Word) = Slot(pos + i)
<1>1. pos \in Nat /\ pos < Word /\ Word \in Nat \ {0}
  BY SizeFacts
<1>2. (pos + i) % Word = IF pos + i < Word THEN pos + i ELSE pos + i - Word
  BY <1>1
<1>3. CASE pos + i < Word
  BY <1>1, <1>2, <1>3 DEF Positions
<1>4. CASE pos + i >= Word
  <2>1. pos + i - Word \in Nat /\ pos + i - Word < Word /\ (pos + i - Word) + Word = pos + i
    BY <1>1, <1>4
  <2>2. Slot((pos + i - Word) + Word) = Slot(pos + i - Word)
    BY <2>1, SlotWord
  <2>3. QED
    BY <1>2, <1>4, <2>1, <2>2, <1>1, SizeFacts
<1>5. QED
  BY <1>3, <1>4, <1>1

\* Two slots less than SIZE apart differ.
LEMMA SlotsApart ==
  ASSUME NEW pos \in Nat, NEW i \in 0..(SIZE - 1), NEW j \in 0..(SIZE - 1), i # j
  PROVE  Slot(pos + i) # Slot(pos + j)
<1>1. Slot(pos) \in 0..(SIZE - 1) /\ SIZE \in Nat \ {0}
  BY SizeFacts DEF Slots
<1>2. ASSUME NEW k \in 0..(SIZE - 1)
      PROVE  Slot(pos + k) = IF Slot(pos) + k < SIZE THEN Slot(pos) + k ELSE Slot(pos) + k - SIZE
  <2>1. k \in 0..SIZE
    BY <1>1
  <2>2. QED
    BY <2>1, SlotPlus
<1>3. /\ Slot(pos + i) = IF Slot(pos) + i < SIZE THEN Slot(pos) + i ELSE Slot(pos) + i - SIZE
      /\ Slot(pos + j) = IF Slot(pos) + j < SIZE THEN Slot(pos) + j ELSE Slot(pos) + j - SIZE
  BY <1>2
<1>4. QED
  BY <1>1, <1>3

\* The number of elements, and where the sender's position is.
LEMMA WaitingIs ==
  ASSUME SendPos \in Positions, ReceivePos \in Positions
  PROVE  /\ Waiting = IF SendPos >= ReceivePos THEN SendPos - ReceivePos
                      ELSE SendPos - ReceivePos + Word
         /\ Waiting \in 0..(Word - 1)
         /\ SendPos = Ahead(Waiting)
         /\ Slot(SendPos) = Slot(ReceivePos + Waiting)
<1>1. /\ SendPos \in Nat /\ SendPos < Word /\ ReceivePos \in Nat /\ ReceivePos < Word
      /\ Word \in Nat \ {0}
  BY SizeFacts
<1>2. Waiting = IF SendPos >= ReceivePos THEN SendPos - ReceivePos
                ELSE SendPos - ReceivePos + Word
  BY <1>1 DEF Waiting
<1>3. Waiting \in 0..Word /\ Waiting \in 0..(Word - 1)
  BY <1>1, <1>2
<1>4. Ahead(Waiting) = IF ReceivePos + Waiting < Word THEN ReceivePos + Waiting
                       ELSE ReceivePos + Waiting - Word
  BY <1>3, Wrap DEF Ahead
<1>5. SendPos = Ahead(Waiting)
  BY <1>1, <1>2, <1>4
<1>6. QED
  BY <1>2, <1>3, <1>5, Wrap DEF Ahead

\* The sender's increment adds an element.
LEMMA SendMoves ==
  ASSUME SendPos \in Positions, ReceivePos \in Positions, Waiting < SIZE - 1,
         SendPos' = Inc(SendPos), ReceivePos' = ReceivePos
  PROVE  SendPos' \in Positions /\ Waiting' = Waiting + 1
<1>1. /\ SendPos \in Nat /\ SendPos < Word /\ ReceivePos \in Nat /\ ReceivePos < Word
      /\ Word \in Nat \ {0} /\ SIZE \in Nat /\ SIZE < Word
  BY SizeFacts
<1>2. /\ Inc(SendPos) = IF SendPos + 1 < Word THEN SendPos + 1 ELSE SendPos + 1 - Word
      /\ Inc(SendPos) \in Positions
  BY <1>1, Wrap DEF Inc
<1>3. /\ Waiting' = IF SendPos' >= ReceivePos THEN SendPos' - ReceivePos
                    ELSE SendPos' - ReceivePos + Word
  BY <1>1, <1>2, SizeFacts DEF Waiting
<1>4. QED
  BY <1>1, <1>2, <1>3, WaitingIs

\* The receiver's increment takes one away, and the second slot becomes the
\* first.
LEMMA ReceiveMoves ==
  ASSUME SendPos \in Positions, ReceivePos \in Positions, Waiting > 0,
         ReceivePos' = Inc(ReceivePos), SendPos' = SendPos
  PROVE  /\ ReceivePos' \in Positions /\ Waiting' = Waiting - 1
         /\ \A i \in 0..(SIZE - 1) : Slot(ReceivePos' + i) = Slot(ReceivePos + (i + 1))
<1>1. /\ SendPos \in Nat /\ SendPos < Word /\ ReceivePos \in Nat /\ ReceivePos < Word
      /\ Word \in Nat \ {0} /\ SIZE \in Nat /\ SIZE < Word
  BY SizeFacts
<1>2. /\ Inc(ReceivePos) = IF ReceivePos + 1 < Word THEN ReceivePos + 1 ELSE ReceivePos + 1 - Word
      /\ Inc(ReceivePos) \in Positions
  BY <1>1, Wrap DEF Inc
<1>3. /\ Waiting' = IF SendPos >= ReceivePos' THEN SendPos - ReceivePos'
                    ELSE SendPos - ReceivePos' + Word
  BY <1>1, <1>2, SizeFacts DEF Waiting
<1>4. ASSUME NEW i \in 0..(SIZE - 1) PROVE Slot(ReceivePos' + i) = Slot(ReceivePos + (i + 1))
  <2>1. CASE ReceivePos + 1 < Word
    BY <2>1, <1>1, <1>2
  <2>2. CASE ReceivePos + 1 = Word
    <3>1. ReceivePos' = 0 /\ ReceivePos + (i + 1) = i + Word /\ i \in Nat
      BY <2>2, <1>1, <1>2
    <3>2. QED
      BY <3>1, SlotWord
  <2>3. QED
    BY <2>1, <2>2, <1>1
<1>5. QED
  BY <1>1, <1>2, <1>3, <1>4, WaitingIs

-----------------------------------------------------------------------------
(* What comparing positions tells.                                         *)

\* With k elements between the two positions that are compared: the tests of
\* empty and full and the differences of waiting and available say so.
LEMMA Compare ==
  ASSUME SendPos \in Positions, ReceivePos \in Positions, Waiting < SIZE, NEW k \in 0..Waiting
  PROVE  /\ Ahead(k) \in Positions /\ Slot(Ahead(k)) = Slot(ReceivePos + k)
         /\ IsEmpty(Slot(Ahead(k)), Slot(ReceivePos)) <=> k = 0
         /\ IsFull(Slot(Ahead(k)), Slot(ReceivePos)) <=> k = SIZE - 1
         /\ WaitingIn(Ahead(k), ReceivePos) = k
         /\ Available(Ahead(k), ReceivePos) = SIZE - k
<1>1. /\ ReceivePos \in Nat /\ ReceivePos < Word /\ Word \in Nat \ {0}
      /\ SIZE \in Nat \ {0} /\ SIZE < Word
  BY SizeFacts
<1>2. Waiting \in Nat /\ k \in 0..(SIZE - 1) /\ k \in 0..Word
  BY <1>1, WaitingIs
<1>3. /\ Ahead(k) = IF ReceivePos + k < Word THEN ReceivePos + k ELSE ReceivePos + k - Word
      /\ Ahead(k) \in Positions
      /\ Slot(Ahead(k)) = Slot(ReceivePos + k)
  BY <1>2, Wrap DEF Ahead
<1>4. ReceivePos + 0 = ReceivePos /\ 0 \in 0..(SIZE - 1)
  BY <1>1
<1>5. IsEmpty(Slot(Ahead(k)), Slot(ReceivePos)) <=> k = 0
  <2>1. k # 0 => Slot(ReceivePos + k) # Slot(ReceivePos + 0)
    BY <1>1, <1>2, <1>4, SlotsApart
  <2>2. QED
    BY <2>1, <1>3, <1>4 DEF IsEmpty
<1>6. IsFull(Slot(Ahead(k)), Slot(ReceivePos)) <=> k = SIZE - 1
  <2> DEFINE s == Slot(ReceivePos)
  <2>1. s \in 0..(SIZE - 1)
    BY <1>1, SizeFacts DEF Slots
  <2>2. Slot(ReceivePos + k) = IF s + k < SIZE THEN s + k ELSE s + k - SIZE
    BY <1>1, <1>2, SlotPlus
  <2> DEFINE m == Slot(ReceivePos + k)
  <2>3. m \in 0..(SIZE - 1)
    BY <2>1, <2>2, <1>1, <1>2
  <2> HIDE DEF s, m
  <2>4. Slot(m + 1) = IF m + 1 < SIZE THEN m + 1 ELSE m + 1 - SIZE
    BY <2>3, <1>1 DEF Slot
  <2>5. Slot(m + 1) = s <=> k = SIZE - 1
    BY <2>1, <2>2, <2>3, <2>4, <1>1, <1>2 DEF m
  <2>6. QED
    BY <2>5, <1>3 DEF IsFull, s, m
<1>7. WaitingIn(Ahead(k), ReceivePos) = k
  BY <1>1, <1>2, <1>3 DEF WaitingIn
<1>8. Available(Ahead(k), ReceivePos) = SIZE - k
  <2>1. SIZE - (Ahead(k) - ReceivePos) \in {SIZE - k, SIZE - k + Word}
    BY <1>1, <1>2, <1>3
  <2>2. (SIZE - k) % Word = SIZE - k /\ (SIZE - k + Word) % Word = SIZE - k
    BY <1>1, <1>2
  <2>3. QED
    BY <2>1, <2>2 DEF Available
<1>9. QED
  BY <1>3, <1>5, <1>6, <1>7, <1>8

\* The result of a call that has read a position with k elements up to it.
Told(f, k) ==
  /\ f \in {"enqueue", "full"} => k = SIZE - 1
  /\ f \in {"dequeue", "empty"} => k = 0

\* What a call answers when k elements precede the position that it has read,
\* which the other thread may have moved since.
LEMMA Answers ==
  ASSUME SendPos \in Positions, ReceivePos \in Positions, Waiting < SIZE, NEW k \in 0..Waiting,
         NEW t \in Threads, sendpos[t] = Local(t, Ahead(k)),
         NEW res, res = Result(op[t], sendpos[t], Local(t, ReceivePos))
  PROVE  /\ op[t] \in {"enqueue", "full", "dequeue", "empty"} =>
              res = IF Told(op[t], k) THEN 1 ELSE 0
         /\ op[t] = "waiting" => res = k
         /\ op[t] = "available" => res = SIZE - k
<1>1. /\ IsEmpty(Slot(Ahead(k)), Slot(ReceivePos)) <=> k = 0
      /\ IsFull(Slot(Ahead(k)), Slot(ReceivePos)) <=> k = SIZE - 1
      /\ WaitingIn(Ahead(k), ReceivePos) = k
      /\ Available(Ahead(k), ReceivePos) = SIZE - k
  BY Compare
<1>2. CASE op[t] \in {"enqueue", "full"}
  BY <1>1, <1>2 DEF Result, Local, Told
<1>3. CASE op[t] \in {"dequeue", "empty"}
  BY <1>1, <1>3 DEF Result, Local, Told
<1>4. CASE op[t] = "waiting"
  BY <1>1, <1>4 DEF Result, Local
<1>5. CASE op[t] = "available"
  BY <1>1, <1>5 DEF Result, Local
<1>6. QED
  BY <1>2, <1>3, <1>4, <1>5

-----------------------------------------------------------------------------
(* The steps.                                                              *)

\* The two threads, and what the invariant says of the positions.
LEMMA Basics ==
  ASSUME IInv
  PROVE  /\ TypeOK /\ Phases /\ SenderView /\ ReceiverView /\ SlotsHold /\ QueriesReliable
         /\ sender \in Threads /\ receiver \in Threads /\ sender # receiver
         /\ \A t \in Threads : t = sender \/ t = receiver
         /\ SendPos \in Positions /\ ReceivePos \in Positions
         /\ Waiting \in Nat /\ Waiting < SIZE /\ SIZE \in Nat \ {0} /\ SIZE < Word /\ Word \in Nat
         /\ SendPos = Ahead(Waiting)
BY ThreadsAssumption, SizeFacts, WaitingIs DEF IInv, Threads, TypeOK, SenderView

\* While the shared variables stay, so does everything said of them alone.
LEMMA SharedStays ==
  ASSUME UNCHANGED shared
  PROVE  /\ Waiting' = Waiting /\ SendPos' = SendPos /\ ReceivePos' = ReceivePos
         /\ \A k : Ahead(k)' = Ahead(k)
BY DEF shared, Waiting, Ahead

\* A call begins: nothing is read yet.
LEMMA CallStep ==
  ASSUME IInv, CallEnqueue \/ CallDequeue \/ (\E t \in Threads : CallQuery(t))
  PROVE  IInv'
<1>0. UNCHANGED shared
  BY DEF CallEnqueue, CallDequeue, CallQuery
<1> USE Basics, SharedStays, <1>0
<1>1. PICK t \in Threads, f \in Queries \cup {"enqueue", "dequeue"} :
        /\ Call(t, f) /\ UNCHANGED <<sendpos, receivepos, answer>>
        /\ f = "enqueue" => t = sender
        /\ f = "dequeue" => t = receiver
        /\ IF f = "enqueue" THEN \E v \in Values : element' = [element EXCEPT ![sender] = v]
                            ELSE element' = element
  BY DEF CallEnqueue, CallDequeue, CallQuery, Queries
<1>2. /\ pc[t] = "idle" /\ pc'[t] = "readSend" /\ op[t] = "none" /\ op'[t] = f
      /\ \A u \in Threads \ {t} : pc'[u] = pc[u] /\ op'[u] = op[u] /\ element'[u] = element[u]
      /\ element'[t] \in IF f = "enqueue" THEN Values ELSE {Null}
  BY <1>1 DEF Call, TypeOK, Phases, Queries
<1>3. TypeOK'
  BY <1>1 DEF TypeOK, Call, shared
<1>4. Phases'
  BY <1>1, <1>2 DEF Phases, Queries
<1>5. SenderView' /\ ReceiverView'
  BY <1>1, <1>2 DEF SenderView, ReceiverView, Local
<1>6. SlotsHold'
  BY <1>1, <1>2 DEF SlotsHold, shared
<1>7. QueriesReliable'
  BY <1>1, <1>2 DEF QueriesReliable
<1>8. QED
  BY <1>3, <1>4, <1>5, <1>6, <1>7 DEF IInv

\* A call returns: the thread forgets what it has read.
LEMMA ReturnStep ==
  ASSUME IInv, NEW t \in Threads, Return(t)
  PROVE  IInv'
<1>0. UNCHANGED shared
  BY DEF Return
<1> USE Basics, SharedStays, <1>0
<1>1. /\ pc[t] = "done" /\ pc'[t] = "idle" /\ op'[t] = "none" /\ element'[t] = Null
      /\ \A u \in Threads \ {t} :
           /\ pc'[u] = pc[u] /\ op'[u] = op[u] /\ element'[u] = element[u] /\ answer'[u] = answer[u]
           /\ sendpos'[u] = sendpos[u] /\ receivepos'[u] = receivepos[u]
  BY DEF Return, TypeOK
<1>2. TypeOK'
  BY SizeFacts DEF TypeOK, Return, shared
<1>3. Phases'
  BY <1>1 DEF Phases, Queries
<1>4. SenderView' /\ ReceiverView'
  BY <1>1 DEF SenderView, ReceiverView, Local
<1>5. SlotsHold'
  BY <1>1 DEF SlotsHold, shared
<1>6. QueriesReliable'
  BY <1>1 DEF QueriesReliable
<1>7. QED
  BY <1>2, <1>3, <1>4, <1>5, <1>6 DEF IInv

\* A thread reads SendPos: what it reads is exact.
LEMMA ReadSendStep ==
  ASSUME IInv, NEW t \in Threads, ReadSend(t)
  PROVE  IInv'
<1>0. UNCHANGED shared
  BY DEF ReadSend
<1> USE Basics, SharedStays, <1>0
<1>1. /\ pc[t] = "readSend" /\ pc'[t] = "readReceive" /\ sendpos'[t] = Local(t, SendPos)
      /\ UNCHANGED <<op, element, receivepos, answer>>
      /\ \A u \in Threads \ {t} : pc'[u] = pc[u] /\ sendpos'[u] = sendpos[u]
  BY DEF ReadSend, TypeOK, call
<1>2. TypeOK'
  <2>1. Local(t, SendPos) \in Positions
    BY SizeFacts DEF Local, Slots
  <2>2. QED
    BY <2>1 DEF TypeOK, ReadSend, shared, call
<1>3. Phases'
  BY <1>1 DEF Phases
<1>4. Local(t, SendPos)' = Local(t, SendPos)
  BY <1>1 DEF Local
<1>5. SenderView'
  BY <1>1, <1>4 DEF SenderView, Local
<1>6. ReceiverView'
  <2>1. Waiting \in 0..Waiting
    OBVIOUS
  <2>2. QED
    BY <2>1, <1>1, <1>4 DEF ReceiverView, Local
<1>7. SlotsHold'
  BY <1>1 DEF SlotsHold, shared
<1>8. QueriesReliable'
  BY <1>1 DEF QueriesReliable
<1>9. QED
  BY <1>2, <1>3, <1>5, <1>6, <1>7, <1>8 DEF IInv

\* A thread reads ReceivePos and has its answer.
LEMMA ReadReceiveStep ==
  ASSUME IInv, NEW t \in Threads, ReadReceive(t)
  PROVE  IInv'
<1>0. UNCHANGED shared
  BY DEF ReadReceive
<1> USE Basics, SharedStays, <1>0
<1> DEFINE r == Local(t, ReceivePos)
           res == Result(op[t], sendpos[t], r)
<1>1. /\ pc[t] = "readReceive" /\ receivepos'[t] = r /\ answer'[t] = res
      /\ pc'[t] = IF op[t] \in {"enqueue", "dequeue"} /\ res = 0 THEN "copy" ELSE "done"
      /\ UNCHANGED <<op, element, sendpos>>
      /\ \A u \in Threads \ {t} :
           pc'[u] = pc[u] /\ receivepos'[u] = receivepos[u] /\ answer'[u] = answer[u]
  BY DEF ReadReceive, TypeOK, call
<1>2. PICK k \in 0..Waiting : sendpos[t] = Local(t, Ahead(k)) /\ (t = sender => k = Waiting)
  <2>1. CASE t = sender
    BY <2>1, <1>1 DEF SenderView
  <2>2. CASE t = receiver
    BY <2>2, <1>1 DEF ReceiverView
  <2>3. QED
    BY <2>1, <2>2
<1>3. /\ op[t] \in {"enqueue", "full", "dequeue", "empty"} => res = IF Told(op[t], k) THEN 1 ELSE 0
      /\ op[t] = "waiting" => res = k
      /\ op[t] = "available" => res = SIZE - k
      /\ k \in Nat
  BY <1>2, Answers
<1>4. r \in Positions /\ res \in Positions
  <2>1. r \in Positions
    BY SizeFacts DEF Local, Slots
  <2>2. op[t] \in Queries \cup {"enqueue", "dequeue"}
    BY <1>1 DEF TypeOK, Phases
  <2>3. res \in Nat /\ res < Word
    BY <2>2, <1>2, <1>3 DEF Queries
  <2>4. QED
    BY <2>1, <2>3, SizeFacts
<1>5. op[t] \notin {"waiting", "available"} => r = Slot(ReceivePos)
  BY DEF Local
<1> HIDE DEF r, res
<1>6. TypeOK'
  BY <1>1, <1>4 DEF TypeOK, ReadReceive, shared, call, r, res
<1>7. Phases'
  BY <1>1 DEF Phases, Queries
<1>8. SenderView'
  <2>1. CASE t = sender /\ pc'[sender] = "copy"
    <3>1. op[sender] = "enqueue" /\ res = 0
      BY <2>1, <1>1 DEF Phases
    <3>2. k # SIZE - 1 /\ k = Waiting
      BY <3>1, <2>1, <1>2, <1>3 DEF Told
    <3>3. sendpos[sender] = Slot(SendPos)
      BY <3>1, <2>1, <1>1 DEF SenderView, Local
    <3>4. QED
      BY <3>2, <3>3, <2>1, <1>1 DEF SenderView
  <2>2. CASE ~(t = sender /\ pc'[sender] = "copy")
    BY <2>2, <1>1 DEF SenderView, Local
  <2>3. QED
    BY <2>1, <2>2
<1>9. ReceiverView'
  <2>1. CASE t = receiver /\ pc'[receiver] = "copy"
    <3>1. op[receiver] = "dequeue" /\ res = 0
      BY <2>1, <1>1 DEF Phases
    <3>2. k > 0
      BY <3>1, <2>1, <1>2, <1>3 DEF Told
    <3>3. QED
      BY <3>1, <3>2, <2>1, <1>1, <1>5 DEF ReceiverView
  <2>2. CASE ~(t = receiver /\ pc'[receiver] = "copy")
    BY <2>2, <1>1 DEF ReceiverView, Local
  <2>3. QED
    BY <2>1, <2>2
<1>10. SlotsHold'
  BY <1>1 DEF SlotsHold, shared
<1>11. QueriesReliable'
  <2>1. CASE t = sender
    BY <2>1, <1>1, <1>2, <1>3 DEF QueriesReliable, Told
  <2>2. CASE t = receiver
    BY <2>2, <1>1, <1>2, <1>3 DEF QueriesReliable, Told
  <2>3. QED
    BY <2>1, <2>2
<1>12. QED
  BY <1>6, <1>7, <1>8, <1>9, <1>10, <1>11 DEF IInv

\* The sender writes the slot after the last element, which the receiver does
\* not read.
LEMMA CopyInStep ==
  ASSUME IInv, CopyIn
  PROVE  /\ IInv'
         /\ \A i \in 0..(Waiting - 1) :
              Elements'[Slot(ReceivePos + i)] = Elements[Slot(ReceivePos + i)]
<1> USE Basics
<1>1. /\ pc[sender] = "copy" /\ pc'[sender] = "inc" /\ pc'[receiver] = pc[receiver]
      /\ SendPos' = SendPos /\ ReceivePos' = ReceivePos
      /\ UNCHANGED <<op, element, sendpos, receivepos, answer>>
      /\ sendpos[sender] = Slot(SendPos) /\ Waiting < SIZE - 1
      /\ Elements' = [Elements EXCEPT ![Slot(SendPos)] = element[sender]]
      /\ element[sender] \in Values /\ op[sender] = "enqueue"
  BY DEF CopyIn, TypeOK, call, SenderView, Phases, Queries
<1>2. Waiting' = Waiting /\ \A k : Ahead(k)' = Ahead(k)
  BY <1>1 DEF Waiting, Ahead
<1>3. Slot(SendPos) \in Slots
  BY SizeFacts
<1>4. TypeOK'
  BY <1>1, <1>3 DEF TypeOK, CopyIn, call
<1>5. Phases'
  BY <1>1 DEF Phases
<1>6. SenderView' /\ ReceiverView'
  BY <1>1, <1>2 DEF SenderView, ReceiverView, Local
<1>7. \A i \in 0..(Waiting - 1) : Elements'[Slot(ReceivePos + i)] = Elements[Slot(ReceivePos + i)]
  <2>1. \A i \in 0..(Waiting - 1) : i \in 0..(SIZE - 1) /\ i # Waiting /\ ReceivePos + i \in Nat
    BY SizeFacts
  <2>2. Slot(SendPos) = Slot(ReceivePos + Waiting) /\ Waiting \in 0..(SIZE - 1)
    BY WaitingIs
  <2>3. \A i \in 0..(Waiting - 1) : Slot(ReceivePos + i) # Slot(SendPos)
    BY <2>1, <2>2, SlotsApart, SizeFacts
  <2>4. \A i \in 0..(Waiting - 1) : Slot(ReceivePos + i) \in Slots
    BY <2>1, SizeFacts
  <2>5. QED
    BY <2>3, <2>4, <1>1 DEF TypeOK
<1>8. SlotsHold'
  <2>1. pc[receiver] = "inc" => Elements'[Slot(ReceivePos)] = Elements[Slot(ReceivePos)]
    <3>1. pc[receiver] = "inc" => 0 \in 0..(Waiting - 1) /\ ReceivePos + 0 = ReceivePos
      BY SizeFacts DEF ReceiverView
    <3>2. QED
      BY <3>1, <1>7
  <2>2. Elements'[Slot(SendPos)] = element[sender]
    BY <1>1, <1>3 DEF TypeOK
  <2>3. QED
    BY <2>1, <2>2, <1>1, <1>2, <1>7 DEF SlotsHold
<1>9. QueriesReliable'
  BY <1>1, <1>2 DEF QueriesReliable
<1>10. QED
  BY <1>4, <1>5, <1>6, <1>7, <1>8, <1>9 DEF IInv

\* The receiver copies the first element.
LEMMA CopyOutStep ==
  ASSUME IInv, CopyOut
  PROVE  IInv'
<1>0. UNCHANGED shared
  BY DEF CopyOut
<1> USE Basics, SharedStays, <1>0
<1>1. /\ pc[receiver] = "copy" /\ pc'[receiver] = "inc" /\ pc'[sender] = pc[sender]
      /\ UNCHANGED <<op, sendpos, receivepos, answer>>
      /\ receivepos[receiver] = Slot(ReceivePos) /\ Waiting > 0
      /\ element' = [element EXCEPT ![receiver] = Elements[Slot(ReceivePos)]]
      /\ op[receiver] = "dequeue"
  BY DEF CopyOut, TypeOK, ReceiverView, Phases, Queries
<1>2. element'[receiver] = Elements[Slot(ReceivePos)] /\ element'[sender] = element[sender]
  BY <1>1 DEF TypeOK
<1>3. Slot(ReceivePos) \in Slots
  BY SizeFacts
<1>4. TypeOK'
  BY <1>1, <1>3 DEF TypeOK, CopyOut, shared
<1>5. Phases'
  BY <1>1, <1>2 DEF Phases
<1>6. SenderView' /\ ReceiverView'
  BY <1>1 DEF SenderView, ReceiverView, Local
<1>7. SlotsHold'
  BY <1>1, <1>2 DEF SlotsHold, shared
<1>8. QueriesReliable'
  BY <1>1 DEF QueriesReliable
<1>9. QED
  BY <1>4, <1>5, <1>6, <1>7, <1>8 DEF IInv

\* The sender's increment: its element is the last of the queue.
LEMMA IncSendStep ==
  ASSUME IInv, IncSend
  PROVE  IInv' /\ Waiting' = Waiting + 1
<1> USE Basics
<1>1. /\ pc[sender] = "inc" /\ pc'[sender] = "done" /\ pc'[receiver] = pc[receiver]
      /\ SendPos' = Inc(SendPos) /\ ReceivePos' = ReceivePos /\ Elements' = Elements
      /\ UNCHANGED <<op, element, sendpos, receivepos, answer>>
      /\ Waiting < SIZE - 1 /\ op[sender] = "enqueue" /\ element[sender] \in Values
      /\ Elements[Slot(SendPos)] = element[sender]
  BY DEF IncSend, TypeOK, call, SenderView, Phases, Queries, SlotsHold
<1>2. SendPos' \in Positions /\ Waiting' = Waiting + 1
  BY <1>1, SendMoves
<1>3. \A k : Ahead(k)' = Ahead(k)
  BY <1>1 DEF Ahead
<1>4. TypeOK'
  BY <1>1, <1>2 DEF TypeOK, IncSend, call
<1>5. Phases'
  BY <1>1 DEF Phases
<1>6. SenderView'
  BY <1>1, <1>2 DEF SenderView
<1>7. ReceiverView'
  <2>1. 0..Waiting \subseteq 0..Waiting'
    BY <1>2
  <2>2. QED
    BY <2>1, <1>1, <1>2, <1>3 DEF ReceiverView, Local
<1>8. SlotsHold'
  <2>1. Slot(SendPos) = Slot(ReceivePos + Waiting)
    BY WaitingIs
  <2>2. \A i \in 0..Waiting : Elements[Slot(ReceivePos + i)] \in Values
    BY <2>1, <1>1 DEF SlotsHold
  <2>3. QED
    BY <2>2, <1>1, <1>2 DEF SlotsHold
<1>9. QueriesReliable'
  BY <1>1, <1>2 DEF QueriesReliable
<1>10. QED
  BY <1>2, <1>4, <1>5, <1>6, <1>7, <1>8, <1>9 DEF IInv

\* The receiver's increment: the first element is gone.
LEMMA IncReceiveStep ==
  ASSUME IInv, IncReceive
  PROVE  IInv' /\ Waiting' = Waiting - 1
<1> USE Basics
<1>1. /\ pc[receiver] = "inc" /\ pc'[receiver] = "done" /\ pc'[sender] = pc[sender]
      /\ ReceivePos' = Inc(ReceivePos) /\ SendPos' = SendPos /\ Elements' = Elements
      /\ UNCHANGED <<op, element, sendpos, receivepos, answer>>
      /\ Waiting > 0 /\ op[receiver] = "dequeue"
  BY DEF IncReceive, TypeOK, call, ReceiverView, Phases, Queries
<1>2. /\ ReceivePos' \in Positions /\ Waiting' = Waiting - 1
      /\ \A i \in 0..(SIZE - 1) : Slot(ReceivePos' + i) = Slot(ReceivePos + (i + 1))
  BY <1>1, ReceiveMoves
<1>3. TypeOK'
  BY <1>1, <1>2 DEF TypeOK, IncReceive, call
<1>4. Phases'
  BY <1>1 DEF Phases
<1>5. SenderView'
  BY <1>1, <1>2 DEF SenderView, Local
<1>6. ReceiverView'
  BY <1>1 DEF ReceiverView
<1>7. SlotsHold'
  <2>1. ASSUME NEW i \in 0..(Waiting' - 1) PROVE Elements'[Slot(ReceivePos' + i)] \in Values
    <3>1. i \in 0..(SIZE - 1) /\ i + 1 \in 0..(Waiting - 1)
      BY <1>2
    <3>2. QED
      BY <3>1, <1>1, <1>2 DEF SlotsHold
  <2>2. QED
    BY <2>1, <1>1 DEF SlotsHold
<1>8. QueriesReliable'
  BY <1>1, <1>2 DEF QueriesReliable
<1>9. QED
  BY <1>2, <1>3, <1>4, <1>5, <1>6, <1>7, <1>8 DEF IInv

-----------------------------------------------------------------------------
(* The invariant.                                                          *)

\* At first the channel is empty and both threads are idle.
LEMMA InitInv == Init => IInv
<1> SUFFICES ASSUME Init PROVE IInv
  OBVIOUS
<1>1. TypeOK
  BY SizeFacts DEF Init, TypeOK
<1>2. sender \in Threads /\ receiver \in Threads
  BY DEF Threads
<1>3. Waiting = 0
  BY <1>1, WaitingIs DEF Init, TypeOK
<1>4. Phases
  BY <1>2 DEF Init, Phases
<1>5. SenderView /\ ReceiverView
  BY <1>2, <1>3, SizeFacts DEF Init, SenderView, ReceiverView
<1>6. SlotsHold
  BY <1>2, <1>3 DEF Init, SlotsHold
<1>7. QueriesReliable
  BY <1>2 DEF Init, QueriesReliable
<1>8. QED
  BY <1>1, <1>4, <1>5, <1>6, <1>7 DEF IInv

\* Every step keeps the invariant.
LEMMA NextInv == IInv /\ [Next]_vars => IInv'
<1> SUFFICES ASSUME IInv, [Next]_vars PROVE IInv'
  OBVIOUS
<1>1. CASE Next
  BY <1>1, CallStep, ReturnStep, ReadSendStep, ReadReceiveStep, CopyInStep, IncSendStep,
     CopyOutStep, IncReceiveStep DEF Next
<1>2. CASE UNCHANGED vars
  BY <1>2 DEF vars, shared, call, IInv, TypeOK, Phases, SenderView, ReceiverView, SlotsHold,
              QueriesReliable, Waiting, Ahead, Local
<1>3. QED
  BY <1>1, <1>2

\* The inductive invariant holds of every behaviour.
THEOREM ChannelInvariance == Spec => []IInv
BY InitInv, NextInv, PTL DEF Spec

\* Sender and receiver, which nothing but two positions keeps apart, never
\* copy into and out of one slot at a time, also after a position has wrapped.
LEMMA InvDisjoint == IInv => SlotsDisjoint
<1> SUFFICES ASSUME IInv, pc[sender] = "copy", pc[receiver] = "copy"
             PROVE  sendpos[sender] # receivepos[receiver]
  BY DEF SlotsDisjoint
<1> USE Basics
<1>1. /\ sendpos[sender] = Slot(SendPos) /\ receivepos[receiver] = Slot(ReceivePos)
      /\ Waiting > 0 /\ Waiting < SIZE - 1
  BY DEF SenderView, ReceiverView
<1>2. Slot(SendPos) = Slot(ReceivePos + Waiting) /\ ReceivePos + 0 = ReceivePos
  BY WaitingIs, SizeFacts
<1>3. Slot(ReceivePos + Waiting) # Slot(ReceivePos + 0)
  <2>1. ReceivePos \in Nat /\ Waiting \in 0..(SIZE - 1) /\ 0 \in 0..(SIZE - 1) /\ Waiting # 0
    BY <1>1, SizeFacts
  <2>2. QED
    BY ONLY <2>1, SlotsApart
<1>4. QED
  BY <1>1, <1>2, <1>3

\* So it is for every size of the ring and every width of the positions.
THEOREM ChannelDisjoint == Spec => []SlotsDisjoint
BY InvDisjoint, ChannelInvariance, PTL

\* The queries of one thread stay right while the other goes on.
THEOREM ChannelQueries == Spec => []QueriesReliable
<1>1. IInv => QueriesReliable
  BY DEF IInv
<1>2. QED
  BY <1>1, ChannelInvariance, PTL

-----------------------------------------------------------------------------
(* The channel is first-in first-out.                                      *)

\* The elements of the abstract queue, the oldest first.
Queued ==
  /\ Contents \in Seq(Values) /\ Len(Contents) = Waiting
  /\ \A i \in 1..Waiting : Contents[i] = Elements[Slot(ReceivePos + (i - 1))]

\* They are in the slots from the receiver's to the sender's.
LEMMA ContentsIs == IInv => Queued
<1> SUFFICES ASSUME IInv PROVE Queued
  OBVIOUS
<1> USE Basics
<1>1. ASSUME NEW i \in 1..Waiting
      PROVE  /\ Elements[Slot(ReceivePos + i - 1)] = Elements[Slot(ReceivePos + (i - 1))]
             /\ Elements[Slot(ReceivePos + (i - 1))] \in Values
  <2>1. i - 1 \in 0..(Waiting - 1) /\ ReceivePos + i - 1 = ReceivePos + (i - 1)
    BY SizeFacts
  <2>2. QED
    BY <2>1 DEF SlotsHold
<1>2. Contents \in [1..Waiting -> Values]
  BY <1>1 DEF Contents
<1>3. Contents \in Seq(Values) /\ Len(Contents) = Waiting
  <2> HIDE DEF Contents
  <2>1. QED
    BY <1>2
<1>4. QED
  BY <1>1, <1>3 DEF Contents, Queued

\* The same of the next state.
LEMMA ContentsNext == IInv' => Queued'
BY ContentsIs, PTL

\* What each thread is doing, case by case.
Does(t, found) ==
  /\ op[t] \notin {"enqueue", "dequeue"} => Doing[t] = "idle"
  /\ op[t] = "enqueue" /\ pc[t] # "done" => Doing[t] = "put"
  /\ op[t] = "dequeue" /\ pc[t] # "done" /\ ~found => Doing[t] = "take"
  /\ op[t] = "dequeue" /\ pc[t] # "done" /\ found => Doing[t] = "refused"
  /\ op[t] \in {"enqueue", "dequeue"} /\ pc[t] = "done" /\ answer[t] = 0 => Doing[t] = "done"
  /\ op[t] \in {"enqueue", "dequeue"} /\ pc[t] = "done" /\ answer[t] # 0 => Doing[t] = "refused"

\* Does says of each thread what Doing computes for it.
LEMMA DoingIs == \A t \in Threads : Does(t, FoundEmpty)
<1> TAKE t \in Threads
<1>1. CASE op[t] \notin {"enqueue", "dequeue"}
  BY <1>1 DEF Doing, Does
<1>2. CASE op[t] = "enqueue" /\ pc[t] # "done"
  BY <1>2 DEF Doing, Does
<1>3. CASE op[t] = "dequeue" /\ pc[t] # "done" /\ ~FoundEmpty
  BY <1>3 DEF Doing, Does
<1>4. CASE op[t] = "dequeue" /\ pc[t] # "done" /\ FoundEmpty
  BY <1>4 DEF Doing, Does
<1>5. CASE op[t] \in {"enqueue", "dequeue"} /\ pc[t] = "done"
  BY <1>5 DEF Doing, Does
<1>6. QED
  BY <1>1, <1>2, <1>3, <1>4, <1>5

\* It does so in the next state.
LEMMA DoingNext == (\A t \in Threads : Does(t, FoundEmpty))'
BY DoingIs, PTL

\* A step of t leaves the other thread as it is.
LEMMA DoingStep ==
  ASSUME NEW t \in Threads,
         \A u \in Threads \ {t} :
           pc'[u] = pc[u] /\ op'[u] = op[u] /\ answer'[u] = answer[u] /\ element'[u] = element[u],
         t # receiver => FoundEmpty' = FoundEmpty,
         \A u \in Threads \ {t} : op[u] = "dequeue" => u = receiver
  PROVE  /\ Doing' = [Doing EXCEPT ![t] = Doing'[t]]
         /\ Val' = [Val EXCEPT ![t] = Val'[t]]
         /\ Doing'[t] = Doing[t] => Doing' = Doing
         /\ Val'[t] = Val[t] => Val' = Val
<1>1. \A u \in Threads \ {t} : Val'[u] = Val[u]
  BY DEF Val
<1>2. \A u \in Threads \ {t} : Doing'[u] = Doing[u]
  BY DoingIs, DoingNext DEF Does
<1>3. Doing = [u \in Threads |-> Doing[u]] /\ Doing' = [u \in Threads |-> Doing'[u]]
  <2> DEFINE D(o, p, a, found) ==
        CASE o \notin {"enqueue", "dequeue"} -> "idle"
          [] o = "enqueue" /\ p # "done" -> "put"
          [] o = "dequeue" /\ p # "done" /\ ~found -> "take"
          [] o = "dequeue" /\ p # "done" /\ found -> "refused"
          [] o \in {"enqueue", "dequeue"} /\ p = "done" /\ a = 0 -> "done"
          [] o \in {"enqueue", "dequeue"} /\ p = "done" /\ a # 0 -> "refused"
  <2>1. /\ Doing = [u \in Threads |-> D(op[u], pc[u], answer[u], FoundEmpty)]
        /\ Doing' = [u \in Threads |-> D(op'[u], pc'[u], answer'[u], FoundEmpty')]
    BY DEF Doing
  <2> HIDE DEF D
  <2>2. QED
    BY <2>1
<1>4. Val = [u \in Threads |-> Val[u]] /\ Val' = [u \in Threads |-> Val'[u]]
  BY DEF Val
<1>5. QED
  BY <1>1, <1>2, <1>3, <1>4

\* A step of the channel is a step of the abstract queue, or changes nothing
\* of it.
Simulates == Abstract!TryingNext \/ UNCHANGED <<Contents, Doing, Val>>

\* The elements stay where the positions and the slots stay.
LEMMA ContentsStay ==
  ASSUME UNCHANGED shared
  PROVE  Contents' = Contents
BY DEF shared, Contents, Waiting

\* A call begins.
LEMMA CallSimulates ==
  ASSUME IInv, CallEnqueue \/ CallDequeue \/ (\E t \in Threads : CallQuery(t))
  PROVE  Simulates
<1> USE Basics
<1>1. PICK t \in Threads, f \in Queries \cup {"enqueue", "dequeue"} :
        /\ Call(t, f) /\ UNCHANGED <<shared, answer>>
        /\ f = "enqueue" => t = sender
        /\ f = "dequeue" => t = receiver
        /\ IF f = "enqueue" THEN \E v \in Values : element' = [element EXCEPT ![sender] = v]
                            ELSE element' = element
  BY DEF CallEnqueue, CallDequeue, CallQuery, Queries
<1>2. /\ pc[t] = "idle" /\ pc'[t] = "readSend" /\ op[t] = "none" /\ op'[t] = f
      /\ \A u \in Threads \ {t} : pc'[u] = pc[u] /\ op'[u] = op[u] /\ element'[u] = element[u]
  BY <1>1 DEF Call, TypeOK, Phases, Queries
<1>3. /\ Doing' = [Doing EXCEPT ![t] = Doing'[t]]
      /\ Val' = [Val EXCEPT ![t] = Val'[t]]
      /\ Doing'[t] = Doing[t] => Doing' = Doing
      /\ Val'[t] = Val[t] => Val' = Val
  <2>1. t # receiver => FoundEmpty' = FoundEmpty
    BY <1>1, <1>2 DEF FoundEmpty, shared, Call, CallEnqueue, CallQuery, CallDequeue
  <2>2. QED
    BY <2>1, <1>1, <1>2, DoingStep DEF Phases
<1>4. Contents' = Contents
  BY <1>1, ContentsStay
<1>5. ~FoundEmpty' \/ t # receiver
  BY <1>2 DEF FoundEmpty
<1>6. Doing[t] = "idle"
  BY <1>2, DoingIs DEF Does
<1>7. CASE f = "enqueue"
  <2>1. PICK v \in Values : element' = [element EXCEPT ![sender] = v]
    BY <1>1, <1>7
  <2>2. Doing'[t] = "put" /\ Val'[t] = v
    BY <2>1, <1>1, <1>2, <1>7, DoingNext DEF Does, Val, TypeOK
  <2>3. Abstract!CallPut(t)
    BY <2>2, <1>3, <1>4, <1>6 DEF Abstract!CallPut
  <2>4. QED
    BY <2>3 DEF Simulates, Abstract!TryingNext, Abstract!Step
<1>8. CASE f = "dequeue"
  <2>1. Doing'[t] = "take" /\ Val'[t] = Val[t]
    BY <1>1, <1>2, <1>5, <1>8, DoingNext DEF Does, Val
  <2>2. Abstract!CallTake(t)
    BY <2>1, <1>3, <1>4, <1>6 DEF Abstract!CallTake
  <2>3. QED
    BY <2>2 DEF Simulates, Abstract!TryingNext, Abstract!Step
<1>9. CASE f \in Queries
  <2>1. Doing'[t] = Doing[t] /\ Val'[t] = Val[t]
    BY <1>1, <1>2, <1>6, <1>9, DoingNext DEF Does, Val, Queries
  <2>2. QED
    BY <2>1, <1>3, <1>4 DEF Simulates
<1>10. QED
  BY <1>7, <1>8, <1>9

\* A call returns.
LEMMA ReturnSimulates ==
  ASSUME IInv, NEW t \in Threads, Return(t)
  PROVE  Simulates
<1> USE Basics
<1>1. /\ pc[t] = "done" /\ pc'[t] = "idle" /\ op'[t] = "none" /\ element'[t] = Null
      /\ \A u \in Threads \ {t} :
           pc'[u] = pc[u] /\ op'[u] = op[u] /\ element'[u] = element[u] /\ answer'[u] = answer[u]
      /\ UNCHANGED shared
  BY DEF Return, TypeOK
<1>2. /\ Doing' = [Doing EXCEPT ![t] = Doing'[t]]
      /\ Val' = [Val EXCEPT ![t] = Val'[t]]
      /\ Doing'[t] = Doing[t] => Doing' = Doing
      /\ Val'[t] = Val[t] => Val' = Val
  <2>1. t # receiver => FoundEmpty' = FoundEmpty
    BY <1>1 DEF FoundEmpty, shared, Return
  <2>2. QED
    BY <2>1, <1>1, DoingStep DEF Phases
<1>3. Contents' = Contents
  BY <1>1, ContentsStay
<1>4. Doing'[t] = "idle" /\ Val'[t] = Null
  BY <1>1, DoingNext DEF Does, Val
<1>5. CASE op[t] \in {"enqueue", "dequeue"}
  <2>1. Doing[t] \in {"done", "refused"}
    BY <1>1, <1>5, DoingIs DEF Does
  <2>2. Abstract!Return(t)
    BY <2>1, <1>2, <1>3, <1>4 DEF Abstract!Return
  <2>3. QED
    BY <2>2 DEF Simulates, Abstract!TryingNext, Abstract!Step
<1>6. CASE op[t] \notin {"enqueue", "dequeue"}
  <2>1. Doing[t] = "idle" /\ Val[t] = Null
    BY <1>1, <1>6, DoingIs DEF Does, Val, Phases
  <2>2. QED
    BY <2>1, <1>2, <1>3, <1>4 DEF Simulates
<1>7. QED
  BY <1>5, <1>6

\* A thread reads SendPos: an empty channel has refused a dequeue already.
LEMMA ReadSendSimulates ==
  ASSUME IInv, NEW t \in Threads, ReadSend(t)
  PROVE  Simulates
<1> USE Basics
<1>1. /\ pc[t] = "readSend" /\ pc'[t] = "readReceive" /\ sendpos'[t] = Local(t, SendPos)
      /\ UNCHANGED <<shared, op, element, answer>>
      /\ \A u \in Threads \ {t} : pc'[u] = pc[u] /\ sendpos'[u] = sendpos[u]
  BY DEF ReadSend, TypeOK, call
<1>2. /\ Doing' = [Doing EXCEPT ![t] = Doing'[t]]
      /\ Val' = [Val EXCEPT ![t] = Val'[t]]
      /\ Doing'[t] = Doing[t] => Doing' = Doing
      /\ Val'[t] = Val[t] => Val' = Val
  <2>1. t # receiver => FoundEmpty' = FoundEmpty
    BY <1>1 DEF FoundEmpty, shared, ReadSend
  <2>2. QED
    BY <2>1, <1>1, DoingStep DEF Phases
<1>3. Contents' = Contents /\ Val'[t] = Val[t]
  BY <1>1, ContentsStay DEF Val
<1>4. ~FoundEmpty \/ t # receiver
  BY <1>1 DEF FoundEmpty
<1>5. CASE op[t] # "dequeue"
  <2>1. Doing'[t] = Doing[t]
    BY <1>1, <1>5, DoingIs, DoingNext DEF Does
  <2>2. QED
    BY <2>1, <1>2, <1>3 DEF Simulates
<1>6. CASE op[t] = "dequeue" /\ Waiting # 0
  <2>1. t = receiver
    BY <1>6 DEF Phases
  <2>2. Waiting \in 0..Waiting
    OBVIOUS
  <2>3. ~IsEmpty(Slot(SendPos), Slot(ReceivePos))
    BY <2>2, <1>6, Compare
  <2>4. ~FoundEmpty'
    BY <2>1, <2>3, <1>1, <1>6 DEF FoundEmpty, Local, shared
  <2>5. Doing[t] = "take" /\ Doing'[t] = "take"
    BY <2>1, <2>4, <1>1, <1>4, <1>6, DoingIs, DoingNext DEF Does
  <2>6. QED
    BY <2>5, <1>2, <1>3 DEF Simulates
<1>7. CASE op[t] = "dequeue" /\ Waiting = 0
  <2>1. t = receiver
    BY <1>7 DEF Phases
  <2>2. Waiting \in 0..Waiting
    OBVIOUS
  <2>3. IsEmpty(Slot(SendPos), Slot(ReceivePos))
    BY <2>2, <1>7, Compare
  <2>4. FoundEmpty'
    BY <2>1, <2>3, <1>1, <1>7 DEF FoundEmpty, Local, shared
  <2>5. Doing[t] = "take" /\ Doing'[t] = "refused"
    BY <2>1, <2>4, <1>1, <1>4, <1>7, DoingIs, DoingNext DEF Does
  <2>6. Contents = <<>>
    BY <1>7, ContentsIs DEF Queued
  <2>7. Abstract!Refuse(t)
    BY <2>5, <2>6, <1>2, <1>3 DEF Abstract!Refuse
  <2>8. QED
    BY <2>7 DEF Simulates, Abstract!TryingNext
<1>8. QED
  BY <1>5, <1>6, <1>7

\* A thread reads ReceivePos: a full channel refuses an enqueue now.
LEMMA ReadReceiveSimulates ==
  ASSUME IInv, NEW t \in Threads, ReadReceive(t)
  PROVE  Simulates
<1> USE Basics
<1> DEFINE r == Local(t, ReceivePos)
           res == Result(op[t], sendpos[t], r)
<1>1. /\ pc[t] = "readReceive" /\ answer'[t] = res
      /\ pc'[t] = IF op[t] \in {"enqueue", "dequeue"} /\ res = 0 THEN "copy" ELSE "done"
      /\ UNCHANGED <<shared, op, element, sendpos>>
      /\ \A u \in Threads \ {t} : pc'[u] = pc[u] /\ answer'[u] = answer[u]
  BY DEF ReadReceive, TypeOK, call
<1>2. PICK k \in 0..Waiting : sendpos[t] = Local(t, Ahead(k)) /\ (t = sender => k = Waiting)
  <2>1. CASE t = sender
    BY <2>1, <1>1 DEF SenderView
  <2>2. CASE t = receiver
    BY <2>2, <1>1 DEF ReceiverView
  <2>3. QED
    BY <2>1, <2>2
<1>3. op[t] \in {"enqueue", "full", "dequeue", "empty"} => res = IF Told(op[t], k) THEN 1 ELSE 0
  BY <1>2, Answers
<1> HIDE DEF r, res
<1>4. /\ Doing' = [Doing EXCEPT ![t] = Doing'[t]]
      /\ Val' = [Val EXCEPT ![t] = Val'[t]]
      /\ Doing'[t] = Doing[t] => Doing' = Doing
      /\ Val'[t] = Val[t] => Val' = Val
  <2>1. t # receiver => FoundEmpty' = FoundEmpty
    BY <1>1 DEF FoundEmpty, shared
  <2>2. QED
    BY <2>1, <1>1, DoingStep DEF Phases
<1>5. Contents' = Contents /\ Val'[t] = Val[t]
  BY <1>1, ContentsStay DEF Val
<1>6. CASE op[t] \notin {"enqueue", "dequeue"}
  <2>1. Doing'[t] = Doing[t]
    BY <1>1, <1>6, DoingIs, DoingNext DEF Does
  <2>2. QED
    BY <2>1, <1>4, <1>5 DEF Simulates
<1>7. CASE op[t] = "enqueue"
  <2>1. t = sender /\ Doing[t] = "put"
    BY <1>1, <1>7, DoingIs DEF Does, Phases
  <2>2. CASE Waiting # SIZE - 1
    <3>1. res = 0
      BY <2>1, <2>2, <1>2, <1>3, <1>7 DEF Told
    <3>2. Doing'[t] = "put"
      BY <3>1, <1>1, <1>7, DoingNext DEF Does
    <3>3. QED
      BY <3>2, <2>1, <1>4, <1>5 DEF Simulates
  <2>3. CASE Waiting = SIZE - 1
    <3>1. res = 1
      BY <2>1, <2>3, <1>2, <1>3, <1>7 DEF Told
    <3>2. Doing'[t] = "refused"
      BY <3>1, <1>1, <1>7, DoingNext DEF Does
    <3>3. Len(Contents) = SIZE - 1
      BY <2>3, ContentsIs DEF Queued
    <3>4. Abstract!Refuse(t)
      BY <3>2, <3>3, <2>1, <1>4, <1>5 DEF Abstract!Refuse
    <3>5. QED
      BY <3>4 DEF Simulates, Abstract!TryingNext
  <2>4. QED
    BY <2>2, <2>3
<1>8. CASE op[t] = "dequeue"
  <2>1. t = receiver
    BY <1>8 DEF Phases
  <2>2. FoundEmpty <=> k = 0
    BY <2>1, <1>1, <1>2, <1>8, Compare DEF FoundEmpty, Local
  <2>3. ~FoundEmpty'
    BY <2>1, <1>1 DEF FoundEmpty
  <2>4. res = IF k = 0 THEN 1 ELSE 0
    BY <1>3, <1>8 DEF Told
  <2>5. Doing'[t] = Doing[t]
    BY <2>2, <2>3, <2>4, <1>1, <1>8, DoingIs, DoingNext DEF Does
  <2>6. QED
    BY <2>5, <1>4, <1>5 DEF Simulates
<1>9. QED
  BY <1>6, <1>7, <1>8

\* Copying an element changes nothing yet.
LEMMA CopySimulates ==
  ASSUME IInv, CopyIn \/ CopyOut
  PROVE  Simulates
<1> USE Basics
<1>1. CASE CopyIn
  <2>1. /\ pc[sender] = "copy" /\ pc'[sender] = "inc" /\ pc'[receiver] = pc[receiver]
        /\ SendPos' = SendPos /\ ReceivePos' = ReceivePos
        /\ UNCHANGED <<op, element, sendpos, receivepos, answer>>
        /\ op[sender] = "enqueue" /\ Waiting' = Waiting
    BY <1>1 DEF CopyIn, TypeOK, call, Phases, Queries, Waiting
  <2>2. FoundEmpty' = FoundEmpty
    BY <2>1 DEF FoundEmpty
  <2>3. \A i \in 0..(Waiting - 1) : Elements'[Slot(ReceivePos + i)] = Elements[Slot(ReceivePos + i)]
    BY <1>1, CopyInStep
  <2>4. Contents' = Contents
    <3>1. Queued /\ Queued'
      BY <1>1, CopyInStep, ContentsIs, ContentsNext
    <3>2. \A i \in 1..Waiting : i - 1 \in 0..(Waiting - 1)
      OBVIOUS
    <3>3. QED
      BY <3>1, <3>2, <2>1, <2>3 DEF Queued
  <2>5. Doing'[sender] = Doing[sender] /\ Val'[sender] = Val[sender]
    BY <2>1, DoingIs, DoingNext DEF Does, Val
  <2>6. Doing' = Doing /\ Val' = Val
    BY <2>1, <2>2, <2>5, DoingStep DEF Phases
  <2>7. QED
    BY <2>4, <2>6 DEF Simulates
<1>2. CASE CopyOut
  <2>1. /\ pc[receiver] = "copy" /\ pc'[receiver] = "inc" /\ pc'[sender] = pc[sender]
        /\ UNCHANGED <<shared, op, sendpos, receivepos, answer>>
        /\ element'[sender] = element[sender] /\ element[receiver] = Null
        /\ op[receiver] = "dequeue"
    BY <1>2 DEF CopyOut, TypeOK, Phases, Queries
  <2>2. ~FoundEmpty /\ ~FoundEmpty'
    BY <2>1 DEF FoundEmpty
  <2>3. Contents' = Contents
    BY <2>1, ContentsStay
  <2>4. Doing'[receiver] = Doing[receiver] /\ Val'[receiver] = Val[receiver]
    BY <2>1, <2>2, DoingIs, DoingNext DEF Does, Val
  <2>5. Doing' = Doing /\ Val' = Val
    BY <2>1, <2>2, <2>4, DoingStep DEF Phases
  <2>6. QED
    BY <2>3, <2>5 DEF Simulates
<1>3. QED
  BY <1>1, <1>2

\* The sender's increment puts its element behind the others.
LEMMA IncSendSimulates ==
  ASSUME IInv, IncSend
  PROVE  Simulates
<1> USE Basics
<1>1. /\ pc[sender] = "inc" /\ pc'[sender] = "done" /\ pc'[receiver] = pc[receiver]
      /\ ReceivePos' = ReceivePos /\ Elements' = Elements
      /\ UNCHANGED <<op, element, sendpos, receivepos, answer>>
      /\ Waiting < SIZE - 1 /\ op[sender] = "enqueue" /\ element[sender] \in Values
      /\ Elements[Slot(SendPos)] = element[sender] /\ answer[sender] = 0
  BY DEF IncSend, TypeOK, call, SenderView, Phases, Queries, SlotsHold
<1>2. IInv' /\ Waiting' = Waiting + 1
  BY IncSendStep
<1>3. Queued /\ Queued'
  BY <1>2, ContentsIs, ContentsNext
<1>4. FoundEmpty' = FoundEmpty
  BY <1>1 DEF FoundEmpty
<1>5. /\ Doing[sender] = "put" /\ Doing'[sender] = "done"
      /\ Val[sender] = element[sender] /\ Val'[sender] = Val[sender]
  BY <1>1, DoingIs, DoingNext DEF Does, Val
<1>6. Doing' = [Doing EXCEPT ![sender] = "done"] /\ Val' = Val
  BY <1>1, <1>4, <1>5, DoingStep DEF Phases
<1>7. Contents' = Append(Contents, element[sender])
  <2>1. Slot(SendPos) = Slot(ReceivePos + Waiting)
    BY WaitingIs
  <2>2. \A i \in 1..(Waiting + 1) : Contents'[i] = Elements[Slot(ReceivePos + (i - 1))]
    BY <1>1, <1>2, <1>3 DEF Queued
  <2>3. Contents'[Waiting + 1] = element[sender]
    <3>1. Waiting + 1 \in 1..(Waiting + 1) /\ (Waiting + 1) - 1 = Waiting
      OBVIOUS
    <3>2. QED
      BY <2>1, <2>2, <3>1, <1>1
  <2>4. \A i \in 1..Waiting : Contents'[i] = Contents[i]
    BY <2>2, <1>3 DEF Queued
  <2>5. QED
    BY <2>3, <2>4, <1>1, <1>2, <1>3 DEF Queued
<1>8. Abstract!Put(sender)
  BY <1>1, <1>3, <1>5, <1>6, <1>7 DEF Abstract!Put, Queued
<1>9. QED
  BY <1>8 DEF Simulates, Abstract!TryingNext, Abstract!Step

\* The receiver's increment takes the first element.
LEMMA IncReceiveSimulates ==
  ASSUME IInv, IncReceive
  PROVE  Simulates
<1> USE Basics
<1>1. /\ pc[receiver] = "inc" /\ pc'[receiver] = "done" /\ pc'[sender] = pc[sender]
      /\ ReceivePos' = Inc(ReceivePos) /\ SendPos' = SendPos /\ Elements' = Elements
      /\ UNCHANGED <<op, element, sendpos, receivepos, answer>>
      /\ Waiting > 0 /\ op[receiver] = "dequeue" /\ answer[receiver] = 0
      /\ Elements[Slot(ReceivePos)] = element[receiver]
  BY DEF IncReceive, TypeOK, call, ReceiverView, Phases, Queries, SlotsHold
<1>2. IInv' /\ Waiting' = Waiting - 1
  BY IncReceiveStep
<1>3. Queued /\ Queued'
  BY <1>2, ContentsIs, ContentsNext
<1>4. ~FoundEmpty
  BY <1>1 DEF FoundEmpty
<1>5. /\ Doing[receiver] = "take" /\ Doing'[receiver] = "done"
      /\ Val'[receiver] = element[receiver]
  BY <1>1, <1>4, DoingIs, DoingNext DEF Does, Val
<1>6. /\ Doing' = [Doing EXCEPT ![receiver] = "done"]
      /\ Val' = [Val EXCEPT ![receiver] = element[receiver]]
  BY <1>1, <1>5, DoingStep DEF Phases
<1>7. Head(Contents) = element[receiver] /\ Contents # <<>>
  <2>1. Contents[1] = Elements[Slot(ReceivePos + (1 - 1))] /\ ReceivePos + (1 - 1) = ReceivePos
    BY <1>1, <1>3, SizeFacts DEF Queued
  <2>2. QED
    BY <2>1, <1>1, <1>3 DEF Queued
<1>8. Contents' = Tail(Contents)
  <2>1. \A i \in 0..(SIZE - 1) : Slot(ReceivePos' + i) = Slot(ReceivePos + (i + 1))
    BY <1>1, ReceiveMoves
  <2>2. ASSUME NEW i \in 1..(Waiting - 1) PROVE Contents'[i] = Contents[i + 1]
    <3>1. /\ i - 1 \in 0..(SIZE - 1) /\ (i - 1) + 1 = i
          /\ i + 1 \in 1..Waiting /\ (i + 1) - 1 = i
      OBVIOUS
    <3>2. Contents'[i] = Elements[Slot(ReceivePos' + (i - 1))]
      BY <1>1, <1>2, <1>3 DEF Queued
    <3>3. Contents[i + 1] = Elements[Slot(ReceivePos + ((i + 1) - 1))]
      BY <3>1, <1>3 DEF Queued
    <3>4. QED
      BY <3>1, <3>2, <3>3, <2>1
  <2>3. QED
    BY <2>2, <1>1, <1>2, <1>3, <1>7 DEF Queued
<1>9. Abstract!Take(receiver)
  BY <1>5, <1>6, <1>7, <1>8 DEF Abstract!Take
<1>10. QED
  BY <1>9 DEF Simulates, Abstract!TryingNext, Abstract!Step

\* Every step.
LEMMA NextSimulates == IInv /\ [Next]_vars => [Abstract!TryingNext]_(Abstract!vars)
<1> SUFFICES ASSUME IInv, [Next]_vars PROVE Simulates
  BY DEF Simulates, Abstract!vars
<1>1. CASE Next
  BY <1>1, CallSimulates, ReturnSimulates, ReadSendSimulates, ReadReceiveSimulates,
     CopySimulates, IncSendSimulates, IncReceiveSimulates DEF Next
<1>2. CASE UNCHANGED vars
  BY <1>2 DEF vars, shared, call, Simulates, Contents, Doing, Val, Waiting, FoundEmpty
<1>3. QED
  BY <1>1, <1>2

\* The first state.
LEMMA InitSimulates == Init => Abstract!Init
<1> SUFFICES ASSUME Init PROVE Abstract!Init
  OBVIOUS
<1>1. IInv
  BY InitInv
<1>2. Contents = <<>>
  BY <1>1, Basics, WaitingIs, ContentsIs DEF Init, Queued
<1>3. Doing = [t \in Threads |-> "idle"] /\ Val = [t \in Threads |-> Null]
  BY DEF Init, Doing, Val
<1>4. QED
  BY <1>2, <1>3 DEF Abstract!Init

\* The channel implements the abstract queue: without a lock, and for every
\* size, it is first-in first-out, loses and repeats nothing and refuses only
\* when it is full, or empty.
THEOREM ChannelRefinesFifo == Spec => ImplementsFifo
BY InitSimulates, NextSimulates, ChannelInvariance, PTL DEF Spec, ImplementsFifo, Abstract!TryingSpec

-----------------------------------------------------------------------------
(* The same of the behaviours of MCQueues in which the channel runs.       *)

\* A step of MCQueues is a step of the channel or leaves the part alone.
LEMMA PartStep ==
  ASSUME [NextQueues]_<<vars, part>>
  PROVE  /\ part' = part
         /\ part = "channel" => [Next]_vars
BY DEF NextQueues, ChannelStep, SharedStep, CallProducer, CallConsumer, Within, Rest

\* The invariant of the channel, while it is the part that runs.
ChannelInv == part = "channel" => IInv

\* The invariant holds in the runs of the channel.
LEMMA ChannelInvariant == LiveSpec => []ChannelInv
<1>1. InitQueues => ChannelInv
  BY InitInv DEF InitQueues, ChannelInv
<1>2. ChannelInv /\ [NextQueues]_<<vars, part>> => ChannelInv'
  BY PartStep, NextInv DEF ChannelInv
<1>3. QED
  BY <1>1, <1>2, PTL DEF LiveSpec

\* Sender and receiver never share a slot.
THEOREM NeverShared == LiveSpec => []NoSlotShared
<1>1. ChannelInv => NoSlotShared
  BY InvDisjoint DEF ChannelInv, NoSlotShared
<1>2. QED
  BY <1>1, ChannelInvariant, PTL

\* The queries err on the safe side.
THEOREM AnswersAreSafe == LiveSpec => []AnswersSafe
<1>1. ChannelInv => AnswersSafe
  BY DEF ChannelInv, AnswersSafe, IInv
<1>2. QED
  BY <1>1, ChannelInvariant, PTL

\* The channel is first-in first-out.
THEOREM ChannelFifo == LiveSpec => ChannelIsFifo
<1>1. InitQueues => (part = "channel" => Abstract!Init)
  BY InitSimulates DEF InitQueues
<1>2. ChannelInv /\ [NextQueues]_<<vars, part>>
        => [part = "channel" => [Abstract!TryingNext]_(Abstract!vars)]_<<vars, part>>
  BY PartStep, NextSimulates DEF ChannelInv
<1>3. QED
  BY <1>1, <1>2, ChannelInvariant, PTL DEF LiveSpec, ChannelIsFifo
=============================================================================
