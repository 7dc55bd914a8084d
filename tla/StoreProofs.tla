---------------------------- MODULE StoreProofs ----------------------------
(***************************************************************************)
(* Proofs about what the library stores data in.                           *)
(*                                                                         *)
(* CircleQueue, for every size and every set of elements: the two threads  *)
(* never touch the same slot at the same time, what deque hands out was    *)
(* put there, and the ring implements BoundedFifo.                         *)
(*                                                                         *)
(* BufferQueue, for any size of the block, of the mark and of the reserve, *)
(* any messages and any deaths of the two processes: the block holds the   *)
(* messages pushed and not yet popped, and every assertion holds.          *)
(*                                                                         *)
(* LruCache, for any size, keys and expiry times: the list and the map of  *)
(* a cache are those of the cache it promises to be.                       *)
(*                                                                         *)
(* LogFiles, for any number and size of the files and any failures: the    *)
(* files of a day are the end of what was written, in order, and all full  *)
(* when the beginning is missing and nothing went wrong.                   *)
(***************************************************************************)
EXTENDS CircleQueue, BufferQueue, LruCache, LogFiles,
        SequenceTheorems, FiniteSetTheorems, WellFoundedInduction, TLAPS

-----------------------------------------------------------------------------
(* CircleQueue.                                                            *)
\* The slots that hold a published element.
Published(i) == IF m_dwFront <= m_dwRear THEN m_dwFront <= i /\ i < m_dwRear
                                         ELSE m_dwFront <= i \/ i < m_dwRear

(***************************************************************************)
(* The inductive invariant.  A producer that has passed the full() test    *)
(* keeps a slot free between m_dwRear and m_dwFront until it publishes,    *)
(* and a consumer that has passed the empty() test keeps at least one      *)
(* element until it releases: the other thread's moves preserve both.      *)
(***************************************************************************)
Enqueuing == enquePc \in {"store", "publish"}
Dequeuing == dequePc \in {"load", "release"}

IInv ==
    /\ TypeOK
    /\ Enqueuing => Advance(m_dwRear) # m_dwFront /\ enqueElem \in Elems
    /\ enquePc = "publish" => pData[m_dwRear] = enqueElem
    /\ Dequeuing => m_dwFront # m_dwRear
    /\ dequePc = "release" => dequeElem = pData[m_dwFront]
    /\ \A i \in Slots : Published(i) => pData[i] \in Elems

LEMMA SizeNat == m_dwSize \in Nat /\ m_dwSize >= 2 /\ Capacity \in Nat /\ Capacity >= 1
BY CircleQueueAssumption DEF m_dwSize, Capacity

\* The modulus wraps the last slot to slot 0 and leaves the others alone.
LEMMA AdvanceValue ==
    ASSUME NEW i \in Slots
    PROVE  Advance(i) = IF i = m_dwSize - 1 THEN 0 ELSE i + 1
<1>1. i \in Nat /\ i < m_dwSize
  BY SizeNat DEF Slots
<1>2. CASE i = m_dwSize - 1
  BY <1>1, <1>2, SizeNat DEF Advance
<1>3. CASE i # m_dwSize - 1
  BY <1>1, <1>3, SizeNat DEF Advance
<1>. QED  BY <1>2, <1>3

LEMMA AdvanceInSlots ==
    ASSUME NEW i \in Slots
    PROVE  Advance(i) \in Slots
BY AdvanceValue, SizeNat DEF Slots

LEMMA InitIInv == Init => IInv
<1>. SUFFICES ASSUME Init PROVE IInv
  OBVIOUS
<1>1. 0 \in Slots
  BY SizeNat DEF Slots
<1>2. TypeOK
  BY <1>1 DEF Init, TypeOK
<1>3. \A i \in Slots : ~Published(i)
  BY SizeNat DEF Init, Published, Slots
<1>. QED  BY <1>2, <1>3 DEF Init, IInv, Enqueuing, Dequeuing

LEMMA TypeStep == ASSUME TypeOK, [Next]_vars PROVE TypeOK'
<1>. USE DEF TypeOK
<1>1. CASE EnqueRefused
  BY <1>1 DEF EnqueRefused, consumer
<1>2. ASSUME NEW e \in Elems, EnqueBegin(e) PROVE TypeOK'
  BY <1>2 DEF EnqueBegin, consumer
<1>3. CASE EnqueStore
  BY <1>3 DEF EnqueStore, consumer
<1>4. CASE EnquePublish
  BY <1>4, AdvanceInSlots DEF EnquePublish, consumer
<1>5. CASE DequeRefused
  BY <1>5 DEF DequeRefused, producer
<1>6. CASE DequeBegin
  BY <1>6 DEF DequeBegin, producer
<1>7. CASE DequeLoad
  BY <1>7 DEF DequeLoad, producer
<1>8. CASE DequeRelease
  BY <1>8, AdvanceInSlots DEF DequeRelease, producer
<1>9. CASE UNCHANGED vars
  BY <1>9 DEF vars
<1>. QED
  BY <1>1, <1>2, <1>3, <1>4, <1>5, <1>6, <1>7, <1>8, <1>9 DEF Next, Producer, Consumer

LEMMA IInvStep == ASSUME IInv, [Next]_vars PROVE IInv'
<1>. USE DEF IInv, TypeOK, Enqueuing, Dequeuing
<1>0. TypeOK'
  BY TypeStep
<1>1. CASE EnqueRefused
  BY <1>0, <1>1, Zenon DEF EnqueRefused, consumer, Published, Advance, m_dwSize
<1>2. ASSUME NEW e \in Elems, EnqueBegin(e) PROVE IInv'
  BY <1>0, <1>2 DEF EnqueBegin, consumer, Full, Published, Advance
<1>3. CASE EnqueStore
  <2>1. \A i \in Slots : Published(i) => i # m_dwRear
    BY SizeNat DEF Published, Slots
  <2>2. \A i \in Slots : Published(i)' => pData'[i] \in Elems
    BY <1>3, <2>1 DEF EnqueStore, Published
  <2>3. Dequeuing => pData'[m_dwFront] = pData[m_dwFront]
    BY <1>3 DEF EnqueStore
  <2>. QED  BY <1>0, <1>3, <2>2, <2>3 DEF EnqueStore, consumer, Advance
<1>4. CASE EnquePublish
  <2>1. \A i \in Slots : Published(i)' => Published(i) \/ i = m_dwRear
    BY <1>4, AdvanceValue, SizeNat DEF EnquePublish, Published, Slots
  <2>2. \A i \in Slots : Published(i)' => pData'[i] \in Elems
    BY <1>4, <2>1 DEF EnquePublish
  <2>3. Advance(m_dwRear) # m_dwFront
    BY <1>4 DEF EnquePublish
  <2>. QED  BY <1>0, <1>4, <2>2, <2>3 DEF EnquePublish, consumer
<1>5. CASE DequeRefused
  BY <1>0, <1>5 DEF DequeRefused, producer, Published, Advance
<1>6. CASE DequeBegin
  BY <1>0, <1>6 DEF DequeBegin, producer, Published, Advance, Empty
<1>7. CASE DequeLoad
  BY <1>0, <1>7 DEF DequeLoad, producer, Published, Advance
<1>8. CASE DequeRelease
  <2>1. \A i \in Slots : Published(i)' => Published(i)
    BY <1>8, AdvanceValue, SizeNat DEF DequeRelease, Published, Slots
  <2>2. \A i \in Slots : Published(i)' => pData'[i] \in Elems
    BY <1>8, <2>1 DEF DequeRelease, producer
  <2>3. Enqueuing => Advance(m_dwRear) # Advance(m_dwFront)
    BY <1>8, AdvanceValue, SizeNat DEF DequeRelease, Slots
  <2>. QED  BY <1>0, <1>8, <2>2, <2>3 DEF DequeRelease, producer, Advance
<1>9. CASE UNCHANGED vars
  BY <1>0, <1>9 DEF vars, Published, Advance
<1>. QED
  BY <1>1, <1>2, <1>3, <1>4, <1>5, <1>6, <1>7, <1>8, <1>9 DEF Next, Producer, Consumer

LEMMA IInvAlways == Spec => []IInv
BY InitIInv, IInvStep, PTL DEF Spec

(* The types of the ring's indices, slots and results, for every size.     *)
THEOREM TypeCorrect == Spec => []TypeOK
<1>1. IInv => TypeOK
  BY DEF IInv
<1>. QED  BY <1>1, IInvAlways, PTL

(* No slot is stored and loaded at the same time, for every size.          *)
THEOREM SlotRaceFree == Spec => []NoSlotRace
<1>1. IInv => NoSlotRace
  BY DEF IInv, NoSlotRace, Enqueuing, Dequeuing
<1>. QED  BY <1>1, IInvAlways, PTL

(* deque only hands out elements that a completed enque stored.            *)
THEOREM TakesPublished == Spec => []TakesWhatWasPut
<1>1. IInv => TakesWhatWasPut
  <2>1. IInv /\ dequePc = "release" => Published(m_dwFront)
    BY SizeNat DEF IInv, TypeOK, Dequeuing, Published, Slots
  <2>. QED  BY <2>1 DEF IInv, TypeOK, TakesWhatWasPut
<1>. QED  BY <1>1, IInvAlways, PTL

-----------------------------------------------------------------------------
(***************************************************************************)
(* The ring implements the bounded queue.  The queue's content is the      *)
(* published slots in order from m_dwFront; an element joins it when       *)
(* m_dwRear is stored and leaves it when m_dwFront is.                     *)
(***************************************************************************)
AbsFifo == [k \in 1 .. Used |-> pData[SlotAt(k - 1)]]

LEMMA UsedBounds == ASSUME TypeOK PROVE Used \in 0 .. Capacity
BY SizeNat DEF TypeOK, Used, Slots, m_dwSize

LEMMA SlotAtInSlots ==
    ASSUME TypeOK, NEW k \in 0 .. m_dwSize - 1
    PROVE  SlotAt(k) \in Slots
BY SizeNat DEF TypeOK, SlotAt, Slots

LEMMA PublishedSlots ==
    ASSUME TypeOK, NEW k \in 0 .. Used - 1
    PROVE  SlotAt(k) \in Slots /\ Published(SlotAt(k))
BY SizeNat, UsedBounds DEF TypeOK, SlotAt, Slots, Used, Published

LEMMA AbsFifoIsSeq == ASSUME IInv PROVE AbsFifo \in Seq(Elems) /\ Len(AbsFifo) = Used
<1>1. \A k \in 1 .. Used : pData[SlotAt(k - 1)] \in Elems
  BY PublishedSlots, UsedBounds, SizeNat DEF IInv
<1>2. Used \in Nat
  BY UsedBounds, SizeNat DEF IInv
<1>. QED  BY <1>1, <1>2 DEF AbsFifo

LEMMA RefusedOnlyWhenFull == ASSUME IInv, Full PROVE Used = Capacity
BY AdvanceValue, SizeNat DEF IInv, TypeOK, Full, Used, Slots, m_dwSize

LEMMA StoreLeavesFifo == ASSUME IInv, EnqueStore PROVE AbsFifo' = AbsFifo
<1>1. Used' = Used /\ \A k \in Nat : SlotAt(k)' = SlotAt(k)
  BY DEF EnqueStore, Used, SlotAt
<1>2. \A k \in 0 .. Used - 1 : pData'[SlotAt(k)] = pData[SlotAt(k)]
  <2>. SUFFICES ASSUME NEW k \in 0 .. Used - 1
                PROVE  pData'[SlotAt(k)] = pData[SlotAt(k)]
    OBVIOUS
  <2>1. SlotAt(k) \in Slots /\ Published(SlotAt(k))
    BY PublishedSlots DEF IInv
  <2>2. SlotAt(k) # m_dwRear
    BY <2>1, SizeNat DEF Published, IInv, TypeOK, Slots
  <2>. QED  BY <2>1, <2>2 DEF EnqueStore, IInv, TypeOK
<1>3. Used \in Nat
  BY UsedBounds, SizeNat DEF IInv
<1>4. \A k \in 1 .. Used : pData'[SlotAt(k - 1)'] = pData[SlotAt(k - 1)]
  BY <1>1, <1>2, <1>3
<1>. QED  BY <1>1, <1>4 DEF AbsFifo

LEMMA PublishAppends ==
    ASSUME IInv, EnquePublish
    PROVE  AbsFifo' = Append(AbsFifo, enqueElem) /\ Used < Capacity
<1>. USE DEF IInv, TypeOK
<1>0. Used \in Nat
  BY UsedBounds, SizeNat
<1>1. Advance(m_dwRear) # m_dwFront /\ enqueElem \in Elems
  BY DEF EnquePublish, Enqueuing
<1>2. m_dwRear' = Advance(m_dwRear) /\ m_dwFront' = m_dwFront
  BY DEF EnquePublish
<1>3. Used < Capacity
  BY <1>1, AdvanceValue, SizeNat DEF Used, Slots, m_dwSize
<1>4. Used' = Used + 1
  BY <1>1, <1>2, AdvanceValue, SizeNat DEF Used, Slots
<1>5. SlotAt(Used) = m_dwRear
  BY SizeNat DEF Used, SlotAt, Slots
<1>6. \A k \in Nat : SlotAt(k)' = SlotAt(k)
  BY <1>2 DEF SlotAt
<1>7. pData' = pData /\ pData[m_dwRear] = enqueElem
  BY DEF EnquePublish
<1>8. AbsFifo' = [k \in 1 .. Used + 1 |-> pData[SlotAt(k - 1)]]
  BY <1>0, <1>4, <1>6, <1>7 DEF AbsFifo
<1>. DEFINE longer == Append(AbsFifo, enqueElem)
<1>9. AbsFifo \in Seq(Elems) /\ Len(AbsFifo) = Used
  BY AbsFifoIsSeq
<1>10. /\ longer \in Seq(Elems) /\ Len(longer) = Used + 1
       /\ \A k \in 1 .. Used : longer[k] = AbsFifo[k]
       /\ longer[Used + 1] = enqueElem
  BY <1>1, <1>9, AppendProperties
<1>11. \A k \in 1 .. Used + 1 : AbsFifo'[k] = longer[k]
  <2>1. \A k \in 1 .. Used + 1 : AbsFifo'[k] = pData[SlotAt(k - 1)]
    BY <1>8
  <2>2. \A k \in 1 .. Used : AbsFifo[k] = pData[SlotAt(k - 1)]
    BY DEF AbsFifo
  <2>3. \A k \in 1 .. Used : longer[k] = pData[SlotAt(k - 1)]
    BY <1>10, <2>2
  <2>4. longer[Used + 1] = pData[SlotAt(Used)]
    BY <1>5, <1>7, <1>10
  <2>5. (Used + 1) - 1 = Used
    BY <1>0
  <2>. HIDE DEF longer
  <2>. QED  BY <1>0, <2>1, <2>3, <2>4, <2>5
<1>12. AbsFifo' \in Seq(Elems) /\ Len(AbsFifo') = Used + 1
  <2>1. \A k \in 1 .. Used + 1 : AbsFifo'[k] \in Elems
    BY <1>10, <1>11, <1>0
  <2>2. AbsFifo' = [k \in 1 .. Used + 1 |-> AbsFifo'[k]]
    BY <1>8
  <2>. QED  BY <1>0, <2>1, <2>2
<1>. HIDE DEF longer
<1>13. AbsFifo' = longer
  BY <1>10, <1>11, <1>12, SeqEqual
<1>. QED  BY <1>3, <1>13 DEF longer

LEMMA ReleaseTakesHead ==
    ASSUME IInv, DequeRelease
    PROVE  AbsFifo # <<>> /\ dequeElem = Head(AbsFifo) /\ AbsFifo' = Tail(AbsFifo)
<1>. USE DEF IInv, TypeOK
<1>0. Used \in Nat
  BY UsedBounds, SizeNat
<1>1. Used >= 1 /\ Used' = Used - 1 /\ SlotAt(0) = m_dwFront
  BY AdvanceValue, SizeNat, SMTT(30) DEF DequeRelease, Used, SlotAt, Slots, Dequeuing
<1>2. \A k \in 0 .. Used - 2 : SlotAt(k)' = SlotAt(k + 1)
  BY AdvanceValue, SizeNat, UsedBounds DEF DequeRelease, Used, SlotAt, Slots, m_dwSize
<1>3. pData' = pData
  BY DEF DequeRelease, producer
<1>4. AbsFifo' = [k \in 1 .. Used - 1 |-> pData[SlotAt(k)]]
  BY <1>0, <1>1, <1>2, <1>3 DEF AbsFifo
<1>5. AbsFifo \in Seq(Elems) /\ Len(AbsFifo) = Used /\ AbsFifo # <<>>
  BY <1>0, <1>1, AbsFifoIsSeq
<1>6. /\ Head(AbsFifo) = AbsFifo[1]
      /\ Tail(AbsFifo) \in Seq(Elems) /\ Len(Tail(AbsFifo)) = Used - 1
      /\ \A k \in 1 .. Used - 1 : Tail(AbsFifo)[k] = AbsFifo[k + 1]
  BY <1>0, <1>1, <1>5, HeadTailProperties
<1>7. AbsFifo[1] = pData[m_dwFront]
  BY <1>0, <1>1 DEF AbsFifo
<1>8. \A k \in 1 .. Used - 1 : AbsFifo'[k] = Tail(AbsFifo)[k]
  BY <1>0, <1>1, <1>4, <1>6 DEF AbsFifo
<1>9. AbsFifo' \in Seq(Elems) /\ Len(AbsFifo') = Used - 1
  <2>1. \A k \in 1 .. Used - 1 : AbsFifo'[k] \in Elems
    BY <1>0, <1>6, <1>8
  <2>. QED  BY <1>0, <1>1, <1>4, <2>1
<1>10. AbsFifo' = Tail(AbsFifo)
  BY <1>6, <1>8, <1>9, SeqEqual
<1>. QED  BY <1>5, <1>6, <1>7, <1>10 DEF DequeRelease

(* Every behaviour of the ring, of any size, is one of a bounded queue.    *)
THEOREM RingImplementsFifo == Spec => ImplementsFifo
<1>. DEFINE AbsVars == <<AbsFifo, answer, taken>>
<1>1. Init => Fifo!Init
  <2>. SUFFICES ASSUME Init PROVE Fifo!Init
    OBVIOUS
  <2>1. Used = 0
    BY DEF Init, Used
  <2>2. AbsFifo = <<>>
    BY <2>1 DEF AbsFifo
  <2>. QED  BY <2>2 DEF Init, Fifo!Init, AbsFifo
<1>2. IInv /\ [Next]_vars => [Fifo!Next]_(Fifo!vars)
  <2>. SUFFICES ASSUME IInv, [Next]_vars
                PROVE  Fifo!Next \/ UNCHANGED AbsVars
    BY DEF Fifo!vars, AbsFifo
  <2>. USE DEF AbsFifo
  <2>0. Len(AbsFifo) = Used /\ AbsFifo \in Seq(Elems)
    BY AbsFifoIsSeq
  <2>1. CASE EnqueRefused
    <3>1. Used = Capacity
      BY <2>1, RefusedOnlyWhenFull DEF EnqueRefused
    <3>2. AbsFifo' = AbsFifo
      BY <2>1 DEF EnqueRefused, Used, SlotAt
    <3>. QED  BY <2>0, <2>1, <3>1, <3>2 DEF EnqueRefused, consumer, Fifo!Refuse, Fifo!Next
  <2>2. ASSUME NEW e \in Elems, EnqueBegin(e) PROVE UNCHANGED AbsVars
    BY <2>2 DEF EnqueBegin, consumer, Used, SlotAt
  <2>3. CASE EnqueStore
    BY <2>3, StoreLeavesFifo DEF EnqueStore, consumer
  <2>4. CASE EnquePublish
    BY <2>0, <2>4, PublishAppends
       DEF EnquePublish, consumer, Fifo!Put, Fifo!Next, IInv, Enqueuing
  <2>5. CASE DequeRefused
    <3>1. Used = 0
      BY <2>5, SizeNat DEF DequeRefused, Empty, Used, IInv, TypeOK, Slots
    <3>2. AbsFifo = <<>>
      BY <3>1
    <3>3. AbsFifo' = AbsFifo
      BY <2>5 DEF DequeRefused, producer, Used, SlotAt
    <3>. QED  BY <2>5, <3>2, <3>3 DEF DequeRefused, producer, Fifo!Miss, Fifo!Next
  <2>6. CASE DequeBegin
    BY <2>6 DEF DequeBegin, producer, Used, SlotAt
  <2>7. CASE DequeLoad
    BY <2>7 DEF DequeLoad, producer, Used, SlotAt
  <2>8. CASE DequeRelease
    BY <2>8, ReleaseTakesHead DEF DequeRelease, producer, Fifo!Take, Fifo!Next
  <2>9. CASE UNCHANGED vars
    BY <2>9 DEF vars, Used, SlotAt
  <2>. QED
    BY <2>1, <2>2, <2>3, <2>4, <2>5, <2>6, <2>7, <2>8, <2>9 DEF Next, Producer, Consumer
<1>. QED  BY <1>1, <1>2, IInvAlways, PTL DEF Spec, ImplementsFifo, Fifo!Spec

-----------------------------------------------------------------------------
(* BufferQueue.                                                            *)
\* A position less than two blocks from the first.
Wrap(a) == IF a < iBufSize THEN a ELSE a - iBufSize
LEMMA Wrapped == ASSUME NEW a \in Nat, a < 2 * iBufSize PROVE a % iBufSize = Wrap(a) /\ Wrap(a) \in 0 .. iBufSize - 1
<1>1. iBufSize \in Nat /\ iBufSize > 0
  BY BufferQueueAssumption
<1>2. CASE a < iBufSize
  BY <1>1, <1>2 DEF Wrap
<1>3. CASE ~(a < iBufSize)
  <2>1. a = (a - iBufSize) + iBufSize /\ a - iBufSize \in 0 .. iBufSize - 1
    BY <1>1, <1>3
  <2> QED BY <1>1, <1>3, <2>1 DEF Wrap
<1> QED BY <1>2, <1>3


\* Bytes k to k + n - 1 of message m.
Piece(m, k, n) == [j \in 1 .. n |-> <<m, k + j - 1>>]

IsPiece(s, m, k, n) == s \in Seq(Nat \X Nat) /\ Len(s) = n /\ \A j \in 1 .. n : s[j] = <<m, k + j - 1>>

LEMMA PieceIs == ASSUME NEW m \in Nat, NEW k \in Nat, NEW n \in Nat PROVE IsPiece(Piece(m, k, n), m, k, n)
<1>1. Piece(m, k, n) \in [1 .. n -> Nat \X Nat] /\ \A j \in 1 .. n : Piece(m, k, n)[j] = <<m, k + j - 1>>
  BY DEF Piece
<1> DEFINE P == Piece(m, k, n)
<1> HIDE DEF P
<1>2. P \in [1 .. n -> Nat \X Nat]
  BY <1>1 DEF P
<1>3. P \in Seq(Nat \X Nat)
  BY <1>2, SeqDef
<1>4. Len(P) = n
  BY <1>2, <1>3, LenProperties
<1> QED BY <1>1, <1>3, <1>4 DEF P, IsPiece

Sums(n, a, b) == n = a + b
Joins(m, k, a, l, b, n) == Piece(m, k, a) \o Piece(m, l, b) = Piece(m, k, n)
LEMMA PiecesJoin ==
    ASSUME NEW m \in Nat, NEW k \in Nat, NEW a \in Nat, NEW b \in Nat,
           NEW l \in Nat, Sums(l, k, a), NEW n \in Nat, Sums(n, a, b)
    PROVE  Joins(m, k, a, l, b, n)
<1> DEFINE P == Piece(m, k, a)
           Q == Piece(m, l, b)
           R == Piece(m, k, n)
<1>0. n \in Nat /\ l \in Nat /\ l = k + a /\ n = a + b
  BY DEF Sums
<1>a. IsPiece(P, m, k, a) /\ IsPiece(Q, m, l, b) /\ IsPiece(R, m, k, n)
  BY <1>0, PieceIs
<1>1. P \in Seq(Nat \X Nat) /\ Len(P) = a /\ \A j \in 1 .. a : P[j] = <<m, k + j - 1>>
  BY <1>a DEF IsPiece
<1>2. Q \in Seq(Nat \X Nat) /\ Len(Q) = b /\ \A j \in 1 .. b : Q[j] = <<m, l + j - 1>>
  BY <1>a DEF IsPiece
<1>3. R \in Seq(Nat \X Nat) /\ Len(R) = n /\ \A j \in 1 .. n : R[j] = <<m, k + j - 1>>
  BY <1>a DEF IsPiece
<1> HIDE DEF P, Q, R
<1>4. /\ P \o Q \in Seq(Nat \X Nat) /\ Len(P \o Q) = Len(P) + Len(Q)
      /\ \A i \in 1 .. Len(P) + Len(Q) : (P \o Q)[i] = IF i <= Len(P) THEN P[i] ELSE Q[i - Len(P)]
  BY <1>1, <1>2, ConcatProperties
<1>5. ASSUME NEW i \in 1 .. n PROVE (P \o Q)[i] = R[i]
  <2>1. CASE i <= a
    <3>1. i \in 1 .. a /\ i \in 1 .. Len(P) + Len(Q)
      BY <1>1, <1>2, <2>1
    <3>2. (P \o Q)[i] = P[i]
      BY <1>1, <1>4, <2>1, <3>1
    <3> QED BY <1>1, <1>3, <3>1, <3>2
  <2>2. CASE ~(i <= a)
    <3>1. i - a \in 1 .. b /\ l + (i - a) - 1 = k + i - 1
      BY <1>0, <2>2
    <3>2. Q[i - a] = <<m, l + (i - a) - 1>>
      BY <1>2, <3>1
    <3>3. (P \o Q)[i] = Q[i - a]
      <4>1. i \in 1 .. Len(P) + Len(Q) /\ ~(i <= Len(P))
        BY <1>0, <1>1, <1>2, <2>2
      <4> QED BY <1>1, <1>4, <4>1
    <3> QED BY <1>3, <3>1, <3>2, <3>3
  <2> QED BY <2>1, <2>2
<1>6. P \o Q = R
  BY <1>0, <1>1, <1>2, <1>3, <1>4, <1>5, SeqEqual
<1> QED BY <1>6 DEF P, Q, R, Joins

HasBytes(from, m, k, n) == \A j \in 0 .. n - 1 : data[from + j] = <<m, k + j>>
AsPiece(from, m, k, n) == Bytes(from, n) = Piece(m, k, n)
LEMMA BytesArePiece ==
    ASSUME NEW m \in Nat, NEW k \in Nat, NEW n \in Nat, NEW from \in Nat, HasBytes(from, m, k, n)
    PROVE  AsPiece(from, m, k, n)
<1>1. ASSUME NEW j \in 1 .. n PROVE data[from + j - 1] = <<m, k + j - 1>>
  <2>1. PICK i \in 0 .. n - 1 : i = j - 1
    OBVIOUS
  <2>2. data[from + i] = <<m, k + i>> /\ from + i = from + j - 1 /\ k + i = k + j - 1
    BY <2>1 DEF HasBytes
  <2> QED BY <2>2
<1> QED BY <1>1 DEF Bytes, Piece, AsPiece

\* A message of len bytes from position from on, as pop copies it out.
Found(p, from, len) == len <= iBufSize /\ p.len = len /\ p.from = from /\ p.new = Wrap(from + len)
LiesFrom(from, m, len) == \A j \in 0 .. len - 1 : data[Wrap(from + j)] = <<m, j>>
LEMMA PopCopies ==
    ASSUME NEW m \in Nat, NEW from \in 0 .. iBufSize - 1, NEW len \in Nat \ {0}, NEW p, Found(p, from, len),
           LiesFrom(from, m, len), NEW size1 \in Nat
    PROVE  GotInOne(p) = Piece(m, 0, len) /\ GotInTwo(p, size1) = Piece(m, 0, len)
<1>f. /\ len <= iBufSize /\ p.len = len /\ p.from = from /\ p.new = Wrap(from + len)
      /\ \A j \in 0 .. len - 1 : data[Wrap(from + j)] = <<m, j>>
  BY DEF Found, LiesFrom
<1> USE <1>f
<1> DEFINE room == iBufSize - from
<1>0. iBufSize \in Nat /\ room \in Nat /\ from \in Nat /\ len \in Nat /\ room > 0
  BY BufferQueueAssumption
<1>j. ASSUME NEW k \in Nat, NEW a \in Nat, NEW b \in Nat, NEW l \in Nat, Sums(l, k, a), NEW n \in Nat, Sums(n, a, b)
      PROVE  Joins(m, k, a, l, b, n)
  BY <1>j, PiecesJoin
<1>1. p.new > p.from <=> from + len < iBufSize
  BY <1>0 DEF Wrap
<1>2. ASSUME NEW a \in Nat, NEW b \in Nat, a + b <= len, from + a + b <= iBufSize
      PROVE  Bytes(from + a, b) = Piece(m, a, b)
  <2>1. ASSUME NEW j \in 0 .. b - 1 PROVE data[from + a + j] = <<m, a + j>>
    <3>1. a + j \in 0 .. len - 1 /\ from + (a + j) = from + a + j /\ Wrap(from + (a + j)) = from + a + j
      BY <1>0, <1>2 DEF Wrap
    <3> QED BY <3>1
  <2>2. HasBytes(from + a, m, a, b)
    BY <2>1 DEF HasBytes
  <2>3. from + a \in Nat
    BY <1>0
  <2>4. AsPiece(from + a, m, a, b)
    BY <2>2, <2>3, BytesArePiece
  <2> QED BY <2>4 DEF AsPiece
<1>3. ASSUME NEW a \in Nat, NEW b \in Nat, a + b <= len, from + a >= iBufSize, NEW to, to = from + a - iBufSize
      PROVE  Bytes(to, b) = Piece(m, a, b)
  <2>1. ASSUME NEW j \in 0 .. b - 1 PROVE data[to + j] = <<m, a + j>>
    <3>1. a + j \in 0 .. len - 1 /\ Wrap(from + (a + j)) = to + j
      BY <1>0, <1>3 DEF Wrap
    <3> QED BY <3>1
  <2>2. HasBytes(to, m, a, b)
    BY <2>1 DEF HasBytes
  <2>3. to \in Nat
    BY <1>0, <1>3
  <2>4. AsPiece(to, m, a, b)
    BY <2>2, <2>3, BytesArePiece
  <2> QED BY <2>4 DEF AsPiece
<1>4. CASE from + len < iBufSize
  <2>1. Bytes(from, len) = Piece(m, 0, len)
    <3>1. Bytes(from + 0, len) = Piece(m, 0, len)
      BY <1>0, <1>2, <1>4
    <3> QED BY <1>0, <3>1
  <2>2. ASSUME ~(size1 > len) PROVE Bytes(from, size1) \o Bytes(from + size1, len - size1) = Piece(m, 0, len)
    <3>1. len - size1 \in Nat
      BY <1>0, <2>2
    <3>2. Bytes(from + size1, len - size1) = Piece(m, size1, len - size1)
      BY <1>0, <1>2, <1>4, <2>2, <3>1
    <3>3. Bytes(from + 0, size1) = Piece(m, 0, size1)
      BY <1>0, <1>2, <1>4, <2>2
    <3>4. Piece(m, 0, size1) \o Piece(m, size1, len - size1) = Piece(m, 0, len)
      <4>1. Sums(size1, 0, size1) /\ Sums(len, size1, len - size1) /\ 0 \in Nat
        BY <1>0 DEF Sums
      <4>2. Joins(m, 0, size1, size1, len - size1, len)
        BY <1>0, <3>1, <4>1, <1>j
      <4> QED BY <4>2 DEF Joins
    <3> QED BY <1>0, <3>2, <3>3, <3>4
  <2> QED BY <1>1, <1>4, <2>1, <2>2 DEF GotInOne, GotInTwo
<1>5. CASE ~(from + len < iBufSize)
  <2> DEFINE new == len - room
  <2>0. new \in Nat /\ p.new = new /\ ~(p.new > p.from) /\ room <= len
    BY <1>0, <1>1, <1>5 DEF Wrap
  <2>1. Bytes(from, room) = Piece(m, 0, room)
    <3>1. Bytes(from + 0, room) = Piece(m, 0, room)
      BY <1>0, <1>2, <2>0
    <3> QED BY <1>0, <3>1
  <2>2. Bytes(0, new) = Piece(m, room, new)
    BY <1>0, <1>3, <2>0
  <2>3. Bytes(from, room) \o Bytes(0, new) = Piece(m, 0, len)
    <3>1. Sums(room, 0, room) /\ Sums(len, room, new) /\ 0 \in Nat
      BY <1>0 DEF Sums
    <3> HIDE DEF room, new
    <3>2. Piece(m, 0, room) \o Piece(m, room, new) = Piece(m, 0, len)
      <4>1. Joins(m, 0, room, room, new, len)
        BY <1>0, <2>0, <3>1, <1>j
      <4> QED BY <4>1 DEF Joins
    <3> QED BY <2>1, <2>2, <3>2
  <2>4. ASSUME ~(size1 > len), size1 > room
        PROVE  Bytes(from, room) \o Bytes(0, size1 - room) \o Bytes(from + size1 - iBufSize, len - size1) = Piece(m, 0, len)
    <3>1. PICK a \in Nat : a = size1 - room
      BY <1>0, <2>4
    <3>2. PICK b \in Nat : b = len - size1
      BY <1>0, <2>4
    <3>3. Bytes(0, a) = Piece(m, room, a)
      BY <1>0, <1>3, <2>4, <3>1
    <3>4. Bytes(from + size1 - iBufSize, b) = Piece(m, size1, b)
      BY <1>0, <1>3, <2>4, <3>2
    <3>5. Piece(m, 0, room) \o Piece(m, room, a) = Piece(m, 0, size1)
      <4>1. Sums(room, 0, room) /\ Sums(size1, room, a) /\ 0 \in Nat
        BY <1>0, <3>1 DEF Sums
      <4> HIDE DEF room
      <4>2. Joins(m, 0, room, room, a, size1)
        BY <1>0, <4>1, <1>j
      <4> QED BY <4>2 DEF Joins
    <3>6. Piece(m, 0, size1) \o Piece(m, size1, b) = Piece(m, 0, len)
      <4>1. Sums(size1, 0, size1) /\ Sums(len, size1, b) /\ 0 \in Nat
        BY <1>0, <3>2 DEF Sums
      <4>2. Joins(m, 0, size1, size1, b, len)
        BY <1>0, <4>1, <1>j
      <4> QED BY <4>2 DEF Joins
    <3> QED BY <2>1, <3>1, <3>2, <3>3, <3>4, <3>5, <3>6
  <2>5. ASSUME ~(size1 > len), ~(size1 > room)
        PROVE  Bytes(from, size1) \o Bytes(from + size1, room - size1) \o Bytes(0, len - room) = Piece(m, 0, len)
    <3>1. PICK a \in Nat : a = room - size1
      BY <1>0, <2>5
    <3>2. Bytes(from + 0, size1) = Piece(m, 0, size1) /\ from + 0 = from
      BY <1>0, <1>2, <2>0, <2>5
    <3>3. Bytes(from + size1, a) = Piece(m, size1, a)
      BY <1>0, <1>2, <2>0, <2>5, <3>1
    <3>4. Piece(m, 0, size1) \o Piece(m, size1, a) = Piece(m, 0, room)
      <4>1. Sums(size1, 0, size1) /\ Sums(room, size1, a) /\ 0 \in Nat
        BY <1>0, <3>1 DEF Sums
      <4> HIDE DEF room
      <4>2. Joins(m, 0, size1, size1, a, room)
        BY <1>0, <4>1, <1>j
      <4> QED BY <4>2 DEF Joins
    <3>5. Piece(m, 0, room) \o Piece(m, room, new) = Piece(m, 0, len)
      BY <2>1, <2>2, <2>3
    <3> QED BY <2>2, <3>1, <3>2, <3>3, <3>4, <3>5
  <2> HIDE DEF room, new
  <2>6. GotInOne(p) = Piece(m, 0, len)
    BY <2>0, <2>3 DEF GotInOne, room
  <2>7. GotInTwo(p, size1) = Piece(m, 0, len)
    <3>1. CASE size1 > len
      BY <2>0, <2>3, <3>1 DEF GotInTwo, room
    <3>2. CASE ~(size1 > len) /\ size1 > room
      BY <2>0, <2>4, <3>2 DEF GotInTwo, room
    <3>3. CASE ~(size1 > len) /\ ~(size1 > room)
      BY <2>0, <2>5, <3>3 DEF GotInTwo, room
    <3> QED BY <3>1, <3>2, <3>3
  <2> QED BY <2>6, <2>7
<1> QED BY <1>4, <1>5


\* A copy puts bytes of a message of len, its mark before it, where they belong
\* when the mark begins at a; a set of copies puts all of them.
Lands(c, a, len) ==
    \A x \in 0 .. c.n - 1 : c.k + ulMarkLen + x \in 0 .. ulMarkLen + len - 1
                            /\ Wrap(a + (c.k + ulMarkLen + x)) = c.to + x
Reaches(c, j) == \E x \in 0 .. c.n - 1 : j = c.k + ulMarkLen + x
UpTo(cs, a, len, h) ==
    /\ \A c \in cs : c.to \in Int /\ c.k \in Int /\ c.n \in Int /\ Lands(c, a, len)
    /\ \A j \in 0 .. ulMarkLen + h - 1 : \E c \in cs : Reaches(c, j)
Small(a, len) == a \in 0 .. iBufSize - 1 /\ len \in Nat \ {0} /\ ulMarkLen + len < iBufSize
Right(to, k, n, a, len) ==
    /\ to \in Int /\ k \in Int /\ n \in Int /\ k + ulMarkLen >= 0 /\ k + n <= len
    /\ \/ to = a + k + ulMarkLen /\ a + k + ulMarkLen + n <= iBufSize
       \/ to = a + k + ulMarkLen - iBufSize /\ a + k + ulMarkLen >= iBufSize

LEMMA RightLands ==
    ASSUME NEW a, NEW len, Small(a, len), NEW to, NEW k, NEW n, Right(to, k, n, a, len)
    PROVE  /\ Copy(to, k, n).to \in Int /\ Copy(to, k, n).k \in Int /\ Copy(to, k, n).n \in Int
           /\ Lands(Copy(to, k, n), a, len)
           /\ \A j \in Int : k + ulMarkLen <= j /\ j < k + ulMarkLen + n => Reaches(Copy(to, k, n), j)
<1> DEFINE c == Copy(to, k, n)
<1>0. iBufSize \in Nat /\ ulMarkLen \in Nat /\ a \in Nat /\ len \in Nat /\ to \in Int /\ k \in Int /\ n \in Int
  BY BufferQueueAssumption DEF Small, Right
<1>1. c.to = to /\ c.k = k /\ c.n = n
  BY DEF Copy
<1> HIDE DEF c
<1>2. ASSUME NEW x \in 0 .. n - 1
      PROVE  k + ulMarkLen + x \in 0 .. ulMarkLen + len - 1 /\ Wrap(a + (k + ulMarkLen + x)) = to + x
  BY <1>0 DEF Right, Wrap
<1>3. Lands(c, a, len)
  BY <1>1, <1>2 DEF Lands
<1>4. ASSUME NEW j \in Int, k + ulMarkLen <= j, j < k + ulMarkLen + n PROVE Reaches(c, j)
  <2>1. j - (k + ulMarkLen) \in 0 .. n - 1 /\ j = k + ulMarkLen + (j - (k + ulMarkLen))
    BY <1>0, <1>4
  <2> QED BY <1>1, <2>1 DEF Reaches
<1> QED BY <1>0, <1>1, <1>3, <1>4 DEF c

LEMMA AddCopy ==
    ASSUME NEW a, NEW len, Small(a, len), NEW cs, NEW h \in Int, UpTo(cs, a, len, h),
           NEW to, NEW n \in Int, Right(to, h, n, a, len), NEW g, g = h + n
    PROVE  UpTo(cs \cup {Copy(to, h, n)}, a, len, g)
<1> DEFINE c == Copy(to, h, n)
<1>0. ulMarkLen \in Nat
  BY BufferQueueAssumption
<1>1. /\ c.to \in Int /\ c.k \in Int /\ c.n \in Int /\ Lands(c, a, len)
      /\ \A j \in Int : h + ulMarkLen <= j /\ j < h + ulMarkLen + n => Reaches(c, j)
  BY RightLands
<1> HIDE DEF c
<1>2. ASSUME NEW j \in 0 .. ulMarkLen + g - 1 PROVE \E d \in cs \cup {c} : Reaches(d, j)
  <2>1. CASE j < ulMarkLen + h
    <3>1. j \in 0 .. ulMarkLen + h - 1
      BY <1>0, <2>1
    <3> QED BY <3>1 DEF UpTo
  <2>2. CASE ~(j < ulMarkLen + h)
    <3>1. Reaches(c, j)
      BY <1>0, <1>1, <2>2
    <3> QED BY <3>1
  <2> QED BY <2>1, <2>2
<1> QED BY <1>1, <1>2 DEF UpTo, c

LEMMA NoCopies == ASSUME NEW a, NEW len PROVE UpTo({}, a, len, -ulMarkLen)
<1>1. ulMarkLen \in Nat
  BY BufferQueueAssumption
<1> QED BY <1>1 DEF UpTo

\* The mark and what follows it, of two, three or four copies.
LEMMA CopiesInARow ==
    ASSUME NEW a, NEW len, Small(a, len),
           NEW t1, NEW n1 \in Int, NEW t2, NEW k2, NEW n2 \in Int, NEW t3, NEW k3, NEW n3 \in Int,
           NEW t4, NEW k4, NEW n4 \in Int,
           Right(t1, -ulMarkLen, n1, a, len), k2 = n1 - ulMarkLen, Right(t2, k2, n2, a, len), k3 = k2 + n2
    PROVE  /\ len = k3 => UpTo({Copy(t1, -ulMarkLen, n1), Copy(t2, k2, n2)}, a, len, len)
           /\ Right(t3, k3, n3, a, len) /\ len = k3 + n3
                => UpTo({Copy(t1, -ulMarkLen, n1), Copy(t2, k2, n2), Copy(t3, k3, n3)}, a, len, len)
           /\ Right(t3, k3, n3, a, len) /\ k4 = k3 + n3 /\ Right(t4, k4, n4, a, len) /\ len = k4 + n4
                => UpTo({Copy(t1, -ulMarkLen, n1), Copy(t2, k2, n2), Copy(t3, k3, n3), Copy(t4, k4, n4)}, a, len, len)
<1> DEFINE c1 == Copy(t1, -ulMarkLen, n1)
           c2 == Copy(t2, k2, n2)
           c3 == Copy(t3, k3, n3)
           c4 == Copy(t4, k4, n4)
<1>0. PICK k1 \in Int : k1 = -ulMarkLen
  BY BufferQueueAssumption
<1>1. UpTo({} \cup {c1}, a, len, k2)
  <2>1. UpTo({}, a, len, k1)
    BY <1>0, NoCopies
  <2>2. Right(t1, k1, n1, a, len)
    BY <1>0
  <2>3. k2 = k1 + n1
    BY <1>0, BufferQueueAssumption
  <2>4. UpTo({} \cup {Copy(t1, k1, n1)}, a, len, k2)
    BY <2>1, <2>2, <2>3, AddCopy
  <2> QED BY <1>0, <2>4
<1>2. k2 \in Int /\ k3 \in Int
  BY <1>0
<1>3. UpTo({} \cup {c1} \cup {c2}, a, len, k3)
  <2> HIDE DEF c1
  <2> QED BY <1>1, <1>2, AddCopy
<1>4. ASSUME len = k3 PROVE UpTo({c1, c2}, a, len, len)
  <2> HIDE DEF c1, c2
  <2>1. {} \cup {c1} \cup {c2} = {c1, c2}
    OBVIOUS
  <2> QED BY <1>3, <1>4, <2>1
<1>5. ASSUME Right(t3, k3, n3, a, len), NEW g, g = k3 + n3 PROVE UpTo({} \cup {c1} \cup {c2} \cup {c3}, a, len, g)
  <2> HIDE DEF c1, c2
  <2> QED BY <1>2, <1>3, <1>5, AddCopy
<1>6. ASSUME Right(t3, k3, n3, a, len), len = k3 + n3 PROVE UpTo({c1, c2, c3}, a, len, len)
  <2>1. UpTo({} \cup {c1} \cup {c2} \cup {c3}, a, len, len)
    BY <1>5, <1>6
  <2> HIDE DEF c1, c2, c3
  <2>2. {} \cup {c1} \cup {c2} \cup {c3} = {c1, c2, c3}
    OBVIOUS
  <2> QED BY <2>1, <2>2
<1>7. ASSUME Right(t3, k3, n3, a, len), k4 = k3 + n3, Right(t4, k4, n4, a, len), len = k4 + n4
      PROVE  UpTo({c1, c2, c3, c4}, a, len, len)
  <2>1. UpTo({} \cup {c1} \cup {c2} \cup {c3}, a, len, k4)
    BY <1>5, <1>7
  <2>2. k4 \in Int
    BY <1>2, <1>7
  <2>3. UpTo({} \cup {c1} \cup {c2} \cup {c3} \cup {c4}, a, len, len)
    <3> HIDE DEF c1, c2, c3
    <3> QED BY <1>7, <2>1, <2>2, AddCopy
  <2> HIDE DEF c1, c2, c3, c4
  <2>4. {} \cup {c1} \cup {c2} \cup {c3} \cup {c4} = {c1, c2, c3, c4}
    OBVIOUS
  <2> QED BY <2>3, <2>4
<1> QED BY <1>4, <1>6, <1>7

LEMMA PushOneCopies ==
    ASSUME NEW len, Small(iEnd, len)
    PROVE  UpTo(CopiesOfOne(len).to, iEnd, len, len) /\ CopiesOfOne(len).end = Wrap(iEnd + ulMarkLen + len)
<1> DEFINE from == iEnd + ulMarkLen
           room == iBufSize - from
<1>0. iBufSize \in Nat /\ ulMarkLen \in Nat /\ ulMarkLen > 0 /\ iEnd \in Nat /\ iEnd < iBufSize /\ len \in Nat /\ len > 0
      /\ ulMarkLen + len < iBufSize /\ room \in Int
  BY BufferQueueAssumption DEF Small
<1>1. CASE room < 0
  <2>1. CopiesOfOne(len) = [to |-> {Copy(iEnd, -ulMarkLen, iBufSize - iEnd), Copy(0, room, -room), Copy(-room, 0, len)},
                            end |-> len - room]
    BY <1>1 DEF CopiesOfOne
  <2>2. /\ Right(iEnd, -ulMarkLen, iBufSize - iEnd, iEnd, len) /\ Right(0, room, -room, iEnd, len)
        /\ Right(-room, 0, len, iEnd, len) /\ room = iBufSize - iEnd - ulMarkLen /\ 0 = room + -room /\ len = 0 + len
        /\ iBufSize - iEnd \in Int /\ -room \in Int /\ len \in Int
    BY <1>0, <1>1 DEF Right
  <2>3. UpTo({Copy(iEnd, -ulMarkLen, iBufSize - iEnd), Copy(0, room, -room), Copy(-room, 0, len)}, iEnd, len, len)
    <3> HIDE DEF room
    <3> QED BY <2>2, CopiesInARow, ZenonT(60)
  <2>4. len - room = Wrap(iEnd + ulMarkLen + len)
    BY <1>0, <1>1 DEF Wrap
  <2> QED BY <2>1, <2>3, <2>4
<1>2. CASE ~(room < 0) /\ len > room
  <2>1. CopiesOfOne(len) = [to |-> {Copy(iEnd, -ulMarkLen, ulMarkLen), Copy(from, 0, room), Copy(0, room, len - room)},
                            end |-> len - room]
    BY <1>2 DEF CopiesOfOne
  <2>2. /\ Right(iEnd, -ulMarkLen, ulMarkLen, iEnd, len) /\ Right(from, 0, room, iEnd, len)
        /\ Right(0, room, len - room, iEnd, len) /\ 0 = ulMarkLen - ulMarkLen /\ room = 0 + room /\ len = room + (len - room)
        /\ ulMarkLen \in Int /\ len - room \in Int
    BY <1>0, <1>2 DEF Right
  <2>3. UpTo({Copy(iEnd, -ulMarkLen, ulMarkLen), Copy(from, 0, room), Copy(0, room, len - room)}, iEnd, len, len)
    <3> HIDE DEF from, room
    <3> QED BY <1>0, <2>2, CopiesInARow, ZenonT(60)
  <2>4. len - room = Wrap(iEnd + ulMarkLen + len)
    BY <1>0, <1>2 DEF Wrap
  <2> QED BY <2>1, <2>3, <2>4
<1>3. CASE ~(room < 0) /\ ~(len > room)
  <2>1. CopiesOfOne(len) = [to |-> {Copy(iEnd, -ulMarkLen, ulMarkLen), Copy(from, 0, len)}, end |-> (from + len) % iBufSize]
    BY <1>3 DEF CopiesOfOne
  <2>2. /\ Right(iEnd, -ulMarkLen, ulMarkLen, iEnd, len) /\ Right(from, 0, len, iEnd, len)
        /\ 0 = ulMarkLen - ulMarkLen /\ len = 0 + len /\ ulMarkLen \in Int /\ len \in Int
    BY <1>0, <1>3 DEF Right
  <2>3. UpTo({Copy(iEnd, -ulMarkLen, ulMarkLen), Copy(from, 0, len)}, iEnd, len, len)
    <3> HIDE DEF from
    <3> QED BY <1>0, <2>2, CopiesInARow, ZenonT(60)
  <2>4. (from + len) % iBufSize = Wrap(iEnd + ulMarkLen + len)
    <3>1. from + len \in Nat /\ from + len < 2 * iBufSize /\ from + len = iEnd + ulMarkLen + len
      BY <1>0
    <3> HIDE DEF from
    <3> QED BY <3>1, Wrapped
  <2> QED BY <2>1, <2>3, <2>4
<1> QED BY <1>1, <1>2, <1>3

LEMMA PushTwoCopies ==
    ASSUME NEW len, Small(iEnd, len), NEW len1 \in Nat, len1 <= len
    PROVE  UpTo(CopiesOfTwo(len, len1).to, iEnd, len, len) /\ CopiesOfTwo(len, len1).end = Wrap(iEnd + ulMarkLen + len)
<1> DEFINE from == iEnd + ulMarkLen
           room == iBufSize - from
           len2 == len - len1
<1>0. iBufSize \in Nat /\ ulMarkLen \in Nat /\ ulMarkLen > 0 /\ iEnd \in Nat /\ iEnd < iBufSize /\ len \in Nat /\ len > 0
      /\ ulMarkLen + len < iBufSize /\ room \in Int /\ len2 \in Int
  BY BufferQueueAssumption DEF Small
<1>1. CASE room < 0
  <2>1. CopiesOfTwo(len, len1) =
           [to |-> {Copy(iEnd, -ulMarkLen, iBufSize - iEnd), Copy(0, room, -room), Copy(-room, 0, len1), Copy(len1 - room, len1, len2)},
            end |-> len - room]
    BY <1>1 DEF CopiesOfTwo
  <2>2. /\ Right(iEnd, -ulMarkLen, iBufSize - iEnd, iEnd, len) /\ Right(0, room, -room, iEnd, len)
        /\ Right(-room, 0, len1, iEnd, len) /\ Right(len1 - room, len1, len2, iEnd, len)
        /\ room = iBufSize - iEnd - ulMarkLen /\ 0 = room + -room /\ len1 = 0 + len1 /\ len = len1 + len2
        /\ iBufSize - iEnd \in Int /\ -room \in Int /\ len1 \in Int
    BY <1>0, <1>1 DEF Right
  <2>3. UpTo({Copy(iEnd, -ulMarkLen, iBufSize - iEnd), Copy(0, room, -room), Copy(-room, 0, len1), Copy(len1 - room, len1, len2)},
             iEnd, len, len)
    <3> HIDE DEF room, len2
    <3> QED BY <1>0, <2>2, CopiesInARow, ZenonT(60)
  <2>4. len - room = Wrap(iEnd + ulMarkLen + len)
    BY <1>0, <1>1 DEF Wrap
  <2> QED BY <2>1, <2>3, <2>4
<1>2. CASE ~(room < 0) /\ len > room
  <2>0. len - room = Wrap(iEnd + ulMarkLen + len)
    BY <1>0, <1>2 DEF Wrap
  <2>1. CASE len1 > room
    <3>1. CopiesOfTwo(len, len1) =
             [to |-> {Copy(iEnd, -ulMarkLen, ulMarkLen), Copy(from, 0, room), Copy(0, room, len1 - room), Copy(len1 - room, len1, len2)},
              end |-> len - room]
      <4>1. CopiesOfTwo(len, len1) =
             [to |-> {Copy(iEnd, -ulMarkLen, ulMarkLen)} \cup {Copy(from, 0, room), Copy(0, room, len1 - room), Copy(len1 - room, len1, len2)},
              end |-> len - room]
        BY <1>2, <2>1 DEF CopiesOfTwo
      <4>2. \A a, b, c, d : {a} \cup {b, c, d} = {a, b, c, d}
        OBVIOUS
      <4> QED BY <4>1, <4>2
    <3>2. /\ Right(iEnd, -ulMarkLen, ulMarkLen, iEnd, len) /\ Right(from, 0, room, iEnd, len)
          /\ Right(0, room, len1 - room, iEnd, len) /\ Right(len1 - room, len1, len2, iEnd, len)
          /\ 0 = ulMarkLen - ulMarkLen /\ room = 0 + room /\ len1 = room + (len1 - room) /\ len = len1 + len2
          /\ ulMarkLen \in Int /\ len1 - room \in Int
      BY <1>0, <1>2, <2>1 DEF Right
    <3>3. UpTo({Copy(iEnd, -ulMarkLen, ulMarkLen), Copy(from, 0, room), Copy(0, room, len1 - room), Copy(len1 - room, len1, len2)},
               iEnd, len, len)
      <4> HIDE DEF from, room, len2
      <4> QED BY <1>0, <3>2, CopiesInARow, ZenonT(60)
    <3> QED BY <2>0, <3>1, <3>3
  <2>2. CASE ~(len1 > room)
    <3>1. CopiesOfTwo(len, len1) =
             [to |-> {Copy(iEnd, -ulMarkLen, ulMarkLen), Copy(from, 0, len1), Copy(from + len1, len1, room - len1), Copy(0, room, len - room)},
              end |-> len - room]
      <4>1. CopiesOfTwo(len, len1) =
             [to |-> {Copy(iEnd, -ulMarkLen, ulMarkLen)} \cup {Copy(from, 0, len1), Copy(from + len1, len1, room - len1), Copy(0, room, len - room)},
              end |-> len - room]
        BY <1>2, <2>2 DEF CopiesOfTwo
      <4>2. \A a, b, c, d : {a} \cup {b, c, d} = {a, b, c, d}
        OBVIOUS
      <4> QED BY <4>1, <4>2
    <3>2. /\ Right(iEnd, -ulMarkLen, ulMarkLen, iEnd, len) /\ Right(from, 0, len1, iEnd, len)
          /\ Right(from + len1, len1, room - len1, iEnd, len) /\ Right(0, room, len - room, iEnd, len)
          /\ 0 = ulMarkLen - ulMarkLen /\ len1 = 0 + len1 /\ room = len1 + (room - len1) /\ len = room + (len - room)
          /\ ulMarkLen \in Int /\ len1 \in Int /\ room - len1 \in Int /\ len - room \in Int
      BY <1>0, <1>2, <2>2 DEF Right
    <3>3. UpTo({Copy(iEnd, -ulMarkLen, ulMarkLen), Copy(from, 0, len1), Copy(from + len1, len1, room - len1), Copy(0, room, len - room)},
               iEnd, len, len)
      <4> HIDE DEF from, room
      <4> QED BY <1>0, <3>2, CopiesInARow, ZenonT(60)
    <3> QED BY <2>0, <3>1, <3>3
  <2> QED BY <2>1, <2>2
<1>3. CASE ~(room < 0) /\ ~(len > room)
  <2>1. CopiesOfTwo(len, len1) =
           [to |-> {Copy(iEnd, -ulMarkLen, ulMarkLen), Copy(from, 0, len1), Copy(from + len1, len1, len2)},
            end |-> (from + len) % iBufSize]
    BY <1>3 DEF CopiesOfTwo
  <2>2. /\ Right(iEnd, -ulMarkLen, ulMarkLen, iEnd, len) /\ Right(from, 0, len1, iEnd, len)
        /\ Right(from + len1, len1, len2, iEnd, len)
        /\ 0 = ulMarkLen - ulMarkLen /\ len1 = 0 + len1 /\ len = len1 + len2 /\ ulMarkLen \in Int /\ len1 \in Int
    BY <1>0, <1>3 DEF Right
  <2>3. UpTo({Copy(iEnd, -ulMarkLen, ulMarkLen), Copy(from, 0, len1), Copy(from + len1, len1, len2)}, iEnd, len, len)
    <3> HIDE DEF from, len2
    <3> QED BY <1>0, <2>2, CopiesInARow, ZenonT(60)
  <2>4. (from + len) % iBufSize = Wrap(iEnd + ulMarkLen + len)
    <3>1. from + len \in Nat /\ from + len < 2 * iBufSize /\ from + len = iEnd + ulMarkLen + len
      BY <1>0
    <3> HIDE DEF from
    <3> QED BY <3>1, Wrapped
  <2> QED BY <2>1, <2>3, <2>4
<1> QED BY <1>1, <1>2, <1>3

\* What the copies leave in the block.
Holds(d, a, m, len) == \A j \in 0 .. ulMarkLen + len - 1 : d[Wrap(a + j)] = <<m, j - ulMarkLen>>
LEMMA CopiesLand ==
    ASSUME NEW len, Small(iEnd, len), NEW cs, UpTo(cs, iEnd, len, len), DOMAIN data = 0 .. iBufSize - 1
    PROVE  /\ DOMAIN Copied(cs) = 0 .. iBufSize - 1
           /\ Holds(Copied(cs), iEnd, Len(lens), len)
           /\ \A i \in 0 .. iBufSize - 1 :
                 (\A j \in 0 .. ulMarkLen + len - 1 : Wrap(iEnd + j) # i) => Copied(cs)[i] = data[i]
<1>0. iBufSize \in Nat /\ ulMarkLen \in Nat /\ ulMarkLen > 0 /\ iEnd \in Nat /\ iEnd < iBufSize /\ len \in Nat /\ len > 0
      /\ ulMarkLen + len < iBufSize
  BY BufferQueueAssumption DEF Small
<1> DEFINE Here(i) == {c \in cs : c.to <= i /\ i < c.to + c.n}
<1>1. \A i \in 0 .. iBufSize - 1 :
         Copied(cs)[i] = IF Here(i) = {} THEN data[i]
                         ELSE LET c == CHOOSE c \in Here(i) : TRUE IN <<Len(lens), c.k + i - c.to>>
  BY DEF Copied
<1>2. DOMAIN Copied(cs) = 0 .. iBufSize - 1
  BY DEF Copied
<1>3. ASSUME NEW i \in 0 .. iBufSize - 1, NEW c \in Here(i)
      PROVE  c.k + i - c.to + ulMarkLen \in 0 .. ulMarkLen + len - 1 /\ i = Wrap(iEnd + (c.k + i - c.to + ulMarkLen))
  <2>1. c.to \in Int /\ c.k \in Int /\ c.n \in Int /\ Lands(c, iEnd, len)
    BY DEF UpTo
  <2>2. PICK x \in Int : x = i - c.to
    BY <2>1
  <2>3. x \in 0 .. c.n - 1
    BY <2>1, <2>2
  <2>4. c.k + ulMarkLen + x \in 0 .. ulMarkLen + len - 1 /\ Wrap(iEnd + (c.k + ulMarkLen + x)) = c.to + x
    BY <2>1, <2>3 DEF Lands
  <2>5. c.k + ulMarkLen + x = c.k + i - c.to + ulMarkLen /\ c.to + x = i
    BY <1>0, <2>1, <2>2
  <2> QED BY <2>4, <2>5
<1> HIDE DEF Here
<1>4. ASSUME NEW i \in 0 .. iBufSize - 1, \A j \in 0 .. ulMarkLen + len - 1 : Wrap(iEnd + j) # i
      PROVE  Copied(cs)[i] = data[i]
  <2>1. Here(i) \subseteq {}
    BY <1>3, <1>4
  <2> QED BY <1>1, <2>1
<1>5. ASSUME NEW j \in 0 .. ulMarkLen + len - 1
      PROVE  Copied(cs)[Wrap(iEnd + j)] = <<Len(lens), j - ulMarkLen>>
  <2> DEFINE i == Wrap(iEnd + j)
  <2>1. i \in 0 .. iBufSize - 1
    BY <1>0 DEF Wrap
  <2>2. PICK c \in cs : Reaches(c, j)
    BY DEF UpTo
  <2>3. PICK x \in 0 .. c.n - 1 : j = c.k + ulMarkLen + x
    BY <2>2 DEF Reaches
  <2>4. c.to \in Int /\ c.k \in Int /\ c.n \in Int /\ Wrap(iEnd + j) = c.to + x
    BY <2>3 DEF UpTo, Lands
  <2>5. c \in Here(i)
    BY <2>1, <2>3, <2>4 DEF Here
  <2>6. PICK e \in Here(i) : e = CHOOSE d \in Here(i) : TRUE
    BY <2>5
  <2> HIDE DEF i
  <2>7. Copied(cs)[i] = <<Len(lens), e.k + i - e.to>>
    BY <1>1, <2>1, <2>5, <2>6
  <2>8. PICK y \in 0 .. ulMarkLen + len - 1 : y = e.k + i - e.to + ulMarkLen /\ i = Wrap(iEnd + y)
    BY <1>3, <2>1
  <2>9. y = j
    <3>1. Wrap(iEnd + y) = Wrap(iEnd + j)
      BY <2>8 DEF i
    <3> QED BY <1>0, <3>1 DEF Wrap
  <2>10. e.k + i - e.to = j - ulMarkLen
    <3>1. e.k \in Int /\ e.to \in Int
      BY DEF Here, UpTo
    <3>2. PICK k \in Int, t \in Int : k = e.k /\ t = e.to
      BY <3>1
    <3>3. j = k + i - t + ulMarkLen
      BY <2>8, <2>9, <3>2
    <3>4. k + i - t = j - ulMarkLen
      BY <1>0, <2>1, <3>3
    <3> QED BY <3>2, <3>4
  <2> QED BY <2>7, <2>10 DEF i
<1> QED BY <1>2, <1>4, <1>5 DEF Holds


\* f[i] is where the i-th message ends, counted on past the end of the block.
MemoryTypes ==
    /\ iBegin \in 0 .. iBufSize - 1 /\ iEnd \in 0 .. iBufSize - 1 /\ DOMAIN data = 0 .. iBufSize - 1
    /\ lens \in Seq(Nat \ {0}) /\ queued \in Seq(Nat) /\ \A i \in 1 .. Len(queued) : queued[i] \in 1 .. Len(lens)
Chain(f) ==
    /\ f \in [0 .. Len(queued) -> Nat] /\ f[0] = iBegin /\ iEnd = Wrap(f[Len(queued)])
    /\ \A i \in 1 .. Len(queued) : f[i] = f[i - 1] + ulMarkLen + lens[queued[i]] /\ \A k \in 1 .. i : f[k] <= f[i]
    /\ \A i \in 0 .. Len(queued) : f[0] <= f[i] /\ f[i] <= f[Len(queued)]
    /\ Len(queued) # 0 => f[Len(queued)] + ulReserveLen <= f[0] + iBufSize
Lies(f) == \A i \in 1 .. Len(queued) : Holds(data, f[i - 1], queued[i], lens[queued[i]])
\* The room that push found free, with the iBegin that it read, still is.
HasRoom(len) ==
    /\ writer.begin \in 0 .. iBufSize - 1
    /\ InUse(iBegin, iEnd) <= InUse(writer.begin, iEnd)
    /\ InUse(writer.begin, iEnd) + ulMarkLen + len + ulReserveLen <= iBufSize
Writing ==
    /\ writer.at \in {"copy", "publish"} => Len(lens) # 0 /\ HasRoom(lens[Len(lens)])
    /\ writer.at = "publish" => /\ writer.end = Wrap(iEnd + ulMarkLen + lens[Len(lens)])
                                /\ Holds(data, iEnd, Len(lens), lens[Len(lens)])
\* The iEnd that pop read is the end of a message that is queued.
Reading(f) ==
    /\ reader.at = "read" => reader.size \in Nat /\ \E k \in 1 .. Len(queued) : reader.end = Wrap(f[k])
    /\ reader.at = "release" => /\ Len(queued) # 0 /\ reader.new = Wrap(f[1])
                                /\ reader.got # <<>> => reader.got = Piece(queued[1], 0, lens[queued[1]])
MemoryHolds(f) == Chain(f) /\ Lies(f) /\ Writing /\ Reading(f)
MemoryInv == MemoryTypes /\ \E f : MemoryHolds(f)

LEMMA Sizes == iBufSize \in Nat /\ ulMarkLen \in Nat /\ ulMarkLen > 0 /\ ulReserveLen \in Nat /\ ulReserveLen > 0 /\ iBufSize > 0
BY BufferQueueAssumption

LEMMA BufferStart == BufferInit => MemoryInv
<1> SUFFICES ASSUME BufferInit PROVE MemoryInv
  OBVIOUS
<1> DEFINE f == [i \in 0 .. 0 |-> 0]
<1>1. queued = <<>> /\ lens = <<>> /\ Len(<<>>) = 0 /\ iBegin = 0 /\ iEnd = 0 /\ data = [i \in 0 .. iBufSize - 1 |-> Blank]
      /\ writer = Idle /\ reader = Idle
  BY DEF BufferInit
<1>2. MemoryTypes
  BY <1>1, Sizes DEF MemoryTypes
<1>3. Chain(f)
  BY <1>1, Sizes DEF Chain, Wrap
<1>4. Lies(f) /\ Writing /\ Reading(f)
  BY <1>1 DEF Lies, Writing, Reading, Idle
<1> HIDE DEF f
<1> QED BY <1>2, <1>3, <1>4 DEF MemoryInv, MemoryHolds

\* What follows from the chain for the message at the front and for the end.
LEMMA Spans ==
    ASSUME MemoryTypes, NEW f, Chain(f)
    PROVE  /\ Len(queued) \in Nat /\ Len(lens) \in Nat
           /\ \A i \in 0 .. Len(queued) : f[i] \in Nat /\ f[i] < 2 * iBufSize
           /\ InUse(iBegin, iEnd) = f[Len(queued)] - f[0]
           /\ \A i \in 1 .. Len(queued) : /\ queued[i] \in 1 .. Len(lens) /\ lens[queued[i]] \in Nat \ {0}
                                          /\ i - 1 \in 0 .. Len(queued) /\ f[i - 1] \in Nat
           /\ (Len(queued) = 0 <=> iBegin = iEnd)
<1>1. Len(queued) \in Nat /\ Len(lens) \in Nat
  BY LenProperties DEF MemoryTypes
<1>2. f[Len(queued)] \in Nat /\ f[0] \in Nat /\ f[0] = iBegin /\ iBegin < iBufSize /\ iEnd = Wrap(f[Len(queued)])
      /\ f[0] <= f[Len(queued)]
  BY <1>1, Sizes DEF Chain, MemoryTypes
<1>3. Len(queued) # 0 => f[Len(queued)] + ulReserveLen <= f[0] + iBufSize
  BY DEF Chain
<1>4. \A i \in 0 .. Len(queued) : f[i] \in Nat /\ f[i] <= f[Len(queued)]
  BY DEF Chain
<1>5. \A i \in 0 .. Len(queued) : f[i] \in Nat /\ f[i] < 2 * iBufSize
  BY <1>1, <1>2, <1>3, <1>4, Sizes
<1>6. InUse(iBegin, iEnd) = f[Len(queued)] - f[0]
  BY <1>1, <1>2, <1>3, Sizes DEF InUse, Wrap
<1>7. ASSUME NEW i \in 1 .. Len(queued)
      PROVE  /\ queued[i] \in 1 .. Len(lens) /\ lens[queued[i]] \in Nat \ {0}
             /\ i - 1 \in 0 .. Len(queued) /\ f[i - 1] \in Nat
  <2>1. queued[i] \in 1 .. Len(lens)
    BY DEF MemoryTypes
  <2>2. lens[queued[i]] \in Nat \ {0}
    BY <2>1, ElementOfSeq DEF MemoryTypes
  <2>3. i - 1 \in 0 .. Len(queued)
    BY <1>1
  <2> QED BY <2>1, <2>2, <2>3, <1>4
<1>8. Len(queued) # 0 => iBegin # iEnd
  <2> SUFFICES ASSUME Len(queued) # 0 PROVE iBegin # iEnd
    OBVIOUS
  <2>1. PICK n \in 1 .. Len(queued) : n = Len(queued)
    BY <1>1
  <2>2. f[n] = f[n - 1] + ulMarkLen + lens[queued[n]] /\ f[0] <= f[n - 1]
    BY <1>1, <1>7, <2>1 DEF Chain
  <2>3. f[n] > f[0]
    <3>1. PICK u \in Nat, v \in Nat, l \in Nat : u = f[0] /\ v = f[n - 1] /\ l = lens[queued[n]]
      BY <1>2, <1>7
    <3>2. PICK k \in Nat : k = ulMarkLen /\ k > 0
      BY Sizes
    <3>3. u <= v /\ f[n] = v + k + l /\ f[0] = u
      BY <2>2, <3>1, <3>2
    <3>4. v + k + l > u
      BY <3>2, <3>3
    <3> QED BY <3>3, <3>4
  <2> QED BY <1>2, <1>3, <2>1, <2>3, Sizes DEF Wrap
<1>9. Len(queued) = 0 => iBegin = iEnd
  BY <1>2 DEF Wrap
<1> QED BY <1>1, <1>5, <1>6, <1>7, <1>8, <1>9

\* Steps that leave the block and its history alone.
LEMMA SameBlock ==
    ASSUME MemoryTypes, NEW f, Chain(f), Lies(f), UNCHANGED <<iBegin, iEnd, data, lens, queued>>
    PROVE  MemoryTypes' /\ Chain(f)' /\ Lies(f)' /\ (Reading(f) /\ UNCHANGED reader => Reading(f)')
           /\ (Writing /\ UNCHANGED writer => Writing')
BY DEF MemoryTypes, Chain, Lies, Reading, Writing, HasRoom

LEMMA PushBeginKeeps == ASSUME MemoryInv, PushBegin PROVE MemoryInv'
<1>0. PICK f : MemoryHolds(f)
  BY DEF MemoryInv
<1>1. MemoryTypes /\ Chain(f) /\ Lies(f) /\ Reading(f)
  BY <1>0 DEF MemoryInv, MemoryHolds
<1>2. PICK len \in Lengths, one \in BOOLEAN :
         /\ ~NoRoom(len, iBegin) /\ lens' = Append(lens, len)
         /\ writer' = [at |-> "copy", one |-> one, begin |-> iBegin]
  BY DEF PushBegin
<1>3. UNCHANGED <<iBegin, iEnd, data, queued, reader>>
  BY DEF PushBegin
<1>4. len \in Nat \ {0}
  BY BufferQueueAssumption
<1>5. /\ lens' \in Seq(Nat \ {0}) /\ Len(lens') = Len(lens) + 1 /\ lens'[Len(lens) + 1] = len /\ Len(lens) \in Nat
      /\ \A m \in 1 .. Len(lens) : lens'[m] = lens[m]
  BY <1>1, <1>2, <1>4, AppendProperties, LenProperties DEF MemoryTypes
<1>6. /\ Len(queued) \in Nat /\ InUse(iBegin, iEnd) = f[Len(queued)] - f[0]
      /\ \A i \in 1 .. Len(queued) : queued[i] \in 1 .. Len(lens)
  BY <1>1, Spans
<1>7. MemoryTypes'
  BY <1>1, <1>3, <1>5, <1>6 DEF MemoryTypes
<1>8. Chain(f)'
  BY <1>1, <1>3, <1>5, <1>6 DEF Chain
<1>9. Lies(f)'
  BY <1>1, <1>3, <1>5, <1>6 DEF Lies
<1>10. Reading(f)'
  <2>1. Len(queued) # 0 => lens'[queued[1]] = lens[queued[1]]
    BY <1>5, <1>6
  <2> QED BY <1>1, <1>3, <2>1 DEF Reading
<1>11. Writing'
  <2>1. writer'.at = "copy" /\ writer'.begin = iBegin
    BY <1>2
  <2>2. iBufSize - InUse(iBegin, iEnd) >= ulMarkLen + len + ulReserveLen
    <3>1. f[Len(queued)] - f[0] \in Int
      BY <1>1, <1>6 DEF Chain
    <3> QED BY <1>2, <1>4, <1>6, <3>1, Sizes DEF NoRoom
  <2>3. InUse(iBegin, iEnd) \in Int
    BY <1>1, <1>6 DEF Chain
  <2>4. lens'[Len(lens')] = len /\ Len(lens') # 0
    BY <1>5
  <2>5. iBegin \in 0 .. iBufSize - 1 /\ InUse(iBegin, iEnd) <= InUse(iBegin, iEnd)
        /\ InUse(iBegin, iEnd) + ulMarkLen + len + ulReserveLen <= iBufSize
    BY <1>1, <1>4, <2>2, <2>3, Sizes DEF MemoryTypes
  <2>6. HasRoom(len)'
    BY <1>3, <2>1, <2>5 DEF HasRoom, InUse
  <2> QED BY <2>1, <2>4, <2>6 DEF Writing
<1> QED BY <1>7, <1>8, <1>9, <1>10, <1>11 DEF MemoryInv, MemoryHolds

\* The bytes that push writes are none of a queued message.
LEMMA FreeBytes ==
    ASSUME MemoryTypes, NEW f, Chain(f), NEW len \in Nat \ {0}, HasRoom(len)
    PROVE  /\ Small(iEnd, len)
           /\ f[Len(queued)] + ulMarkLen + len + ulReserveLen <= f[0] + iBufSize
           /\ \A i \in 1 .. Len(queued) : \A j \in 0 .. ulMarkLen + lens[queued[i]] - 1 :
                 /\ Wrap(f[i - 1] + j) \in 0 .. iBufSize - 1
                 /\ \A x \in 0 .. ulMarkLen + len - 1 : Wrap(iEnd + x) # Wrap(f[i - 1] + j)
<1>1. /\ Len(queued) \in Nat /\ InUse(iBegin, iEnd) = f[Len(queued)] - f[0]
      /\ \A i \in 1 .. Len(queued) : lens[queued[i]] \in Nat \ {0} /\ i - 1 \in 0 .. Len(queued) /\ f[i - 1] \in Nat
  BY Spans
<1>a. f[Len(queued)] \in Nat /\ f[0] \in Nat /\ f[0] = iBegin /\ f[0] <= f[Len(queued)] /\ iEnd = Wrap(f[Len(queued)])
  BY <1>1 DEF Chain
<1>b. iBegin < iBufSize
  BY Sizes DEF MemoryTypes
<1>2. PICK e \in Nat, b \in Nat : e = f[Len(queued)] /\ b = f[0] /\ iEnd = Wrap(e) /\ b < iBufSize /\ b <= e
  BY <1>a, <1>b
<1>3. e - b + ulMarkLen + len + ulReserveLen <= iBufSize
  <2>1. writer.begin \in Int /\ iEnd \in Int
    BY DEF HasRoom, MemoryTypes
  <2>2. InUse(writer.begin, iEnd) \in Int
    BY <2>1, Sizes DEF InUse
  <2>3. e - b <= InUse(writer.begin, iEnd) /\ InUse(writer.begin, iEnd) + ulMarkLen + len + ulReserveLen <= iBufSize
    BY <1>1, <1>2 DEF HasRoom
  <2>4. PICK u \in Int : u = InUse(writer.begin, iEnd)
    BY <2>2
  <2>5. e - b <= u /\ u + ulMarkLen + len + ulReserveLen <= iBufSize
    BY <2>3, <2>4
  <2> QED BY <2>5, Sizes
<1>c. PICK s \in Nat : s = ulMarkLen + len + ulReserveLen /\ s > 0 /\ ulMarkLen + len < s
  BY Sizes
<1>d. e + s <= b + iBufSize /\ iBufSize \in Nat
  <2>1. \A m, r, n \in Nat : e - b + m + len + r <= n => e + (m + len + r) <= b + n
    OBVIOUS
  <2> QED BY <1>3, <1>c, <2>1, Sizes
<1>e. iEnd = Wrap(e) /\ b < iBufSize /\ b <= e
  BY <1>2
<1>4. Small(iEnd, len)
  <2>1. ulMarkLen + len < iBufSize
    BY <1>c, <1>d, <1>e, Sizes
  <2> QED BY <2>1 DEF Small, MemoryTypes
<1>5. ASSUME NEW i \in 1 .. Len(queued), NEW j \in 0 .. ulMarkLen + lens[queued[i]] - 1
      PROVE  /\ Wrap(f[i - 1] + j) \in 0 .. iBufSize - 1
             /\ \A x \in 0 .. ulMarkLen + len - 1 : Wrap(iEnd + x) # Wrap(f[i - 1] + j)
  <2>1. f[i] = f[i - 1] + ulMarkLen + lens[queued[i]]
    BY DEF Chain
  <2>2. f[0] <= f[i - 1] /\ f[i] <= f[Len(queued)]
    BY <1>1 DEF Chain
  <2>3. PICK l \in Nat, p \in Nat : l = lens[queued[i]] /\ p = f[i - 1]
    BY <1>1
  <2>4. PICK y \in Nat : y = j
    OBVIOUS
  <2>5. b <= p /\ p + ulMarkLen + l <= e /\ y < ulMarkLen + l
    <3>1. b <= p
      BY <1>2, <2>2, <2>3
    <3>2. f[i] = p + ulMarkLen + l /\ f[i] <= e
      BY <1>2, <2>1, <2>2, <2>3
    <3>3. y \in 0 .. ulMarkLen + l - 1
      BY <2>3, <2>4
    <3> QED BY <3>1, <3>2, <3>3, Sizes
  <2>6. PICK z \in Nat : z = p + y /\ b <= z /\ z < e
    BY <2>5, Sizes
  <2>7. Wrap(z) \in 0 .. iBufSize - 1
    <3>1. z < 2 * iBufSize
      BY <1>c, <1>d, <1>e, <2>6
    <3> QED BY <1>d, <2>6, <3>1 DEF Wrap
  <2>8. ASSUME NEW x \in 0 .. ulMarkLen + len - 1 PROVE Wrap(iEnd + x) # Wrap(z)
    <3>1. x \in Nat /\ x < s
      BY <1>c, Sizes
    <3>2. e + x < b + iBufSize /\ b <= z /\ z < e
      BY <1>d, <2>6, <3>1
    <3>3. CASE e < iBufSize
      <4>1. iEnd = e /\ Wrap(z) = z
        BY <1>d, <1>e, <3>2, <3>3 DEF Wrap
      <4>2. PICK w \in Nat : w = e + x
        BY <3>1
      <4>3. Wrap(w) = w \/ Wrap(w) = w - iBufSize
        BY DEF Wrap
      <4>4. w # z /\ w - iBufSize # z
        BY <1>d, <3>1, <3>2, <4>2
      <4> QED BY <4>1, <4>2, <4>3, <4>4
    <3>4. CASE ~(e < iBufSize)
      <4>1. iEnd = e - iBufSize
        BY <1>e, <3>4 DEF Wrap
      <4>2. iEnd + x < iBufSize
        BY <1>d, <1>e, <3>1, <3>2, <4>1
      <4>3. Wrap(iEnd + x) = iEnd + x
        BY <4>2 DEF Wrap
      <4>4. Wrap(z) = z \/ Wrap(z) = z - iBufSize
        BY DEF Wrap
      <4>5. iEnd + x # z /\ iEnd + x # z - iBufSize
        BY <1>d, <1>e, <3>1, <3>2, <4>1
      <4> QED BY <4>3, <4>4, <4>5
    <3> QED BY <3>3, <3>4
  <2> QED BY <2>3, <2>4, <2>6, <2>7, <2>8
<1>6. f[Len(queued)] + ulMarkLen + len + ulReserveLen <= f[0] + iBufSize
  <2>1. f[Len(queued)] + ulMarkLen + len + ulReserveLen = e + s
    BY <1>2, <1>c, Sizes
  <2> QED BY <1>2, <1>d, <2>1
<1> QED BY <1>4, <1>5, <1>6

LEMMA PushCopyKeeps == ASSUME MemoryInv, PushCopy PROVE MemoryInv'
<1>0. PICK f : MemoryHolds(f)
  BY DEF MemoryInv
<1>1. MemoryTypes /\ Chain(f) /\ Lies(f) /\ Writing /\ Reading(f)
  BY <1>0 DEF MemoryInv, MemoryHolds
<1> DEFINE len == lens[Len(lens)]
<1>2. writer.at = "copy" /\ UNCHANGED <<iBegin, iEnd, iNum, lens, queued, reader>>
  BY DEF PushCopy
<1>3. Len(lens) # 0 /\ HasRoom(len) /\ Len(lens) \in Nat
  BY <1>1, <1>2, LenProperties DEF Writing, MemoryTypes
<1>4. len \in Nat \ {0}
  BY <1>1, <1>3, ElementOfSeq DEF MemoryTypes
<1>5. PICK c \in IF writer.one THEN {CopiesOfOne(len)}
                 ELSE {CopiesOfTwo(len, len1) : len1 \in {1, len - 1} \ {0}} :
         data' = Copied(c.to) /\ writer' = [at |-> "publish", begin |-> writer.begin, end |-> c.end]
  BY DEF PushCopy
<1> HIDE DEF len
<1>6. /\ Small(iEnd, len)
      /\ \A i \in 1 .. Len(queued) : \A j \in 0 .. ulMarkLen + lens[queued[i]] - 1 :
            /\ Wrap(f[i - 1] + j) \in 0 .. iBufSize - 1
            /\ \A x \in 0 .. ulMarkLen + len - 1 : Wrap(iEnd + x) # Wrap(f[i - 1] + j)
  BY <1>1, <1>3, <1>4, FreeBytes
<1>7. UpTo(c.to, iEnd, len, len) /\ c.end = Wrap(iEnd + ulMarkLen + len)
  <2>1. CASE writer.one
    <3>1. c = CopiesOfOne(len)
      BY <1>5, <2>1
    <3> QED BY <1>6, <3>1, PushOneCopies
  <2>2. CASE ~writer.one
    <3>1. PICK len1 \in {1, len - 1} \ {0} : c = CopiesOfTwo(len, len1)
      BY <1>5, <2>2
    <3>2. len1 \in Nat /\ len1 <= len
      BY <1>4
    <3> QED BY <1>6, <3>1, <3>2, PushTwoCopies
  <2> QED BY <2>1, <2>2
<1>8. DOMAIN data = 0 .. iBufSize - 1
  BY <1>1 DEF MemoryTypes
<1>9. /\ DOMAIN data' = 0 .. iBufSize - 1
      /\ Holds(data', iEnd, Len(lens), len)
      /\ \A i \in 0 .. iBufSize - 1 :
            (\A j \in 0 .. ulMarkLen + len - 1 : Wrap(iEnd + j) # i) => data'[i] = data[i]
  BY <1>5, <1>6, <1>7, <1>8, CopiesLand
<1>10. MemoryTypes' /\ Chain(f)' /\ Reading(f)'
  BY <1>1, <1>2, <1>9 DEF MemoryTypes, Chain, Reading
<1>11. Lies(f)'
  <2>1. ASSUME NEW i \in 1 .. Len(queued), NEW j \in 0 .. ulMarkLen + lens[queued[i]] - 1
        PROVE  data'[Wrap(f[i - 1] + j)] = <<queued[i], j - ulMarkLen>>
    <3>1. data'[Wrap(f[i - 1] + j)] = data[Wrap(f[i - 1] + j)]
      BY <1>6, <1>9
    <3>2. data[Wrap(f[i - 1] + j)] = <<queued[i], j - ulMarkLen>>
      BY <1>1 DEF Lies, Holds
    <3> QED BY <3>1, <3>2
  <2>2. \A i \in 1 .. Len(queued) : Holds(data', f[i - 1], queued[i], lens[queued[i]])
    BY <2>1 DEF Holds
  <2> QED BY <1>2, <2>2 DEF Lies
<1>12. Writing'
  <2>1. writer'.at = "publish" /\ writer'.begin = writer.begin /\ writer'.end = c.end
    BY <1>5
  <2>2. HasRoom(len)'
    BY <1>2, <1>3, <2>1 DEF HasRoom, len
  <2>3. len' = len
    BY <1>2 DEF len
  <2> QED BY <1>2, <1>3, <1>7, <1>9, <2>1, <2>2, <2>3 DEF Writing, len
<1> QED BY <1>10, <1>11, <1>12 DEF MemoryInv, MemoryHolds

LEMMA PushPublishKeeps == ASSUME MemoryInv, PushPublish PROVE MemoryInv'
<1>0. PICK f : MemoryHolds(f)
  BY DEF MemoryInv
<1>1. MemoryTypes /\ Chain(f) /\ Lies(f) /\ Writing /\ Reading(f)
  BY <1>0 DEF MemoryInv, MemoryHolds
<1>2. /\ writer.at = "publish" /\ iEnd' = writer.end /\ queued' = Append(queued, Len(lens))
      /\ writer' = [at |-> "count", num |-> iNum] /\ UNCHANGED <<iBegin, iNum, data, lens, reader>>
  BY DEF PushPublish
<1> DEFINE len == lens[Len(lens)]
<1>3. /\ Len(lens) # 0 /\ HasRoom(len) /\ Len(lens) \in Nat /\ writer.end = Wrap(iEnd + ulMarkLen + len)
      /\ Holds(data, iEnd, Len(lens), len)
  BY <1>1, <1>2, LenProperties DEF Writing, MemoryTypes
<1>4. len \in Nat \ {0}
  BY <1>1, <1>3, ElementOfSeq DEF MemoryTypes
<1> HIDE DEF len
<1>5. PICK n \in Nat : n = Len(queued)
  BY <1>1, Spans
<1>6. f[n] + ulMarkLen + len + ulReserveLen <= f[0] + iBufSize
  BY <1>1, <1>3, <1>4, <1>5, FreeBytes
<1>7. /\ queued' \in Seq(Nat) /\ Len(queued') = n + 1 /\ queued'[n + 1] = Len(lens)
      /\ \A i \in 1 .. n : queued'[i] = queued[i]
  BY <1>1, <1>2, <1>3, <1>5, AppendProperties DEF MemoryTypes
<1>8. PICK e \in Nat, b \in Nat : e = f[n] /\ b = f[0] /\ iEnd = Wrap(e) /\ b < iBufSize /\ b <= e /\ b = iBegin
  <2>1. f[n] \in Nat /\ f[0] \in Nat /\ f[0] = iBegin /\ f[0] <= f[n] /\ iEnd = Wrap(f[n])
    BY <1>1, <1>5 DEF Chain
  <2>2. iBegin < iBufSize
    BY <1>1, Sizes DEF MemoryTypes
  <2> QED BY <2>1, <2>2
<1>9. e + ulMarkLen + len + ulReserveLen <= b + iBufSize
  BY <1>6, <1>8
<1>10. Wrap(iEnd + ulMarkLen + len) = Wrap(e + ulMarkLen + len)
  BY <1>4, <1>8, <1>9, Sizes DEF Wrap
<1>11. \A j \in 0 .. ulMarkLen + len - 1 : Wrap(iEnd + j) = Wrap(e + j)
  BY <1>4, <1>8, <1>9, Sizes DEF Wrap
<1>g. PICK g : g = [i \in 0 .. n + 1 |-> IF i <= n THEN f[i] ELSE e + ulMarkLen + len]
  OBVIOUS
<1>12. /\ g[n + 1] = e + ulMarkLen + len /\ \A i \in 0 .. n : g[i] = f[i]
       /\ g \in [0 .. n + 1 -> Nat]
  <2>1. \A i \in 0 .. n : f[i] \in Nat
    BY <1>1, <1>5 DEF Chain
  <2>2. e + ulMarkLen + len \in Nat
    BY <1>4, <1>8, Sizes
  <2> QED BY <1>5, <1>g, <2>1, <2>2
<1>13. MemoryTypes'
  <2>1. \A i \in 1 .. n + 1 : queued'[i] \in 1 .. Len(lens)
    <3>1. \A i \in 1 .. n + 1 : i \in 1 .. n \/ i = n + 1
      BY <1>5
    <3>2. Len(lens) \in 1 .. Len(lens)
      BY <1>3
    <3> QED BY <1>1, <1>5, <1>7, <3>1, <3>2 DEF MemoryTypes
  <2>2. iEnd' \in 0 .. iBufSize - 1
    <3>1. Wrap(e + ulMarkLen + len) \in 0 .. iBufSize - 1
      BY <1>4, <1>8, <1>9, Sizes DEF Wrap
    <3> QED BY <1>2, <1>3, <1>10, <3>1
  <2> QED BY <1>1, <1>2, <1>7, <2>1, <2>2 DEF MemoryTypes
<1>14. Chain(g)'
  <2>1. g \in [0 .. n + 1 -> Nat] /\ g[0] = iBegin /\ iEnd' = Wrap(g[n + 1])
    BY <1>1, <1>2, <1>3, <1>10, <1>12 DEF Chain
  <2>2. ASSUME NEW i \in 1 .. n + 1
        PROVE  g[i] = g[i - 1] + ulMarkLen + lens[queued'[i]] /\ \A k \in 1 .. i : g[k] <= g[i]
    <3>1. CASE i <= n
      <4>1. i \in 1 .. n /\ i - 1 \in 0 .. n /\ i \in 0 .. n /\ \A k \in 1 .. i : k \in 0 .. n
        BY <1>5, <3>1
      <4>2. f[i] = f[i - 1] + ulMarkLen + lens[queued[i]] /\ \A k \in 1 .. i : f[k] <= f[i]
        BY <1>1, <1>5, <4>1 DEF Chain
      <4> QED BY <1>7, <1>12, <4>1, <4>2
    <3>2. CASE ~(i <= n)
      <4>1. i = n + 1 /\ i - 1 = n /\ n \in 0 .. n
        BY <1>5, <3>2
      <4>2. g[i] = g[i - 1] + ulMarkLen + lens[queued'[i]] /\ g[i] = e + ulMarkLen + len /\ g[i] \in Nat
        BY <1>7, <1>8, <1>12, <2>1, <4>1 DEF len
      <4>3. ASSUME NEW k \in 1 .. i PROVE g[k] <= g[i]
        <5>1. CASE k = i
          BY <4>2, <5>1
        <5>2. CASE k # i
          <6>1. k \in 0 .. n
            BY <4>1, <5>2
          <6>2. f[k] <= e /\ f[k] \in Nat
            BY <1>1, <1>5, <1>8, <6>1 DEF Chain
          <6>3. f[k] <= e + ulMarkLen + len
            BY <1>4, <1>8, <6>2, Sizes
          <6> QED BY <1>12, <4>2, <6>1, <6>3
        <5> QED BY <5>1, <5>2
      <4> QED BY <4>2, <4>3
    <3> QED BY <3>1, <3>2
  <2>3. ASSUME NEW i \in 0 .. n + 1 PROVE g[0] <= g[i] /\ g[i] <= g[n + 1]
    <3>1. CASE i <= n
      <4>1. i \in 0 .. n /\ 0 \in 0 .. n
        BY <1>5, <3>1
      <4>2. f[i] \in Nat /\ b <= f[i] /\ f[i] <= e
        BY <1>1, <1>5, <1>8, <4>1 DEF Chain
      <4>3. g[i] = f[i] /\ g[0] = b /\ g[n + 1] = e + ulMarkLen + len
        BY <1>8, <1>12, <4>1
      <4>4. f[i] <= e + ulMarkLen + len
        BY <1>4, <4>2, Sizes
      <4> QED BY <4>2, <4>3, <4>4
    <3>2. CASE ~(i <= n)
      <4>1. i = n + 1 /\ 0 \in 0 .. n
        BY <1>5, <3>2
      <4>2. g[i] = e + ulMarkLen + len /\ g[0] = b /\ g[n + 1] = e + ulMarkLen + len
        BY <1>8, <1>12, <4>1
      <4>3. b <= e + ulMarkLen + len
        BY <1>4, <1>8, Sizes
      <4>4. e + ulMarkLen + len \in Int
        BY <1>4, <1>8, Sizes
      <4> QED BY <4>2, <4>3, <4>4
    <3> QED BY <3>1, <3>2
  <2>4. g[n + 1] + ulReserveLen <= g[0] + iBufSize
    <3>1. 0 \in 0 .. n
      BY <1>5
    <3> QED BY <1>8, <1>9, <1>12, <3>1
  <2>5. Len(queued') = n + 1 /\ iBegin' = iBegin /\ lens' = lens
    BY <1>2, <1>7
  <2> QED BY <2>1, <2>2, <2>3, <2>4, <2>5 DEF Chain
<1>15. Lies(g)'
  <2>1. ASSUME NEW i \in 1 .. n + 1 PROVE Holds(data, g[i - 1], queued'[i], lens[queued'[i]])
    <3>1. CASE i <= n
      <4>1. i \in 1 .. n /\ i - 1 \in 0 .. n
        BY <1>5, <3>1
      <4> QED BY <1>1, <1>5, <1>7, <1>12, <4>1 DEF Lies
    <3>2. CASE ~(i <= n)
      <4>1. i = n + 1 /\ i - 1 = n /\ n \in 0 .. n
        BY <1>5, <3>2
      <4>2. g[i - 1] = e /\ queued'[i] = Len(lens)
        BY <1>7, <1>8, <1>12, <4>1
      <4>3. Holds(data, e, Len(lens), len)
        BY <1>3, <1>11 DEF Holds
      <4> QED BY <4>2, <4>3 DEF len
    <3> QED BY <3>1, <3>2
  <2>2. Len(queued') = n + 1 /\ data' = data /\ lens' = lens
    BY <1>2, <1>7
  <2> QED BY <2>1, <2>2 DEF Lies
<1>16. Writing'
  BY <1>2 DEF Writing
<1>17. Reading(g)'
  <2>1. ASSUME reader.at = "read" PROVE reader.size \in Nat /\ \E k \in 1 .. n + 1 : reader.end = Wrap(g[k])
    <3>1. PICK k \in 1 .. n : reader.end = Wrap(f[k])
      BY <1>1, <1>5, <2>1 DEF Reading
    <3>2. k \in 1 .. n + 1 /\ k \in 0 .. n
      BY <1>5
    <3> QED BY <1>1, <1>12, <2>1, <3>1, <3>2 DEF Reading
  <2>2. ASSUME reader.at = "release"
        PROVE  /\ n + 1 # 0 /\ reader.new = Wrap(g[1])
               /\ reader.got # <<>> => reader.got = Piece(queued'[1], 0, lens[queued'[1]])
    <3>1. n # 0 /\ reader.new = Wrap(f[1]) /\ (reader.got # <<>> => reader.got = Piece(queued[1], 0, lens[queued[1]]))
      BY <1>1, <1>5, <2>2 DEF Reading
    <3>2. 1 \in 1 .. n /\ 1 \in 0 .. n /\ n + 1 # 0
      BY <1>5, <3>1
    <3> QED BY <1>7, <1>12, <3>1, <3>2
  <2>3. Len(queued') = n + 1 /\ reader' = reader /\ lens' = lens
    BY <1>2, <1>7
  <2> QED BY <2>1, <2>2, <2>3 DEF Reading
<1> QED BY <1>13, <1>14, <1>15, <1>16, <1>17 DEF MemoryInv, MemoryHolds

LEMMA PopBeginKeeps == ASSUME MemoryInv, PopBegin PROVE MemoryInv'
<1>0. PICK f : MemoryHolds(f)
  BY DEF MemoryInv
<1>1. MemoryTypes /\ Chain(f) /\ Lies(f) /\ Writing
  BY <1>0 DEF MemoryInv, MemoryHolds
<1>2. PICK size \in BufferSizes, one \in BOOLEAN : reader' = [at |-> "read", one |-> one, size |-> size, end |-> iEnd]
  BY DEF PopBegin
<1>3. iBegin # iEnd /\ UNCHANGED <<iBegin, iEnd, iNum, data, lens, queued, writer>>
  BY DEF PopBegin
<1>4. MemoryTypes' /\ Chain(f)' /\ Lies(f)' /\ Writing'
  BY <1>1, <1>3, SameBlock
<1>5. Reading(f)'
  <2>1. reader'.at = "read" /\ reader'.size \in Nat /\ reader'.end = iEnd
    BY <1>2, BufferQueueAssumption
  <2>2. Len(queued) \in 1 .. Len(queued)
    BY <1>1, <1>3, Spans
  <2>3. iEnd = Wrap(f[Len(queued)])
    BY <1>1 DEF Chain
  <2> QED BY <1>3, <2>1, <2>2, <2>3 DEF Reading
<1> QED BY <1>4, <1>5 DEF MemoryInv, MemoryHolds

\* Where pop finds the first message.
LEMMA First ==
    ASSUME MemoryTypes, NEW f, Chain(f), Lies(f), Len(queued) # 0
    PROVE  \E q \in Nat, l \in Nat \ {0} :
              /\ q = queued[1] /\ l = lens[q] /\ f[1] = iBegin + ulMarkLen + l
              /\ f[1] + ulReserveLen <= iBegin + iBufSize
              /\ Holds(data, iBegin, q, l)
              /\ Located = [len |-> l, from |-> Wrap(iBegin + ulMarkLen), new |-> Wrap(f[1])]
<1>1. Len(queued) \in Nat /\ 1 \in 1 .. Len(queued) /\ 1 \in 0 .. Len(queued) /\ 1 - 1 = 0
  BY Spans
<1>2. PICK q \in Nat, l \in Nat \ {0} : q = queued[1] /\ l = lens[q]
  <2>1. queued[1] \in Nat /\ lens[queued[1]] \in Nat \ {0}
    BY <1>1, Spans
  <2> QED BY <2>1
<1>3. f[1] = iBegin + ulMarkLen + l /\ Holds(data, iBegin, q, l)
  BY <1>1, <1>2 DEF Chain, Lies
<1>b. PICK b \in Nat : b = iBegin /\ b < iBufSize
  BY Sizes DEF MemoryTypes
<1>4. f[1] + ulReserveLen <= iBegin + iBufSize
  <2>1. f[1] \in Nat /\ f[Len(queued)] \in Nat /\ f[1] <= f[Len(queued)] /\ f[Len(queued)] + ulReserveLen <= iBegin + iBufSize
    BY <1>1 DEF Chain
  <2> QED BY <1>b, <2>1, Sizes
<1>5. ulMarkLen + l < iBufSize
  <2>1. b + ulMarkLen + l + ulReserveLen <= b + iBufSize
    BY <1>3, <1>4, <1>b
  <2> QED BY <2>1, Sizes
<1>6. ASSUME NEW j \in 0 .. ulMarkLen - 1 PROVE Mark[j] = <<q, j - ulMarkLen>>
  <2>1. b + j \in Nat /\ b + j < 2 * iBufSize
    BY <1>5, <1>b, Sizes
  <2>2. (b + j) % iBufSize = Wrap(b + j)
    BY <2>1, Wrapped
  <2>3. j \in 0 .. ulMarkLen + l - 1
    BY Sizes
  <2>4. data[Wrap(b + j)] = <<q, j - ulMarkLen>>
    BY <1>3, <1>b, <2>3 DEF Holds
  <2> QED BY <1>b, <2>2, <2>4 DEF Mark
<1>7. GetLen = l
  <2>1. DOMAIN Mark = 0 .. ulMarkLen - 1
    BY DEF Mark
  <2>2. 0 \in 0 .. ulMarkLen - 1
    BY Sizes
  <2>3. Mark[0][1] = q
    BY <1>6, <2>2
  <2> QED BY <1>2, <1>6, <2>1, <2>3 DEF GetLen
<1>8. Located = [len |-> l, from |-> Wrap(iBegin + ulMarkLen), new |-> Wrap(iBegin + ulMarkLen + l)]
  <2>b. iBegin \in Nat /\ iBegin < iBufSize
    BY <1>b
  <2>1. CASE iBegin + ulMarkLen > iBufSize
    <3>1. Located = [len |-> l, from |-> iBegin + ulMarkLen - iBufSize, new |-> iBegin + ulMarkLen - iBufSize + l]
      BY <1>7, <2>1, <2>b, Sizes DEF Located
    <3>2. Wrap(iBegin + ulMarkLen) = iBegin + ulMarkLen - iBufSize
          /\ Wrap(iBegin + ulMarkLen + l) = iBegin + ulMarkLen - iBufSize + l
      BY <2>1, <2>b, Sizes DEF Wrap
    <3> QED BY <3>1, <3>2
  <2>2. CASE ~(iBegin + ulMarkLen > iBufSize)
    <3>1. Located = [len |-> l, from |-> IF iBegin + ulMarkLen = iBufSize THEN 0 ELSE iBegin + ulMarkLen,
                     new |-> IF iBegin + ulMarkLen + l < iBufSize THEN iBegin + ulMarkLen + l
                             ELSE iBegin + ulMarkLen + l - iBufSize]
      BY <1>7, <2>2 DEF Located
    <3>2. Wrap(iBegin + ulMarkLen) = IF iBegin + ulMarkLen = iBufSize THEN 0 ELSE iBegin + ulMarkLen
      BY <2>2, <2>b, Sizes DEF Wrap
    <3>3. Wrap(iBegin + ulMarkLen + l) = IF iBegin + ulMarkLen + l < iBufSize THEN iBegin + ulMarkLen + l
                                         ELSE iBegin + ulMarkLen + l - iBufSize
      BY <2>b, Sizes DEF Wrap
    <3> QED BY <3>1, <3>2, <3>3
  <2> QED BY <2>1, <2>2
<1> QED BY <1>2, <1>3, <1>4, <1>8

LEMMA PopReadKeeps == ASSUME MemoryInv, PopRead PROVE MemoryInv'
<1>0. PICK f : MemoryHolds(f)
  BY DEF MemoryInv
<1>1. MemoryTypes /\ Chain(f) /\ Lies(f) /\ Writing /\ Reading(f)
  BY <1>0 DEF MemoryInv, MemoryHolds
<1> DEFINE p == Located
<1>2. PICK got \in IF p.len > reader.size THEN {<<>>}
                   ELSE IF reader.one THEN {GotInOne(p)}
                   ELSE {GotInTwo(p, size1) : size1 \in {1, reader.size - 1}} :
         reader' = [at |-> "release", new |-> p.new, got |-> got]
  BY DEF PopRead
<1>3. reader.at = "read" /\ UNCHANGED <<iBegin, iEnd, iNum, data, lens, queued, writer>>
  BY DEF PopRead
<1>4. MemoryTypes' /\ Chain(f)' /\ Lies(f)' /\ Writing'
  BY <1>1, <1>3, SameBlock
<1>5. reader.size \in Nat /\ Len(queued) # 0
  BY <1>1, <1>3 DEF Reading
<1>6. PICK q \in Nat, l \in Nat \ {0} :
         /\ q = queued[1] /\ l = lens[q] /\ f[1] = iBegin + ulMarkLen + l
         /\ f[1] + ulReserveLen <= iBegin + iBufSize
         /\ Holds(data, iBegin, q, l)
         /\ p = [len |-> l, from |-> Wrap(iBegin + ulMarkLen), new |-> Wrap(f[1])]
  BY <1>1, <1>5, First
<1> HIDE DEF p
<1>7. got # <<>> => got = Piece(q, 0, l)
  <2> SUFFICES ASSUME got # <<>> PROVE got = Piece(q, 0, l)
    OBVIOUS
  <2>1. PICK b \in Nat : b = iBegin /\ b < iBufSize
    BY <1>1, Sizes DEF MemoryTypes
  <2>2. ulMarkLen + l < iBufSize
    <3>1. b + ulMarkLen + l + ulReserveLen <= b + iBufSize
      BY <1>6, <2>1
    <3> QED BY <3>1, Sizes
  <2>3. PICK from \in 0 .. iBufSize - 1 : from = Wrap(b + ulMarkLen)
    <3>1. Wrap(b + ulMarkLen) \in 0 .. iBufSize - 1
      BY <2>1, <2>2, Sizes DEF Wrap
    <3> QED BY <3>1
  <2>4. p.len = l /\ p.from = from /\ p.new = Wrap(b + ulMarkLen + l)
    BY <1>6, <2>1, <2>3
  <2>5. Wrap(b + ulMarkLen + l) = Wrap(from + l)
    BY <2>1, <2>2, <2>3, Sizes DEF Wrap
  <2>6. ASSUME NEW j \in 0 .. l - 1 PROVE data[Wrap(from + j)] = <<q, j>>
    <3>1. PICK x \in 0 .. ulMarkLen + l - 1 : x = ulMarkLen + j
      BY Sizes
    <3>2. data[Wrap(b + x)] = <<q, x - ulMarkLen>>
      BY <1>6, <2>1 DEF Holds
    <3>3. x - ulMarkLen = j
      BY <3>1, Sizes
    <3>4. Wrap(b + x) = Wrap(from + j)
      BY <2>1, <2>2, <2>3, <3>1, Sizes DEF Wrap
    <3> QED BY <3>2, <3>3, <3>4
  <2>7. l <= iBufSize
    BY <2>2, Sizes
  <2>8. ASSUME NEW size1 \in Nat PROVE GotInOne(p) = Piece(q, 0, l) /\ GotInTwo(p, size1) = Piece(q, 0, l)
    <3>1. Found(p, from, l) /\ LiesFrom(from, q, l)
      BY <2>4, <2>5, <2>6, <2>7 DEF Found, LiesFrom
    <3> QED BY <3>1, PopCopies
  <2>9. ~(p.len > reader.size)
    BY <1>2
  <2>10. CASE reader.one
    <3>1. got = GotInOne(p)
      BY <1>2, <2>9, <2>10
    <3>2. 1 \in Nat
      OBVIOUS
    <3> QED BY <2>8, <3>1, <3>2
  <2>11. CASE ~reader.one
    <3>1. PICK size1 \in {1, reader.size - 1} : got = GotInTwo(p, size1)
      BY <1>2, <2>9, <2>11
    <3>2. size1 \in Nat
      BY <1>5, <2>4, <2>9
    <3> QED BY <2>8, <3>1, <3>2
  <2> QED BY <2>10, <2>11
<1>8. Reading(f)'
  <2>1. reader'.at = "release" /\ reader'.new = Wrap(f[1]) /\ reader'.got = got
    BY <1>2, <1>6
  <2> QED BY <1>3, <1>5, <1>6, <1>7, <2>1 DEF Reading
<1> QED BY <1>4, <1>8 DEF MemoryInv, MemoryHolds

LEMMA PopReleaseKeeps == ASSUME MemoryInv, PopRelease PROVE MemoryInv'
<1>0. PICK f : MemoryHolds(f)
  BY DEF MemoryInv
<1>1. MemoryTypes /\ Chain(f) /\ Lies(f) /\ Writing /\ Reading(f)
  BY <1>0 DEF MemoryInv, MemoryHolds
<1>2. /\ reader.at = "release" /\ iBegin' = reader.new /\ queued' = Tail(queued)
      /\ reader' = [at |-> "count", num |-> iNum] /\ UNCHANGED <<iEnd, iNum, data, lens, writer>>
  BY DEF PopRelease
<1>3. Len(queued) # 0 /\ reader.new = Wrap(f[1])
  BY <1>1, <1>2 DEF Reading
<1>4. PICK n \in Nat : n = Len(queued) /\ n # 0
  BY <1>1, <1>3, Spans
<1>5. queued' \in Seq(Nat) /\ Len(queued') = n - 1 /\ \A i \in 1 .. n - 1 : queued'[i] = queued[i + 1]
  <2>1. queued # <<>>
    BY <1>3, EmptySeq
  <2> QED BY <1>1, <1>2, <1>4, <2>1, HeadTailProperties DEF MemoryTypes
<1>6. PICK e \in Nat, b \in Nat, a \in Nat :
         /\ e = f[n] /\ b = f[0] /\ a = f[1] /\ iEnd = Wrap(e) /\ b = iBegin
         /\ b <= a /\ a <= e /\ e + ulReserveLen <= b + iBufSize
  <2>1. 1 \in 0 .. n /\ 0 \in 0 .. n /\ n \in 0 .. n
    BY <1>4
  <2>2. f[n] \in Nat /\ f[0] \in Nat /\ f[1] \in Nat
    BY <1>1, <1>4, <2>1 DEF Chain
  <2>3. iEnd = Wrap(f[n]) /\ f[0] = iBegin /\ f[0] <= f[1] /\ f[1] <= f[n] /\ f[n] + ulReserveLen <= f[0] + iBufSize
    BY <1>1, <1>3, <1>4, <2>1 DEF Chain
  <2> QED BY <2>2, <2>3
<1>7. b < iBufSize
  BY <1>1, <1>6, Sizes DEF MemoryTypes
<1>8. \A i \in 1 .. n : f[i] \in Nat /\ a <= f[i] /\ f[i] <= e
  <2>1. \A i \in 1 .. n : i \in 0 .. n /\ 1 \in 1 .. i
    BY <1>4
  <2>2. \A i \in 1 .. n : f[i] \in Nat /\ f[1] <= f[i] /\ f[i] <= f[n]
    BY <1>1, <1>4, <2>1 DEF Chain
  <2> QED BY <1>6, <2>2
<1>9. PICK d \in Nat : d = IF a < iBufSize THEN 0 ELSE iBufSize
  BY Sizes
<1>10. ASSUME NEW x \in Nat, a <= x, x <= e
       PROVE  x - d \in Nat /\ Wrap(x) = Wrap(x - d) /\ Wrap(x) \in 0 .. iBufSize - 1
  BY <1>6, <1>7, <1>9, <1>10, Sizes DEF Wrap
<1>11. PICK g : g = [i \in 0 .. n - 1 |-> f[i + 1] - d]
  OBVIOUS
<1>12. \A i \in 0 .. n - 1 : i + 1 \in 1 .. n /\ g[i] = f[i + 1] - d /\ g[i] \in Nat
  BY <1>4, <1>8, <1>10, <1>11
<1>13. /\ DOMAIN g = 0 .. n - 1 /\ g \in [0 .. n - 1 -> Nat] /\ 0 \in 0 .. n - 1 /\ n - 1 \in 0 .. n - 1
       /\ g[0] = a - d /\ g[n - 1] = e - d
  BY <1>4, <1>6, <1>11, <1>12
<1>14. iBegin' = a - d
  BY <1>2, <1>3, <1>6, <1>7, <1>9, Sizes DEF Wrap
<1>15. MemoryTypes'
  <2>1. \A i \in 1 .. n - 1 : queued'[i] \in 1 .. Len(lens)
    <3>1. \A i \in 1 .. n - 1 : i + 1 \in 1 .. n
      BY <1>4
    <3> QED BY <1>1, <1>4, <1>5, <3>1 DEF MemoryTypes
  <2>2. iBegin' \in 0 .. iBufSize - 1
    <3>1. Wrap(a) \in 0 .. iBufSize - 1
      BY <1>6, <1>10
    <3> QED BY <1>2, <1>3, <1>6, <3>1
  <2> QED BY <1>1, <1>2, <1>5, <2>1, <2>2 DEF MemoryTypes
<1>16. Chain(g)'
  <2>1. iEnd = Wrap(g[n - 1])
    BY <1>6, <1>10, <1>13
  <2>2. ASSUME NEW i \in 1 .. n - 1
        PROVE  g[i] = g[i - 1] + ulMarkLen + lens[queued'[i]] /\ \A j \in 1 .. i : g[j] <= g[i]
    <3>1. PICK k \in 2 .. n : k = i + 1
      BY <1>4
    <3>2. k \in 1 .. n /\ i \in 0 .. n - 1 /\ i - 1 \in 0 .. n - 1 /\ k - 1 = i /\ i - 1 + 1 = i /\ i \in 1 .. n
      BY <1>4, <3>1
    <3>3. f[k] = f[k - 1] + ulMarkLen + lens[queued[k]]
      BY <1>1, <1>4, <3>2 DEF Chain
    <3>4. g[i] = f[k] - d /\ g[i - 1] = f[i] - d /\ queued'[i] = queued[k]
      BY <1>5, <1>12, <3>1, <3>2
    <3>5. lens[queued[k]] \in Nat
      BY <1>1, <1>4, <3>2, Spans
    <3>6. PICK u \in Nat, v \in Nat, w \in Nat : u = f[k] /\ v = f[i] /\ w = lens[queued[k]]
      BY <1>8, <3>2, <3>5
    <3>7. u = v + ulMarkLen + w
      BY <3>2, <3>3, <3>6
    <3>8. u - d = v - d + ulMarkLen + w
      BY <3>7, Sizes
    <3>9. ASSUME NEW j \in 1 .. i PROVE g[j] <= g[i]
      <4>1. PICK h \in 1 .. k : h = j + 1
        BY <3>1
      <4>2. f[h] <= f[k] /\ j \in 0 .. n - 1 /\ h \in 1 .. n
        <5>1. j \in 0 .. n - 1 /\ h \in 1 .. n
          BY <3>1, <3>2, <4>1
        <5>2. f[h] <= f[k]
          BY <1>1, <1>4, <3>2 DEF Chain
        <5> QED BY <5>1, <5>2
      <4>3. g[j] = f[h] - d
        BY <1>12, <4>1, <4>2
      <4> QED BY <1>8, <3>2, <3>4, <4>2, <4>3
    <3> QED BY <3>4, <3>6, <3>8, <3>9
  <2>3. ASSUME NEW i \in 0 .. n - 1 PROVE g[0] <= g[i] /\ g[i] <= g[n - 1]
    <3>1. i + 1 \in 1 .. n /\ g[i] = f[i + 1] - d
      BY <1>12
    <3>2. PICK u \in Nat : u = f[i + 1] /\ a <= u /\ u <= e
      BY <1>8, <3>1
    <3>3. a - d <= u - d /\ u - d <= e - d
      BY <3>2
    <3> QED BY <1>13, <3>1, <3>2, <3>3
  <2>4. g[n - 1] + ulReserveLen <= g[0] + iBufSize
    <3>1. e - d + ulReserveLen <= a - d + iBufSize
      BY <1>6, Sizes
    <3> QED BY <1>13, <3>1
  <2> QED BY <1>2, <1>5, <1>13, <1>14, <2>1, <2>2, <2>3, <2>4 DEF Chain
<1>17. Lies(g)'
  <2>1. ASSUME NEW i \in 1 .. n - 1 PROVE Holds(data, g[i - 1], queued'[i], lens[queued'[i]])
    <3>1. PICK k \in 2 .. n : k = i + 1
      BY <1>4
    <3>2. k \in 1 .. n /\ i - 1 \in 0 .. n - 1 /\ k - 1 = i /\ i - 1 + 1 = i /\ i \in 1 .. n
      BY <1>4, <3>1
    <3>3. g[i - 1] = f[i] - d /\ queued'[i] = queued[k]
      BY <1>5, <1>12, <3>1, <3>2
    <3>4. Holds(data, f[i], queued[k], lens[queued[k]])
      BY <1>1, <1>4, <3>2 DEF Lies
    <3>5. f[k] = f[i] + ulMarkLen + lens[queued[k]] /\ f[k] <= e /\ lens[queued[k]] \in Nat /\ f[i] \in Nat /\ a <= f[i]
      <4>1. f[k] = f[k - 1] + ulMarkLen + lens[queued[k]]
        BY <1>1, <1>4, <3>2 DEF Chain
      <4>2. lens[queued[k]] \in Nat
        BY <1>1, <1>4, <3>2, Spans
      <4> QED BY <1>8, <3>2, <4>1, <4>2
    <3>6. PICK v \in Nat, w \in Nat : v = f[i] /\ w = lens[queued[k]] /\ v + ulMarkLen + w <= e /\ a <= v
      BY <3>5
    <3>7. ASSUME NEW j \in 0 .. ulMarkLen + w - 1 PROVE Wrap(v + j) = Wrap(v - d + j)
      <4>1. PICK x \in Nat : x = v + j
        BY <3>6, Sizes
      <4>2. a <= x /\ x <= e
        BY <3>6, <4>1, Sizes
      <4>3. Wrap(x) = Wrap(x - d) /\ x - d = v - d + j
        BY <1>10, <4>1, <4>2
      <4> QED BY <4>1, <4>3
    <3> QED BY <3>3, <3>4, <3>6, <3>7 DEF Holds
  <2> QED BY <1>2, <1>5, <2>1 DEF Lies
<1>18. Writing'
  <2>1. ASSUME NEW len, HasRoom(len) PROVE HasRoom(len)'
    <3>1. InUse(iBegin, iEnd) = e - b
      BY <1>1, <1>4, <1>6, Spans
    <3>2. InUse(a - d, iEnd) = e - a
      BY <1>6, <1>7, <1>9, Sizes DEF InUse, Wrap
    <3>3. e - a <= e - b
      BY <1>6
    <3>4. writer.begin \in Int /\ iEnd \in Int
      BY <1>1, <2>1 DEF HasRoom, MemoryTypes
    <3>5. PICK u \in Int : u = InUse(writer.begin, iEnd)
      BY <3>4, Sizes DEF InUse
    <3>6. InUse(a - d, iEnd) <= InUse(writer.begin, iEnd)
      <4>1. e - b <= u
        BY <2>1, <3>1, <3>5 DEF HasRoom
      <4>2. e - a <= u
        BY <1>6, <3>3, <4>1
      <4> QED BY <3>2, <3>5, <4>2
    <3>7. iEnd' = iEnd /\ writer' = writer
      BY <1>2
    <3> QED BY <1>14, <2>1, <3>6, <3>7 DEF HasRoom, InUse
  <2> QED BY <1>1, <1>2, <2>1 DEF Writing
<1>19. Reading(g)'
  BY <1>2 DEF Reading
<1> QED BY <1>15, <1>16, <1>17, <1>18, <1>19 DEF MemoryInv, MemoryHolds

LEMMA MemoryStep == ASSUME MemoryInv, [BufferNext]_bufferVars PROVE MemoryInv'
<1>0. PICK f : MemoryHolds(f)
  BY DEF MemoryInv
<1>1. MemoryTypes /\ Chain(f) /\ Lies(f) /\ Writing /\ Reading(f)
  BY <1>0 DEF MemoryInv, MemoryHolds
<1>2. ASSUME UNCHANGED <<iBegin, iEnd, data, lens, queued>>,
             writer' = writer \/ writer'.at \notin {"copy", "publish"},
             reader' = reader \/ reader'.at \notin {"read", "release"}
      PROVE  MemoryInv'
  <2>1. MemoryTypes' /\ Chain(f)' /\ Lies(f)' /\ (Reading(f) /\ UNCHANGED reader => Reading(f)')
        /\ (Writing /\ UNCHANGED writer => Writing')
    BY <1>1, <1>2, SameBlock
  <2>2. Writing'
    BY <1>1, <1>2, <2>1 DEF Writing
  <2>3. Reading(f)'
    BY <1>1, <1>2, <2>1 DEF Reading
  <2> QED BY <2>1, <2>2, <2>3 DEF MemoryInv, MemoryHolds
<1>3. CASE PushBegin
  BY <1>3, PushBeginKeeps
<1>4. CASE PushFull
  <2>1. UNCHANGED <<iBegin, iEnd, data, lens, queued, writer, reader>>
    BY <1>4 DEF PushFull
  <2> QED BY <1>2, <2>1
<1>5. CASE PushCopy
  BY <1>5, PushCopyKeeps
<1>6. CASE PushPublish
  BY <1>6, PushPublishKeeps
<1>7. CASE PushCount
  <2>1. UNCHANGED <<iBegin, iEnd, data, lens, queued, reader>> /\ writer' = Idle
    BY <1>7 DEF PushCount
  <2> QED BY <1>2, <2>1 DEF Idle
<1>8. CASE PopEmpty
  <2>1. UNCHANGED <<iBegin, iEnd, data, lens, queued, writer, reader>>
    BY <1>8 DEF PopEmpty
  <2> QED BY <1>2, <2>1
<1>9. CASE PopBegin
  BY <1>9, PopBeginKeeps
<1>10. CASE PopRead
  BY <1>10, PopReadKeeps
<1>11. CASE PopRelease
  BY <1>11, PopReleaseKeeps
<1>12. CASE PopCount
  <2>1. UNCHANGED <<iBegin, iEnd, data, lens, queued, writer>> /\ reader' = Idle
    BY <1>12 DEF PopCount
  <2> QED BY <1>2, <2>1 DEF Idle
<1>13. CASE WriterDies
  <2>1. UNCHANGED <<iBegin, iEnd, data, lens, queued, reader>> /\ writer' = Idle
    BY <1>13 DEF WriterDies
  <2> QED BY <1>2, <2>1 DEF Idle
<1>14. CASE ReaderDies
  <2>1. UNCHANGED <<iBegin, iEnd, data, lens, queued, writer>> /\ reader' = Idle
    BY <1>14 DEF ReaderDies
  <2> QED BY <1>2, <2>1 DEF Idle
<1>15. CASE UNCHANGED bufferVars
  <2>1. UNCHANGED <<iBegin, iEnd, data, lens, queued, writer, reader>>
    BY <1>15 DEF bufferVars
  <2> QED BY <1>2, <2>1
<1> QED BY <1>3, <1>4, <1>5, <1>6, <1>7, <1>8, <1>9, <1>10, <1>11, <1>12, <1>13, <1>14, <1>15 DEF BufferNext

\* A least element, and induction by it.
LEMMA Least == ASSUME NEW T, T \subseteq Nat, T # {} PROVE \E n \in T : \A m \in T : n <= m
<1> DEFINE R == {ss \in Nat \X Nat : ss[1] < ss[2]}
<1>1. IsWellFoundedOn(R, Nat)
  BY NatLessThanWellFounded DEF OpToRel
<1> HIDE DEF R
<1>2. PICK n \in T : \A m \in T : ~(<<m, n>> \in R)
  BY <1>1, WFMin
<1>3. \A m \in T : ~(m < n)
  <2> SUFFICES ASSUME NEW m \in T, m < n PROVE FALSE
    OBVIOUS
  <2>1. <<m, n>> \in R
    BY DEF R
  <2> QED BY <1>2, <2>1
<1>4. \A m \in T : n <= m
  BY <1>3
<1> QED BY <1>4

LEMMA SetInduction == ASSUME NEW S, 0 \in S, \A n \in Nat : n \in S => n + 1 \in S PROVE Nat \subseteq S
<1> SUFFICES ASSUME NEW k \in Nat, k \notin S PROVE FALSE
  OBVIOUS
<1> DEFINE T == Nat \ S
<1>1. PICK n \in T : \A m \in T : n <= m
  BY Least
<1>2. n # 0
  OBVIOUS
<1>3. n - 1 \in Nat /\ n - 1 \notin T /\ n - 1 + 1 = n
  BY <1>1, <1>2
<1> QED BY <1>1, <1>3

\* The positions that Layout counts are those of the chain, wrapped.
LEMMA LayoutHolds == ASSUME MemoryTypes, NEW f, Chain(f), Lies(f) PROVE Layout
<1>1. PICK n \in Nat : n = Len(queued)
  BY Spans
<1>2. \A i \in 0 .. n : f[i] \in Nat /\ f[i] < 2 * iBufSize
  BY <1>1, Spans
<1>3. ASSUME NEW i \in 1 .. n
      PROVE  /\ i - 1 \in 0 .. n /\ Wrap(f[i - 1]) \in Nat
             /\ Wrap(f[i]) = (Wrap(f[i - 1]) + ulMarkLen + lens[queued[i]]) % iBufSize
  <2>1. i - 1 \in 0 .. n /\ i \in 0 .. n
    BY <1>1
  <2>2. f[i] = f[i - 1] + ulMarkLen + lens[queued[i]] /\ lens[queued[i]] \in Nat
    BY <1>1, Spans DEF Chain
  <2>3. PICK u \in Nat, v \in Nat, l \in Nat : u = f[i - 1] /\ v = f[i] /\ l = lens[queued[i]]
    BY <1>2, <2>1, <2>2
  <2>4. v = u + ulMarkLen + l /\ v < 2 * iBufSize
    BY <1>2, <2>1, <2>2, <2>3
  <2>5. PICK w \in Nat : w = Wrap(u) + ulMarkLen + l
    BY <2>4, Sizes DEF Wrap
  <2>6. w < 2 * iBufSize /\ Wrap(w) = Wrap(v)
    BY <2>4, <2>5, Sizes DEF Wrap
  <2>7. w % iBufSize = Wrap(v)
    BY <2>6, Wrapped
  <2>8. Wrap(u) \in Nat
    BY Sizes DEF Wrap
  <2> QED BY <2>1, <2>3, <2>5, <2>7, <2>8
<1> DEFINE Step(g) == [i \in 0 .. n |-> IF i = 0 THEN iBegin ELSE (g[i - 1] + ulMarkLen + lens[queued[i]]) % iBufSize]
           Pos == CHOOSE g : g = Step(g)
           h == [i \in 0 .. n |-> Wrap(f[i])]
<1>4. Wrap(f[0]) = iBegin
  BY Sizes DEF Chain, Wrap, MemoryTypes
<1>5. h = Step(h)
  <2>1. ASSUME NEW i \in 0 .. n PROVE h[i] = Step(h)[i]
    <3>1. CASE i = 0
      BY <1>4, <3>1
    <3>2. CASE i # 0
      <4>1. i \in 1 .. n
        BY <3>2
      <4> QED BY <1>3, <3>2, <4>1
    <3> QED BY <3>1, <3>2
  <2> QED BY <2>1
<1>6. Pos = Step(Pos)
  <2> HIDE DEF Step, h
  <2> QED BY <1>5
<1>7. \A i \in 0 .. n : Pos[i] = IF i = 0 THEN iBegin ELSE (Pos[i - 1] + ulMarkLen + lens[queued[i]]) % iBufSize
  <2> HIDE DEF Pos
  <2> QED BY <1>6
<1>8. \A i \in 0 .. n : Pos[i] = Wrap(f[i])
  <2> HIDE DEF Pos
  <2> DEFINE S == {i \in Nat : i \in 0 .. n => Pos[i] = Wrap(f[i])}
  <2>1. 0 \in S
    BY <1>4, <1>7
  <2>2. ASSUME NEW i \in Nat, i \in S PROVE i + 1 \in S
    <3> SUFFICES ASSUME i + 1 \in 0 .. n PROVE Pos[i + 1] = Wrap(f[i + 1])
      OBVIOUS
    <3>1. PICK k \in 1 .. n : k = i + 1
      OBVIOUS
    <3>2. i \in 0 .. n /\ k - 1 = i /\ k \in 0 .. n /\ k # 0
      BY <3>1
    <3>3. Pos[k] = (Pos[k - 1] + ulMarkLen + lens[queued[k]]) % iBufSize
      BY <1>7, <3>2
    <3>4. Pos[i] = Wrap(f[i])
      BY <2>2, <3>2
    <3> QED BY <1>3, <3>1, <3>2, <3>3, <3>4
  <2> HIDE DEF S
  <2>3. Nat \subseteq S
    BY <2>1, <2>2, SetInduction
  <2> QED BY <2>3 DEF S
<1>9. Pos[n] = iEnd
  <2> HIDE DEF Pos
  <2>1. n \in 0 .. n
    OBVIOUS
  <2> QED BY <1>1, <1>8, <2>1 DEF Chain
<1>10. ASSUME NEW i \in 1 .. n, NEW j \in 0 .. ulMarkLen + lens[queued[i]] - 1
       PROVE  data[(Pos[i - 1] + j) % iBufSize] = <<queued[i], j - ulMarkLen>>
  <2> HIDE DEF Pos
  <2>1. data[Wrap(f[i - 1] + j)] = <<queued[i], j - ulMarkLen>>
    BY <1>1 DEF Lies, Holds
  <2>2. i - 1 \in 0 .. n /\ i \in 0 .. n
    BY <1>1
  <2>3. f[i] = f[i - 1] + ulMarkLen + lens[queued[i]] /\ lens[queued[i]] \in Nat
    BY <1>1, Spans DEF Chain
  <2>4. PICK u \in Nat, v \in Nat, l \in Nat, x \in Nat : u = f[i - 1] /\ v = f[i] /\ l = lens[queued[i]] /\ x = j
    BY <1>2, <2>2, <2>3, Sizes
  <2>5. v = u + ulMarkLen + l /\ v < 2 * iBufSize /\ x < ulMarkLen + l
    BY <1>2, <2>2, <2>3, <2>4, Sizes
  <2>6. PICK w \in Nat : w = Wrap(u) + x
    <3>1. Wrap(u) \in Nat
      BY <2>5, Sizes DEF Wrap
    <3> QED BY <3>1
  <2>7. w < 2 * iBufSize /\ Wrap(w) = Wrap(u + x)
    BY <2>5, <2>6, Sizes DEF Wrap
  <2>8. w % iBufSize = Wrap(u + x)
    BY <2>7, Wrapped
  <2> QED BY <1>8, <2>1, <2>2, <2>4, <2>6, <2>8
<1> QED BY <1>1, <1>9, <1>10 DEF Layout

LEMMA AssertionsHold == ASSUME MemoryTypes, NEW f, Chain(f), Lies(f), Writing, Reading(f) PROVE Asserted
<1>1. ASSUME reader.at = "read"
      PROVE  LET p == Located
             IN IF iBegin < reader.end
                THEN iBegin + ulMarkLen + p.len <= reader.end
                ELSE iBegin # reader.end /\ reader.end + ulReserveLen <= iBegin
                     /\ (p.new < iBegin => p.new <= reader.end)
  <2>1. PICK k \in 1 .. Len(queued) : reader.end = Wrap(f[k])
    BY <1>1 DEF Reading
  <2>2. Len(queued) # 0 /\ k \in 0 .. Len(queued) /\ 1 \in 1 .. k /\ 1 \in 0 .. Len(queued)
    BY <2>1, Spans
  <2>3. PICK q \in Nat, l \in Nat \ {0} :
           /\ f[1] = iBegin + ulMarkLen + l
           /\ Located = [len |-> l, from |-> Wrap(iBegin + ulMarkLen), new |-> Wrap(f[1])]
    BY <2>2, First
  <2>4. /\ f[k] \in Nat /\ f[1] \in Nat /\ f[Len(queued)] \in Nat /\ f[1] <= f[k] /\ f[k] <= f[Len(queued)]
        /\ f[Len(queued)] + ulReserveLen <= iBegin + iBufSize
    BY <2>2 DEF Chain
  <2>5. iBegin \in Nat /\ iBegin < iBufSize
    BY Sizes DEF MemoryTypes
  <2>6. PICK u \in Nat, v \in Nat : u = f[1] /\ v = f[k] /\ u <= v /\ v + ulReserveLen <= iBegin + iBufSize
                                 /\ u = iBegin + ulMarkLen + l
    <3>1. PICK u \in Nat, v \in Nat, w \in Nat : u = f[1] /\ v = f[k] /\ w = f[Len(queued)]
      BY <2>4
    <3>2. u <= v /\ v <= w /\ w + ulReserveLen <= iBegin + iBufSize /\ u = iBegin + ulMarkLen + l
      BY <2>3, <2>4, <3>1
    <3>3. v + ulReserveLen <= iBegin + iBufSize
      BY <2>5, <3>2, Sizes
    <3> QED BY <3>1, <3>2, <3>3
  <2>7. PICK end \in Nat, new \in Nat : end = Wrap(v) /\ new = Wrap(u)
    <3>1. Wrap(v) \in Nat
      BY Sizes DEF Wrap
    <3>2. Wrap(u) \in Nat
      BY Sizes DEF Wrap
    <3> QED BY <3>1, <3>2
  <2>8. IF iBegin < end THEN iBegin + ulMarkLen + l <= end
        ELSE iBegin # end /\ end + ulReserveLen <= iBegin /\ (new < iBegin => new <= end)
    <3>1. CASE v < iBufSize
      <4>1. end = v /\ iBegin < end
        BY <2>5, <2>6, <2>7, <3>1, Sizes DEF Wrap
      <4> QED BY <2>6, <4>1
    <3>2. CASE ~(v < iBufSize)
      <4>1. end = v - iBufSize /\ end + ulReserveLen <= iBegin /\ end < iBegin
        <5>1. end = v - iBufSize
          BY <2>7, <3>2 DEF Wrap
        <5>2. v + ulReserveLen <= iBegin + iBufSize /\ ulReserveLen \in Nat /\ iBufSize \in Nat
          BY <2>6, Sizes
        <5>3. end + ulReserveLen <= iBegin
          BY <2>5, <5>1, <5>2
        <5> QED BY <2>5, <2>7, <5>1, <5>3, Sizes
      <4>2. new < iBegin => new <= end
        <5>1. CASE u < iBufSize
          <6>1. new = u /\ iBegin <= u
            BY <2>5, <2>6, <2>7, <5>1, Sizes DEF Wrap
          <6> QED BY <2>5, <6>1
        <5>2. CASE ~(u < iBufSize)
          <6>1. new = u - iBufSize
            BY <2>7, <5>2 DEF Wrap
          <6>2. u <= v
            BY <2>6
          <6> QED BY <4>1, <6>1, <6>2, Sizes
        <5> QED BY <5>1, <5>2
      <4> QED BY <2>5, <4>1, <4>2
    <3> QED BY <3>1, <3>2
  <2>9. Located.len = l /\ Located.new = new /\ reader.end = end
    BY <2>1, <2>3, <2>6, <2>7
  <2> QED BY <2>8, <2>9
<1>2. ASSUME writer.at = "publish", writer.end < iEnd PROVE writer.end + ulReserveLen <= writer.begin
  <2>1. Len(lens) # 0 /\ HasRoom(lens[Len(lens)]) /\ Len(lens) \in Nat /\ writer.end = Wrap(iEnd + ulMarkLen + lens[Len(lens)])
    BY <1>2, LenProperties DEF Writing, MemoryTypes
  <2>2. lens[Len(lens)] \in Nat \ {0}
    BY <2>1, ElementOfSeq DEF MemoryTypes
  <2>3. PICK len \in Nat : len = lens[Len(lens)] /\ writer.end = Wrap(iEnd + ulMarkLen + len)
    BY <2>1, <2>2
  <2>4. PICK b \in Nat : b = writer.begin /\ b < iBufSize /\ InUse(b, iEnd) + ulMarkLen + len + ulReserveLen <= iBufSize
    BY <2>1, <2>3, Sizes DEF HasRoom
  <2>5. iEnd \in Nat /\ iEnd < iBufSize
    BY Sizes DEF MemoryTypes
  <2>6. PICK x \in Nat : x = iEnd + ulMarkLen + len
    BY <2>5, Sizes
  <2>7. ~(x < iBufSize)
    BY <1>2, <2>3, <2>5, <2>6, Sizes DEF Wrap
  <2>8. CASE b <= iEnd
    <3>1. iEnd - b + ulMarkLen + len + ulReserveLen <= iBufSize
      BY <2>4, <2>8 DEF InUse
    <3>2. x - iBufSize + ulReserveLen <= b
      BY <2>5, <2>6, <3>1, Sizes
    <3>3. writer.end = x - iBufSize
      BY <2>3, <2>6, <2>7 DEF Wrap
    <3> QED BY <2>4, <3>2, <3>3
  <2>9. CASE ~(b <= iEnd)
    <3>1. iBufSize - (b - iEnd) + ulMarkLen + len + ulReserveLen <= iBufSize
      BY <2>4, <2>9 DEF InUse
    <3>2. x <= b
      BY <2>5, <2>6, <3>1, Sizes
    <3> QED BY <2>4, <2>7, <3>2, Sizes
  <2> QED BY <2>8, <2>9
<1> QED BY <1>1, <1>2 DEF Asserted

LEMMA MemoryKeeps == MemoryInv => QueueKeepsMessages
<1> SUFFICES ASSUME MemoryInv PROVE QueueKeepsMessages
  OBVIOUS
<1>0. PICK f : MemoryHolds(f)
  BY DEF MemoryInv
<1>1. MemoryTypes /\ Chain(f) /\ Lies(f) /\ Writing /\ Reading(f)
  BY <1>0 DEF MemoryInv, MemoryHolds
<1>2. Layout
  BY <1>1, LayoutHolds
<1>3. Asserted
  BY <1>1, AssertionsHold
<1>4. Attachable
  BY <1>1, Sizes DEF Attachable, MemoryTypes
<1>5. ASSUME reader.at = "release", reader.got # <<>>
      PROVE  reader.got = [j \in 1 .. lens[Head(queued)] |-> <<Head(queued), j - 1>>]
  <2>1. reader.got = Piece(queued[1], 0, lens[queued[1]])
    BY <1>1, <1>5 DEF Reading
  <2>2. Head(queued) = queued[1]
    OBVIOUS
  <2>3. \A j \in 1 .. lens[queued[1]] : 0 + j - 1 = j - 1
    OBVIOUS
  <2> QED BY <2>1, <2>2, <2>3 DEF Piece
<1> QED BY <1>2, <1>3, <1>4, <1>5 DEF QueueKeepsMessages

\* The block holds the messages pushed and not yet popped, whole and in order,
\* pop hands out the oldest of them, and the assertions of push and pop hold,
\* whatever the two processes of a CBufferQueue do at once and wherever they die.
THEOREM MessagesAreKept == BufferSpec => []QueueKeepsMessages
<1>1. BufferInit => MemoryInv
  BY BufferStart
<1>2. MemoryInv /\ [BufferNext]_bufferVars => MemoryInv'
  BY MemoryStep
<1>3. MemoryInv => QueueKeepsMessages
  BY MemoryKeeps
<1> QED BY <1>1, <1>2, <1>3, PTL DEF BufferSpec

-----------------------------------------------------------------------------
(* LruCache.                                                               *)
OrNull(S) == S \cup {NULL}
Caches ==
    [map : [Keys -> OrNull(Nodes)],
     key : [Nodes -> OrNull(Keys)], data : [Nodes -> OrNull(Values)],
     age : [Nodes -> Nat], expire : [Nodes -> Nat],
     next : [Nodes -> OrNull(Nodes)], prev : [Nodes -> OrNull(Nodes)],
     pstHead : OrNull(Nodes), pstTail : OrNull(Nodes), m_dwSize : Int, used : SUBSET Nodes]

Fields == {"map", "key", "data", "age", "expire", "next", "prev", "pstHead", "pstTail", "m_dwSize", "used"}
LEMMA MakesCache ==
    ASSUME NEW c, c = [x \in Fields |-> c[x]], c.map \in [Keys -> OrNull(Nodes)],
           c.key \in [Nodes -> OrNull(Keys)], c.data \in [Nodes -> OrNull(Values)],
           c.age \in [Nodes -> Nat], c.expire \in [Nodes -> Nat],
           c.next \in [Nodes -> OrNull(Nodes)], c.prev \in [Nodes -> OrNull(Nodes)],
           c.pstHead \in OrNull(Nodes), c.pstTail \in OrNull(Nodes), c.m_dwSize \in Int, c.used \in SUBSET Nodes
    PROVE  c \in Caches
BY DEF Caches, Fields

LEMMA CacheHas ==
    ASSUME NEW c \in Caches
    PROVE  /\ c = [x \in Fields |-> c[x]] /\ c.map \in [Keys -> OrNull(Nodes)]
           /\ c.key \in [Nodes -> OrNull(Keys)] /\ c.data \in [Nodes -> OrNull(Values)]
           /\ c.age \in [Nodes -> Nat] /\ c.expire \in [Nodes -> Nat]
           /\ c.next \in [Nodes -> OrNull(Nodes)] /\ c.prev \in [Nodes -> OrNull(Nodes)]
           /\ c.pstHead \in OrNull(Nodes) /\ c.pstTail \in OrNull(Nodes) /\ c.m_dwSize \in Int /\ c.used \in SUBSET Nodes
BY DEF Caches, Fields

\* What each step on the list does to a cache, field by field.
LEMMA DeletedIs ==
    ASSUME NEW c \in Caches, NEW n \in Nodes
    PROVE  /\ Deleted(c, n) \in Caches
           /\ Deleted(c, n).map = c.map /\ Deleted(c, n).used = c.used \ {n}
           /\ \A m \in Nodes \ {n} : /\ Deleted(c, n).key[m] = c.key[m] /\ Deleted(c, n).data[m] = c.data[m]
                                     /\ Deleted(c, n).next[m] = c.next[m] /\ Deleted(c, n).prev[m] = c.prev[m]
           /\ Deleted(c, n).pstHead = c.pstHead /\ Deleted(c, n).pstTail = c.pstTail
           /\ Deleted(c, n).m_dwSize = c.m_dwSize
<1> DEFINE d == Deleted(c, n)
<1>1. /\ d.map = c.map /\ d.used = c.used \ {n}
      /\ d.pstHead = c.pstHead /\ d.pstTail = c.pstTail /\ d.m_dwSize = c.m_dwSize
  <2>1. d.map = c.map
    BY DEF Deleted, Caches
  <2>2. d.used = c.used \ {n}
    BY DEF Deleted, Caches
  <2>3. d.pstHead = c.pstHead
    BY DEF Deleted, Caches
  <2>4. d.pstTail = c.pstTail
    BY DEF Deleted, Caches
  <2>5. d.m_dwSize = c.m_dwSize
    BY DEF Deleted, Caches
  <2> QED BY <2>1, <2>2, <2>3, <2>4, <2>5
<1>2. /\ d.key = [c.key EXCEPT ![n] = NULL] /\ d.data = [c.data EXCEPT ![n] = NULL]
      /\ d.age = [c.age EXCEPT ![n] = 0] /\ d.expire = [c.expire EXCEPT ![n] = 0]
      /\ d.next = [c.next EXCEPT ![n] = NULL] /\ d.prev = [c.prev EXCEPT ![n] = NULL]
  BY DEF Deleted, Caches
<1>3. d = [x \in Fields |-> d[x]]
  <2> DEFINE e1 == [c EXCEPT !.used = @ \ {n}]
             e2 == [e1 EXCEPT !.key[n] = NULL]
             e3 == [e2 EXCEPT !.data[n] = NULL]
             e4 == [e3 EXCEPT !.age[n] = 0]
             e5 == [e4 EXCEPT !.expire[n] = 0]
             e6 == [e5 EXCEPT !.next[n] = NULL]
             e7 == [e6 EXCEPT !.prev[n] = NULL]
  <2>0. d = e7
    BY DEF Deleted
  <2>1. e1 = [x \in Fields |-> e1[x]]
    BY CacheHas
  <2> HIDE DEF e1
  <2>2. e2 = [x \in Fields |-> e2[x]]
    BY <2>1
  <2> HIDE DEF e2
  <2>3. e3 = [x \in Fields |-> e3[x]]
    BY <2>2
  <2> HIDE DEF e3
  <2>4. e4 = [x \in Fields |-> e4[x]]
    BY <2>3
  <2> HIDE DEF e4
  <2>5. e5 = [x \in Fields |-> e5[x]]
    BY <2>4
  <2> HIDE DEF e5
  <2>6. e6 = [x \in Fields |-> e6[x]]
    BY <2>5
  <2> HIDE DEF e6
  <2>7. e7 = [x \in Fields |-> e7[x]]
    BY <2>6
  <2> HIDE DEF e7, d
  <2> QED BY <2>0, <2>7
<1>4. /\ d.key \in [Nodes -> OrNull(Keys)] /\ d.data \in [Nodes -> OrNull(Values)]
      /\ d.age \in [Nodes -> Nat] /\ d.expire \in [Nodes -> Nat]
      /\ d.next \in [Nodes -> OrNull(Nodes)] /\ d.prev \in [Nodes -> OrNull(Nodes)]
  BY <1>2 DEF Caches, OrNull
<1> HIDE DEF d
<1>5. d \in Caches
  BY <1>1, <1>3, <1>4, CacheHas, MakesCache
<1> QED BY <1>1, <1>2, <1>5 DEF d, Caches

SameNodes(d, c) == /\ d.map = c.map /\ d.key = c.key /\ d.data = c.data /\ d.used = c.used
                   /\ d.age = c.age /\ d.expire = c.expire
Linked(d, next, prev, head, tail, size) ==
    d.next = next /\ d.prev = prev /\ d.pstHead = head /\ d.pstTail = tail /\ d.m_dwSize = size

LEMMA AddIs ==
    ASSUME NEW c \in Caches, NEW n \in Nodes
    PROVE  /\ AddToListHead(c, n) \in Caches /\ SameNodes(AddToListHead(c, n), c)
           /\ c.pstHead = NULL =>
                Linked(AddToListHead(c, n), [c.next EXCEPT ![n] = NULL], [c.prev EXCEPT ![n] = NULL], n, n, c.m_dwSize + 1)
           /\ c.pstHead # NULL =>
                Linked(AddToListHead(c, n), [c.next EXCEPT ![n] = c.pstHead],
                       [[c.prev EXCEPT ![n] = NULL] EXCEPT ![c.pstHead] = n], n, c.pstTail, c.m_dwSize + 1)
<1> DEFINE d == AddToListHead(c, n)
<1>h. /\ c = [x \in Fields |-> c[x]] /\ c.next \in [Nodes -> OrNull(Nodes)] /\ c.prev \in [Nodes -> OrNull(Nodes)]
      /\ c.pstHead \in OrNull(Nodes) /\ c.pstTail \in OrNull(Nodes) /\ c.m_dwSize \in Int
  BY CacheHas
<1>1. CASE c.pstHead = NULL
  <2> DEFINE e == [c EXCEPT !.next[n] = NULL, !.prev[n] = NULL, !.pstHead = n, !.pstTail = n]
  <2>1. d = [e EXCEPT !.m_dwSize = @ + 1]
    BY <1>1 DEF AddToListHead
  <2>2. /\ e = [x \in Fields |-> e[x]] /\ SameNodes(e, c)
        /\ Linked(e, [c.next EXCEPT ![n] = NULL], [c.prev EXCEPT ![n] = NULL], n, n, c.m_dwSize)
    BY <1>h DEF SameNodes, Linked, Fields
  <2> HIDE DEF e, d
  <2>3. /\ d = [x \in Fields |-> d[x]] /\ SameNodes(d, c)
        /\ Linked(d, [c.next EXCEPT ![n] = NULL], [c.prev EXCEPT ![n] = NULL], n, n, c.m_dwSize + 1)
    BY <2>1, <2>2 DEF SameNodes, Linked, Fields
  <2>4. d \in Caches
    <3>1. [c.next EXCEPT ![n] = NULL] \in [Nodes -> OrNull(Nodes)] /\ [c.prev EXCEPT ![n] = NULL] \in [Nodes -> OrNull(Nodes)]
          /\ n \in OrNull(Nodes) /\ c.m_dwSize + 1 \in Int
      BY <1>h DEF OrNull
    <3>2. /\ d.map \in [Keys -> OrNull(Nodes)] /\ d.key \in [Nodes -> OrNull(Keys)] /\ d.data \in [Nodes -> OrNull(Values)]
          /\ d.age \in [Nodes -> Nat] /\ d.expire \in [Nodes -> Nat] /\ d.used \in SUBSET Nodes
      BY <2>3, CacheHas DEF SameNodes
    <3>3. /\ d.next \in [Nodes -> OrNull(Nodes)] /\ d.prev \in [Nodes -> OrNull(Nodes)]
          /\ d.pstHead \in OrNull(Nodes) /\ d.pstTail \in OrNull(Nodes) /\ d.m_dwSize \in Int
      BY <1>h, <2>3, <3>1 DEF Linked
    <3> QED BY <2>3, <3>2, <3>3, MakesCache
  <2> QED BY <1>1, <2>3, <2>4 DEF d
<1>2. CASE c.pstHead # NULL
  <2> DEFINE e == [c EXCEPT !.next[n] = c.pstHead, !.prev[n] = NULL, !.prev[c.pstHead] = n, !.pstHead = n]
  <2>1. d = [e EXCEPT !.m_dwSize = @ + 1]
    BY <1>2 DEF AddToListHead
  <2>2. /\ e = [x \in Fields |-> e[x]] /\ SameNodes(e, c)
        /\ Linked(e, [c.next EXCEPT ![n] = c.pstHead], [[c.prev EXCEPT ![n] = NULL] EXCEPT ![c.pstHead] = n], n, c.pstTail, c.m_dwSize)
    BY <1>h DEF SameNodes, Linked, Fields
  <2> HIDE DEF e, d
  <2>3. /\ d = [x \in Fields |-> d[x]] /\ SameNodes(d, c)
        /\ Linked(d, [c.next EXCEPT ![n] = c.pstHead], [[c.prev EXCEPT ![n] = NULL] EXCEPT ![c.pstHead] = n], n, c.pstTail, c.m_dwSize + 1)
    BY <2>1, <2>2 DEF SameNodes, Linked, Fields
  <2>4. d \in Caches
    <3>1. /\ [c.next EXCEPT ![n] = c.pstHead] \in [Nodes -> OrNull(Nodes)]
          /\ [[c.prev EXCEPT ![n] = NULL] EXCEPT ![c.pstHead] = n] \in [Nodes -> OrNull(Nodes)]
          /\ n \in OrNull(Nodes) /\ c.m_dwSize + 1 \in Int
      <4>1. c.pstHead \in Nodes /\ NULL \in OrNull(Nodes) /\ n \in OrNull(Nodes)
        BY <1>h, <1>2 DEF OrNull
      <4> QED BY <1>h, <4>1
    <3>2. /\ d.map \in [Keys -> OrNull(Nodes)] /\ d.key \in [Nodes -> OrNull(Keys)] /\ d.data \in [Nodes -> OrNull(Values)]
          /\ d.age \in [Nodes -> Nat] /\ d.expire \in [Nodes -> Nat] /\ d.used \in SUBSET Nodes
      BY <2>3, CacheHas DEF SameNodes
    <3>3. /\ d.next \in [Nodes -> OrNull(Nodes)] /\ d.prev \in [Nodes -> OrNull(Nodes)]
          /\ d.pstHead \in OrNull(Nodes) /\ d.pstTail \in OrNull(Nodes) /\ d.m_dwSize \in Int
      BY <1>h, <2>3, <3>1 DEF Linked
    <3> QED BY <2>3, <3>2, <3>3, MakesCache
  <2> QED BY <1>2, <2>3, <2>4 DEF d
<1> QED BY <1>1, <1>2

LEMMA RemoveIs ==
    ASSUME NEW c \in Caches, NEW n \in Nodes
    PROVE  /\ RemoveFromList(c, n) \in Caches /\ SameNodes(RemoveFromList(c, n), c)
           /\ Linked(RemoveFromList(c, n),
                     IF c.prev[n] = NULL THEN c.next ELSE [c.next EXCEPT ![c.prev[n]] = c.next[n]],
                     IF c.next[n] = NULL THEN c.prev ELSE [c.prev EXCEPT ![c.next[n]] = c.prev[n]],
                     IF c.prev[n] = NULL THEN c.next[n] ELSE c.pstHead,
                     IF c.next[n] = NULL THEN c.prev[n] ELSE c.pstTail, c.m_dwSize - 1)
<1> DEFINE d == RemoveFromList(c, n)
<1>h. /\ c = [x \in Fields |-> c[x]] /\ c.next \in [Nodes -> OrNull(Nodes)] /\ c.prev \in [Nodes -> OrNull(Nodes)]
      /\ c.pstHead \in OrNull(Nodes) /\ c.pstTail \in OrNull(Nodes) /\ c.m_dwSize \in Int
  BY CacheHas
<1> DEFINE nx == IF c.prev[n] = NULL THEN c.next ELSE [c.next EXCEPT ![c.prev[n]] = c.next[n]]
           pv == IF c.next[n] = NULL THEN c.prev ELSE [c.prev EXCEPT ![c.next[n]] = c.prev[n]]
           hd == IF c.prev[n] = NULL THEN c.next[n] ELSE c.pstHead
           tl == IF c.next[n] = NULL THEN c.prev[n] ELSE c.pstTail
<1>1. d = [c EXCEPT !.pstHead = hd, !.pstTail = tl, !.next = nx, !.prev = pv, !.m_dwSize = c.m_dwSize - 1]
  BY <1>h DEF RemoveFromList, Fields
<1>2. nx \in [Nodes -> OrNull(Nodes)] /\ pv \in [Nodes -> OrNull(Nodes)] /\ hd \in OrNull(Nodes) /\ tl \in OrNull(Nodes)
      /\ c.m_dwSize - 1 \in Int
  BY <1>h DEF OrNull
<1> HIDE DEF d, nx, pv, hd, tl
<1>3. d = [x \in Fields |-> d[x]] /\ SameNodes(d, c) /\ Linked(d, nx, pv, hd, tl, c.m_dwSize - 1)
  BY <1>1, <1>h DEF SameNodes, Linked, Fields
<1>4. d \in Caches
  BY <1>2, <1>3, CacheHas, MakesCache DEF SameNodes, Linked
<1> QED BY <1>3, <1>4 DEF d, nx, pv, hd, tl

LEMMA RemoveTailIs ==
    ASSUME NEW c \in Caches, NEW n \in Nodes, c.pstTail = n
    PROVE  \E e \in Caches : /\ RemoveFromListTail(c) = Deleted(e, n) /\ SameNodes(e, c)
                             /\ Linked(e, IF c.prev[n] = NULL THEN c.next ELSE [c.next EXCEPT ![c.prev[n]] = NULL],
                                       c.prev, c.pstHead, c.prev[n], c.m_dwSize - 1)
<1>h. /\ c = [x \in Fields |-> c[x]] /\ c.next \in [Nodes -> OrNull(Nodes)] /\ c.prev \in [Nodes -> OrNull(Nodes)]
      /\ c.pstHead \in OrNull(Nodes) /\ c.pstTail \in OrNull(Nodes) /\ c.m_dwSize \in Int
  BY CacheHas
<1> DEFINE last == c.prev[n]
           cut == [c EXCEPT !.pstTail = last, !.m_dwSize = @ - 1]
           e == IF last = NULL THEN cut ELSE [cut EXCEPT !.next[last] = NULL]
           nx == IF last = NULL THEN c.next ELSE [c.next EXCEPT ![last] = NULL]
<1>1. RemoveFromListTail(c) = Deleted(e, n)
  BY DEF RemoveFromListTail
<1>2. last \in OrNull(Nodes) /\ c.m_dwSize - 1 \in Int /\ nx \in [Nodes -> OrNull(Nodes)]
  BY <1>h DEF OrNull
<1>3. cut = [x \in Fields |-> cut[x]] /\ SameNodes(cut, c) /\ Linked(cut, c.next, c.prev, c.pstHead, last, c.m_dwSize - 1)
  BY <1>h DEF SameNodes, Linked, Fields
<1> HIDE DEF cut, last
<1>4. e = [x \in Fields |-> e[x]] /\ SameNodes(e, c) /\ Linked(e, nx, c.prev, c.pstHead, last, c.m_dwSize - 1)
  BY <1>3, <1>h DEF SameNodes, Linked, Fields
<1> HIDE DEF e, nx
<1>5. e \in Caches
  BY <1>2, <1>4, <1>h, CacheHas, MakesCache DEF SameNodes, Linked
<1> QED BY <1>1, <1>4, <1>5 DEF nx, last

\* The nodes a[1] to a[n] are the list of c, linked both ways.
Nth(a, n, i) == IF i \in 1 .. n THEN a[i] ELSE NULL
Injects(a, n) == n \in Nat /\ a \in [1 .. n -> Nodes] /\ \A i, j \in 1 .. n : a[i] = a[j] => i = j
Lists(c, a, n) ==
    /\ Injects(a, n)
    /\ \A i \in 1 .. n : c.next[a[i]] = Nth(a, n, i + 1) /\ c.prev[a[i]] = Nth(a, n, i - 1)
    /\ c.pstHead = Nth(a, n, 1) /\ c.pstTail = Nth(a, n, n) /\ c.m_dwSize = n
Cut(a, n, i) == [j \in 1 .. n - 1 |-> IF j < i THEN a[j] ELSE a[j + 1]]
Push(a, n, x) == [j \in 1 .. n + 1 |-> IF j = 1 THEN x ELSE a[j - 1]]
NotIn(x, a, n) == \A i \in 1 .. n : a[i] # x

LEMMA NullIsNoNode == NULL \notin Nodes
BY DEF NULL, Nodes

LEMMA AddLists ==
    ASSUME NEW c \in Caches, NEW a, NEW n, Lists(c, a, n), NEW x \in Nodes, NotIn(x, a, n)
    PROVE  Lists(AddToListHead(c, x), Push(a, n, x), n + 1)
<1> DEFINE d == AddToListHead(c, x)
<1>0. /\ n \in Nat /\ a \in [1 .. n -> Nodes] /\ (\A i, j \in 1 .. n : a[i] = a[j] => i = j) /\ \A i \in 1 .. n : a[i] # x
      /\ c.pstHead = Nth(a, n, 1) /\ c.pstTail = Nth(a, n, n) /\ c.m_dwSize = n
      /\ \A i \in 1 .. n : c.next[a[i]] = Nth(a, n, i + 1) /\ c.prev[a[i]] = Nth(a, n, i - 1)
  BY DEF Lists, Injects, NotIn
<1>p. PICK b : b = Push(a, n, x)
  OBVIOUS
<1>1. /\ b[1] = x /\ (\A i \in 1 .. n : b[i + 1] = a[i]) /\ b \in [1 .. n + 1 -> Nodes]
      /\ \A j \in 1 .. n + 1 : j = 1 \/ (j - 1 \in 1 .. n /\ b[j] = a[j - 1])
  BY <1>0, <1>p DEF Push
<1>2. Injects(b, n + 1)
  <2>1. ASSUME NEW i \in 1 .. n + 1, NEW j \in 1 .. n + 1, b[i] = b[j] PROVE i = j
    BY <1>0, <1>1, <2>1
  <2> QED BY <1>0, <1>1, <2>1 DEF Injects
<1>n. c.next \in [Nodes -> OrNull(Nodes)] /\ c.prev \in [Nodes -> OrNull(Nodes)]
  BY CacheHas
<1>3. CASE n = 0
  <2>1. c.pstHead = NULL
    BY <1>0, <1>3 DEF Nth
  <2>2. Linked(d, [c.next EXCEPT ![x] = NULL], [c.prev EXCEPT ![x] = NULL], x, x, c.m_dwSize + 1)
    BY <2>1, AddIs
  <2>3. d.next[x] = NULL /\ d.prev[x] = NULL /\ d.pstHead = x /\ d.pstTail = x /\ d.m_dwSize = 1
    BY <1>0, <1>3, <1>n, <2>2 DEF Linked
  <2> HIDE DEF d
  <2>4. Nth(b, 1, 1) = x /\ Nth(b, 1, 2) = NULL /\ Nth(b, 1, 0) = NULL
    BY <1>1, <1>3 DEF Nth
  <2>5. \A i \in 1 .. 1 : d.next[b[i]] = Nth(b, 1, i + 1) /\ d.prev[b[i]] = Nth(b, 1, i - 1)
    <3>1. \A i \in 1 .. 1 : i = 1
      OBVIOUS
    <3>2. 1 + 1 = 2 /\ 1 - 1 = 0
      OBVIOUS
    <3> QED BY <1>1, <2>3, <2>4, <3>1, <3>2
  <2>6. Lists(d, b, 1)
    BY <1>2, <1>3, <2>3, <2>4, <2>5 DEF Lists
  <2> QED BY <1>3, <1>p, <2>6 DEF d
<1>4. CASE n # 0
  <2>1. c.pstHead = a[1] /\ c.pstTail = a[n] /\ a[1] \in Nodes /\ a[n] \in Nodes /\ a[1] # NULL /\ 1 \in 1 .. n /\ n \in 1 .. n
    BY <1>0, <1>4, NullIsNoNode DEF Nth
  <2>2. Linked(d, [c.next EXCEPT ![x] = a[1]], [[c.prev EXCEPT ![x] = NULL] EXCEPT ![a[1]] = x], x, a[n], n + 1)
    BY <1>0, <2>1, AddIs
  <2>3. /\ d.next[x] = a[1] /\ d.prev[x] = NULL /\ d.prev[a[1]] = x /\ d.pstHead = x /\ d.pstTail = a[n] /\ d.m_dwSize = n + 1
        /\ \A m \in Nodes \ {x} : d.next[m] = c.next[m] /\ (m # a[1] => d.prev[m] = c.prev[m])
    BY <1>0, <1>n, <2>1, <2>2 DEF Linked
  <2> HIDE DEF d
  <2>4. ASSUME NEW j \in 1 .. n + 1 PROVE d.next[b[j]] = Nth(b, n + 1, j + 1) /\ d.prev[b[j]] = Nth(b, n + 1, j - 1)
    <3>1. CASE j = 1
      <4>1. b[2] = a[1] /\ 2 \in 1 .. n + 1 /\ 0 \notin 1 .. n + 1
        <5>1. PICK i \in 1 .. n : i = 1
          BY <2>1
        <5> QED BY <1>0, <1>1, <5>1
      <4> QED BY <1>1, <2>3, <3>1, <4>1 DEF Nth
    <3>2. CASE j # 1
      <4>1. PICK i \in 1 .. n : i = j - 1
        BY <1>1, <3>2
      <4>2. b[j] = a[i] /\ a[i] # x /\ a[i] \in Nodes
        BY <1>0, <1>1, <3>2, <4>1
      <4>3. d.next[b[j]] = Nth(a, n, i + 1)
        BY <1>0, <2>3, <4>2
      <4>4. Nth(a, n, i + 1) = Nth(b, n + 1, j + 1)
        <5>1. CASE i = n
          BY <1>0, <4>1, <5>1 DEF Nth
        <5>2. CASE i # n
          <6>1. PICK h \in 1 .. n : h = i + 1
            BY <1>0, <5>2
          <6>2. b[h + 1] = a[h] /\ h + 1 = j + 1 /\ h + 1 \in 1 .. n + 1
            BY <1>0, <1>1, <4>1, <6>1
          <6> QED BY <6>1, <6>2 DEF Nth
        <5> QED BY <5>1, <5>2
      <4>5. d.prev[b[j]] = Nth(b, n + 1, i)
        <5>1. i \in 1 .. n + 1
          BY <1>0
        <5>2. CASE i = 1
          BY <1>1, <2>3, <4>2, <5>1, <5>2 DEF Nth
        <5>3. CASE i # 1
          <6>1. PICK h \in 1 .. n : h = i - 1
            BY <1>0, <5>3
          <6>2. a[i] # a[1]
            BY <1>0, <2>1, <5>3
          <6>3. d.prev[b[j]] = c.prev[a[i]]
            BY <2>3, <4>2, <6>2
          <6>4. c.prev[a[i]] = a[h]
            BY <1>0, <6>1 DEF Nth
          <6>5. b[i] = a[h]
            BY <1>1, <5>1, <5>3, <6>1
          <6> QED BY <5>1, <6>3, <6>4, <6>5 DEF Nth
        <5> QED BY <5>2, <5>3
      <4> QED BY <4>1, <4>3, <4>4, <4>5
    <3> QED BY <3>1, <3>2
  <2>5. b[n + 1] = a[n]
    BY <1>1, <2>1
  <2>6. d.pstHead = Nth(b, n + 1, 1) /\ d.pstTail = Nth(b, n + 1, n + 1)
    BY <1>0, <1>1, <2>3, <2>5 DEF Nth
  <2>7. d.m_dwSize = n + 1
    BY <2>3
  <2>8. Lists(d, b, n + 1)
    BY <1>2, <2>4, <2>6, <2>7 DEF Lists
  <2> QED BY <1>p, <2>8 DEF d
<1> QED BY <1>3, <1>4

LEMMA CutIs ==
    ASSUME NEW a, NEW n, Injects(a, n), NEW i \in 1 .. n
    PROVE  /\ Injects(Cut(a, n, i), n - 1)
           /\ \A j \in 1 .. n - 1 : /\ j \in 1 .. n /\ j + 1 \in 1 .. n
                                    /\ Cut(a, n, i)[j] = IF j < i THEN a[j] ELSE a[j + 1]
                                    /\ Cut(a, n, i)[j] # a[i]
<1>1. n \in Nat /\ a \in [1 .. n -> Nodes] /\ \A j, k \in 1 .. n : a[j] = a[k] => j = k
  BY DEF Injects
<1>2. \A j \in 1 .. n - 1 : j \in 1 .. n /\ j + 1 \in 1 .. n
  BY <1>1
<1> DEFINE b == Cut(a, n, i)
<1>3. \A j \in 1 .. n - 1 : b[j] = IF j < i THEN a[j] ELSE a[j + 1]
  BY DEF Cut
<1>4. b \in [1 .. n - 1 -> Nodes]
  BY <1>1, <1>2 DEF Cut
<1> HIDE DEF b
<1>5. ASSUME NEW j \in 1 .. n - 1, NEW k \in 1 .. n - 1, b[j] = b[k] PROVE j = k
  <2>1. CASE j < i /\ k < i
    BY <1>1, <1>2, <1>3, <1>5, <2>1
  <2>2. CASE j < i /\ ~(k < i)
    <3>1. a[j] = a[k + 1]
      BY <1>3, <1>5, <2>2
    <3>2. j = k + 1
      BY <1>1, <1>2, <3>1
    <3> QED BY <2>2, <3>2
  <2>3. CASE ~(j < i) /\ k < i
    <3>1. a[j + 1] = a[k]
      BY <1>3, <1>5, <2>3
    <3>2. j + 1 = k
      BY <1>1, <1>2, <3>1
    <3> QED BY <2>3, <3>2
  <2>4. CASE ~(j < i) /\ ~(k < i)
    <3>1. a[j + 1] = a[k + 1]
      BY <1>3, <1>5, <2>4
    <3>2. j + 1 = k + 1
      BY <1>1, <1>2, <3>1
    <3> QED BY <3>2
  <2> QED BY <2>1, <2>2, <2>3, <2>4
<1>6. ASSUME NEW j \in 1 .. n - 1 PROVE b[j] # a[i]
  <2>1. CASE j < i
    BY <1>1, <1>2, <1>3, <2>1
  <2>2. CASE ~(j < i)
    <3>1. j + 1 # i
      BY <2>2
    <3> QED BY <1>1, <1>2, <1>3, <2>2, <3>1
  <2> QED BY <2>1, <2>2
<1>7. n - 1 \in Nat
  BY <1>1
<1> QED BY <1>2, <1>3, <1>4, <1>5, <1>6, <1>7 DEF b, Injects

LEMMA RemoveLists ==
    ASSUME NEW c \in Caches, NEW a, NEW n, Lists(c, a, n), NEW i \in 1 .. n
    PROVE  Lists(RemoveFromList(c, a[i]), Cut(a, n, i), n - 1)
<1>0. /\ n \in Nat /\ a \in [1 .. n -> Nodes] /\ (\A j, k \in 1 .. n : a[j] = a[k] => j = k)
      /\ c.pstHead = Nth(a, n, 1) /\ c.pstTail = Nth(a, n, n) /\ c.m_dwSize = n
      /\ \A j \in 1 .. n : c.next[a[j]] = Nth(a, n, j + 1) /\ c.prev[a[j]] = Nth(a, n, j - 1)
  BY DEF Lists, Injects
<1>n. c.next \in [Nodes -> OrNull(Nodes)] /\ c.prev \in [Nodes -> OrNull(Nodes)]
  BY CacheHas
<1>p. PICK b, d : b = Cut(a, n, i) /\ d = RemoveFromList(c, a[i])
  OBVIOUS
<1>1. /\ Injects(b, n - 1)
      /\ \A j \in 1 .. n - 1 : j \in 1 .. n /\ j + 1 \in 1 .. n /\ b[j] = (IF j < i THEN a[j] ELSE a[j + 1])
  <2>1. Injects(a, n)
    BY DEF Lists
  <2> QED BY <1>p, <2>1, CutIs
<1>2. PICK p, q : p = Nth(a, n, i - 1) /\ q = Nth(a, n, i + 1) /\ c.prev[a[i]] = p /\ c.next[a[i]] = q /\ a[i] \in Nodes
  BY <1>0
<1>3. Linked(d, IF p = NULL THEN c.next ELSE [c.next EXCEPT ![p] = q],
             IF q = NULL THEN c.prev ELSE [c.prev EXCEPT ![q] = p],
             IF p = NULL THEN q ELSE c.pstHead, IF q = NULL THEN p ELSE c.pstTail, n - 1)
  <2>1. PICK x \in Nodes : x = a[i]
    BY <1>2
  <2>2. d = RemoveFromList(c, x) /\ c.prev[x] = p /\ c.next[x] = q
    BY <1>2, <1>p, <2>1
  <2> QED BY <1>0, <2>2, RemoveIs
<1>4. /\ (p = NULL <=> i = 1) /\ (i # 1 => i - 1 \in 1 .. n /\ p = a[i - 1] /\ p \in Nodes)
      /\ (q = NULL <=> i = n) /\ (i # n => i + 1 \in 1 .. n /\ q = a[i + 1] /\ q \in Nodes)
  <2>2. ASSUME i # 1 PROVE i - 1 \in 1 .. n /\ p = a[i - 1] /\ p \in Nodes /\ p # NULL
    <3>1. i - 1 \in 1 .. n
      BY <1>0, <2>2
    <3> QED BY <1>0, <1>2, <3>1, NullIsNoNode DEF Nth
  <2>3. i = n => q = NULL
    BY <1>0, <1>2 DEF Nth
  <2>4. ASSUME i # n PROVE i + 1 \in 1 .. n /\ q = a[i + 1] /\ q \in Nodes /\ q # NULL
    <3>1. i + 1 \in 1 .. n
      BY <1>0, <2>4
    <3> QED BY <1>0, <1>2, <3>1, NullIsNoNode DEF Nth
  <2>5. i = 1 => p = NULL
    BY <1>2 DEF Nth
  <2> QED BY <2>2, <2>3, <2>4, <2>5
<1>5. /\ \A m \in Nodes : d.next[m] = IF m = p THEN q ELSE c.next[m]
      /\ \A m \in Nodes : d.prev[m] = IF m = q THEN p ELSE c.prev[m]
      /\ d.pstHead = (IF i = 1 THEN q ELSE c.pstHead) /\ d.pstTail = (IF i = n THEN p ELSE c.pstTail) /\ d.m_dwSize = n - 1
  BY <1>3, <1>4, <1>n, NullIsNoNode DEF Linked
<1>6. ASSUME NEW j \in 1 .. n - 1 PROVE d.next[b[j]] = Nth(b, n - 1, j + 1) /\ d.prev[b[j]] = Nth(b, n - 1, j - 1)
  <2>1. j \in 1 .. n /\ j + 1 \in 1 .. n
    BY <1>1
  <2>2. PICK k \in 1 .. n : k = (IF j < i THEN j ELSE j + 1) /\ b[j] = a[k] /\ a[k] \in Nodes
    BY <1>0, <1>1, <2>1
  <2>3. c.next[a[k]] = Nth(a, n, k + 1) /\ c.prev[a[k]] = Nth(a, n, k - 1)
    BY <1>0
  <2>4. a[k] = p <=> i # 1 /\ k = i - 1
    <3>1. CASE i = 1
      BY <1>4, <2>2, <3>1, NullIsNoNode
    <3>2. CASE i # 1
      <4>1. PICK h \in 1 .. n : h = i - 1 /\ p = a[h]
        BY <1>4, <3>2
      <4>2. a[k] = a[h] <=> k = h
        BY <1>0
      <4> QED BY <3>2, <4>1, <4>2
    <3> QED BY <3>1, <3>2
  <2>5. a[k] = q <=> i # n /\ k = i + 1
    <3>1. CASE i = n
      BY <1>4, <2>2, <3>1, NullIsNoNode
    <3>2. CASE i # n
      <4>1. PICK h \in 1 .. n : h = i + 1 /\ q = a[h]
        BY <1>4, <3>2
      <4>2. a[k] = a[h] <=> k = h
        BY <1>0
      <4> QED BY <3>2, <4>1, <4>2
    <3> QED BY <3>1, <3>2
  <2>6. d.next[b[j]] = Nth(b, n - 1, j + 1)
    <3>1. CASE j = n - 1
      <4>1. Nth(b, n - 1, j + 1) = NULL
        BY <1>0, <3>1 DEF Nth
      <4>2. CASE j < i
        <5>1. i = n /\ k = i - 1 /\ i # 1
          BY <1>0, <2>2, <3>1, <4>2
        <5> QED BY <1>4, <1>5, <2>2, <2>4, <4>1, <5>1
      <4>3. CASE ~(j < i)
        <5>1. k = n /\ k # i - 1
          BY <1>0, <2>2, <3>1, <4>3
        <5>2. Nth(a, n, k + 1) = NULL
          BY <1>0, <5>1 DEF Nth
        <5> QED BY <1>5, <2>2, <2>3, <2>4, <4>1, <5>1, <5>2
      <4> QED BY <4>2, <4>3
    <3>2. CASE j # n - 1
      <4>1. PICK h \in 1 .. n - 1 : h = j + 1
        <5>1. n \in Nat
          BY <1>0
        <5>2. j + 1 \in 1 .. n - 1
          BY <3>2, <5>1
        <5> QED BY <5>2
      <4>2. b[h] = (IF h < i THEN a[h] ELSE a[h + 1]) /\ h + 1 \in 1 .. n /\ h \in 1 .. n
        BY <1>1
      <4>3. Nth(b, n - 1, j + 1) = b[h]
        BY <4>1 DEF Nth
      <4>4. CASE h < i
        <5>1. k = j /\ k + 1 = h /\ k # i - 1
          BY <2>2, <4>1, <4>4
        <5>2. Nth(a, n, k + 1) = a[h]
          BY <4>2, <5>1 DEF Nth
        <5> QED BY <1>5, <2>2, <2>3, <2>4, <4>2, <4>3, <4>4, <5>1, <5>2
      <4>5. CASE h = i
        <5>1. k = j /\ k = i - 1 /\ i # 1 /\ i # n /\ h + 1 = i + 1
          <6>1. j < i /\ j = i - 1 /\ i # 1 /\ i # n
            BY <1>0, <4>1, <4>5
          <6>2. k = j
            BY <2>2, <6>1
          <6> QED BY <4>5, <6>1, <6>2
        <5>2. b[h] = q
          BY <1>4, <4>2, <4>5, <5>1
        <5> QED BY <1>5, <2>2, <2>4, <4>3, <5>1, <5>2
      <4>6. CASE h > i
        <5>1. k = j + 1 /\ k + 1 = h + 1 /\ k # i - 1 /\ ~(h < i)
          BY <2>2, <4>1, <4>6
        <5>2. Nth(a, n, k + 1) = a[h + 1]
          BY <4>2, <5>1 DEF Nth
        <5> QED BY <1>5, <2>2, <2>3, <2>4, <4>2, <4>3, <5>1, <5>2
      <4> QED BY <4>4, <4>5, <4>6
    <3> QED BY <3>1, <3>2
  <2>7. d.prev[b[j]] = Nth(b, n - 1, j - 1)
    <3>1. CASE j = 1
      <4>1. Nth(b, n - 1, j - 1) = NULL
        BY <3>1 DEF Nth
      <4>2. CASE j < i
        <5>1. k = 1 /\ k # i + 1
          BY <2>2, <3>1, <4>2
        <5>2. Nth(a, n, k - 1) = NULL
          BY <5>1 DEF Nth
        <5> QED BY <1>5, <2>2, <2>3, <2>5, <4>1, <5>1, <5>2
      <4>3. CASE ~(j < i)
        <5>1. i = 1 /\ k = i + 1 /\ i # n
          BY <1>0, <2>2, <3>1, <4>3
        <5> QED BY <1>4, <1>5, <2>2, <2>5, <4>1, <5>1
      <4> QED BY <4>2, <4>3
    <3>2. CASE j # 1
      <4>1. PICK h \in 1 .. n - 1 : h = j - 1
        BY <1>0, <3>2
      <4>2. b[h] = (IF h < i THEN a[h] ELSE a[h + 1]) /\ h + 1 \in 1 .. n /\ h \in 1 .. n
        BY <1>1
      <4>3. Nth(b, n - 1, j - 1) = b[h]
        BY <4>1 DEF Nth
      <4>4. CASE j < i
        <5>1. k = j /\ k - 1 = h /\ k # i + 1 /\ h < i
          BY <2>2, <4>1, <4>4
        <5>2. Nth(a, n, k - 1) = a[h]
          BY <4>2, <5>1 DEF Nth
        <5> QED BY <1>5, <2>2, <2>3, <2>5, <4>2, <4>3, <5>1, <5>2
      <4>5. CASE j = i
        <5>1. k = i + 1 /\ i # 1 /\ i # n /\ h = i - 1 /\ h < i
          BY <1>0, <2>2, <3>2, <4>1, <4>5
        <5>2. b[h] = p
          BY <1>4, <4>2, <5>1
        <5> QED BY <1>5, <2>2, <2>5, <4>3, <5>1, <5>2
      <4>6. CASE j > i
        <5>1. k = j + 1 /\ k - 1 = h + 1 /\ k # i + 1 /\ ~(h < i)
          BY <2>2, <4>1, <4>6
        <5>2. Nth(a, n, k - 1) = a[h + 1]
          BY <4>2, <5>1 DEF Nth
        <5> QED BY <1>5, <2>2, <2>3, <2>5, <4>2, <4>3, <5>1, <5>2
      <4> QED BY <4>4, <4>5, <4>6
    <3> QED BY <3>1, <3>2
  <2> QED BY <2>6, <2>7
<1>7. d.pstHead = Nth(b, n - 1, 1)
  <2>1. CASE n = 1
    <3>1. i = 1 /\ i = n /\ Nth(b, n - 1, 1) = NULL
      BY <2>1 DEF Nth
    <3> QED BY <1>4, <1>5, <3>1
  <2>2. CASE n # 1
    <3>1. 1 \in 1 .. n - 1 /\ 1 \in 1 .. n /\ 1 + 1 = 2
      BY <1>0, <2>2
    <3>2. Nth(b, n - 1, 1) = b[1] /\ b[1] = (IF 1 < i THEN a[1] ELSE a[2])
      BY <1>1, <3>1 DEF Nth
    <3>3. CASE i = 1
      BY <1>4, <1>5, <2>2, <3>2, <3>3
    <3>4. CASE i # 1
      BY <1>0, <1>5, <3>1, <3>2, <3>4 DEF Nth
    <3> QED BY <3>3, <3>4
  <2> QED BY <2>1, <2>2
<1>8. d.pstTail = Nth(b, n - 1, n - 1)
  <2>1. CASE n = 1
    <3>1. i = 1 /\ i = n /\ Nth(b, n - 1, n - 1) = NULL
      BY <2>1 DEF Nth
    <3> QED BY <1>4, <1>5, <3>1
  <2>2. CASE n # 1
    <3>1. PICK h \in 1 .. n - 1 : h = n - 1
      BY <1>0, <2>2
    <3>2. Nth(b, n - 1, n - 1) = b[h] /\ b[h] = (IF h < i THEN a[h] ELSE a[h + 1]) /\ h + 1 = n
      BY <1>0, <1>1, <3>1 DEF Nth
    <3>3. CASE i = n
      BY <1>4, <1>5, <2>2, <3>1, <3>2, <3>3
    <3>4. CASE i # n
      <4>1. ~(h < i) /\ n \in 1 .. n
        BY <1>0, <3>1, <3>4
      <4> QED BY <1>0, <1>5, <3>2, <3>4, <4>1 DEF Nth
    <3> QED BY <3>3, <3>4
  <2> QED BY <2>1, <2>2
<1>9. Lists(d, b, n - 1)
  BY <1>1, <1>5, <1>6, <1>7, <1>8 DEF Lists
<1> QED BY <1>9, <1>p

LEMMA DeletedLists ==
    ASSUME NEW c \in Caches, NEW a, NEW n, Lists(c, a, n), NEW x \in Nodes, NotIn(x, a, n)
    PROVE  Lists(Deleted(c, x), a, n)
<1>1. PICK d : d = Deleted(c, x)
  OBVIOUS
<1>2. /\ \A m \in Nodes \ {x} : d.next[m] = c.next[m] /\ d.prev[m] = c.prev[m]
      /\ d.pstHead = c.pstHead /\ d.pstTail = c.pstTail /\ d.m_dwSize = c.m_dwSize
  BY <1>1, DeletedIs
<1>3. \A i \in 1 .. n : a[i] \in Nodes \ {x}
  BY DEF Lists, Injects, NotIn
<1>4. Lists(d, a, n)
  BY <1>2, <1>3 DEF Lists
<1> QED BY <1>1, <1>4

\* What removeFromListTail does to a list of more than one node.
LEMMA TailLists ==
    ASSUME NEW c \in Caches, NEW a, NEW n, Lists(c, a, n), n > 1
    PROVE  Lists(RemoveFromListTail(c), Cut(a, n, n), n - 1)
<1>0. /\ n \in Nat /\ a \in [1 .. n -> Nodes] /\ (\A j, k \in 1 .. n : a[j] = a[k] => j = k)
      /\ c.pstHead = Nth(a, n, 1) /\ c.pstTail = Nth(a, n, n) /\ c.m_dwSize = n
      /\ \A j \in 1 .. n : c.next[a[j]] = Nth(a, n, j + 1) /\ c.prev[a[j]] = Nth(a, n, j - 1)
  BY DEF Lists, Injects
<1>n. c.next \in [Nodes -> OrNull(Nodes)] /\ c.prev \in [Nodes -> OrNull(Nodes)]
  BY CacheHas
<1>1. PICK b : b = Cut(a, n, n)
  OBVIOUS
<1>2. PICK k \in 1 .. n - 1 : k = n - 1 /\ k \in 1 .. n /\ n \in 1 .. n /\ 1 \in 1 .. n /\ 1 \in 1 .. n - 1
  BY <1>0
<1>3. Injects(b, n - 1) /\ \A j \in 1 .. n - 1 : j \in 1 .. n /\ j + 1 \in 1 .. n /\ b[j] = a[j] /\ b[j] # a[n]
  <2>1. Injects(a, n)
    BY DEF Lists
  <2>2. \A j \in 1 .. n - 1 : j < n
    BY <1>0
  <2> QED BY <1>1, <1>2, <2>1, <2>2, CutIs
<1>4. PICK x \in Nodes, l \in Nodes : x = a[n] /\ l = a[k] /\ c.pstTail = x /\ c.prev[x] = l
  BY <1>0, <1>2 DEF Nth
<1>5. PICK e \in Caches :
         /\ RemoveFromListTail(c) = Deleted(e, x)
         /\ Linked(e, IF c.prev[x] = NULL THEN c.next ELSE [c.next EXCEPT ![c.prev[x]] = NULL],
                   c.prev, c.pstHead, c.prev[x], c.m_dwSize - 1)
  BY <1>4, RemoveTailIs
<1>6. /\ e.next = [c.next EXCEPT ![l] = NULL] /\ e.prev = c.prev /\ e.pstHead = c.pstHead
      /\ e.pstTail = l /\ e.m_dwSize = n - 1
  BY <1>0, <1>4, <1>5, NullIsNoNode DEF Linked
<1>7. ASSUME NEW j \in 1 .. n - 1 PROVE e.next[b[j]] = Nth(b, n - 1, j + 1) /\ e.prev[b[j]] = Nth(b, n - 1, j - 1)
  <2>1. j \in 1 .. n /\ b[j] = a[j] /\ a[j] \in Nodes
    BY <1>0, <1>3
  <2>2. e.next[b[j]] = IF j = k THEN NULL ELSE Nth(a, n, j + 1)
    BY <1>0, <1>2, <1>4, <1>6, <1>n, <2>1
  <2>3. j # k => Nth(a, n, j + 1) = Nth(b, n - 1, j + 1)
    <3> SUFFICES ASSUME j # k PROVE Nth(a, n, j + 1) = Nth(b, n - 1, j + 1)
      OBVIOUS
    <3>1. PICK h \in 1 .. n - 1 : h = j + 1
      BY <1>0, <1>2
    <3> QED BY <1>3, <3>1 DEF Nth
  <2>4. j = k => Nth(b, n - 1, j + 1) = NULL
    BY <1>2 DEF Nth
  <2>5. Nth(a, n, j - 1) = Nth(b, n - 1, j - 1)
    <3>1. CASE j = 1
      BY <3>1 DEF Nth
    <3>2. CASE j # 1
      <4>1. PICK h \in 1 .. n - 1 : h = j - 1
        BY <1>0, <3>2
      <4> QED BY <1>3, <4>1 DEF Nth
    <3> QED BY <3>1, <3>2
  <2> QED BY <1>0, <1>6, <2>1, <2>2, <2>3, <2>4, <2>5
<1>8. e.pstHead = Nth(b, n - 1, 1) /\ e.pstTail = Nth(b, n - 1, n - 1)
  <2>1. Nth(a, n, 1) = a[1] /\ Nth(b, n - 1, 1) = b[1] /\ Nth(b, n - 1, n - 1) = b[k]
    BY <1>2 DEF Nth
  <2> QED BY <1>0, <1>2, <1>3, <1>4, <1>6, <2>1
<1>9. Lists(e, b, n - 1)
  BY <1>3, <1>6, <1>7, <1>8 DEF Lists
<1>10. NotIn(x, b, n - 1)
  BY <1>3, <1>4 DEF NotIn
<1>11. Lists(Deleted(e, x), b, n - 1)
  BY <1>9, <1>10, DeletedLists
<1> QED BY <1>1, <1>5, <1>11

\* The entries q[1] to q[n] are in those nodes, and the map names no others.
Named(c, a, q, n) ==
    /\ \A i \in 1 .. n : /\ q[i] \in Keys \X Values
                        /\ c.key[a[i]] = q[i][1] /\ c.data[a[i]] = q[i][2] /\ c.map[q[i][1]] = a[i]
    /\ \A k \in Keys : c.map[k] # NULL => \E i \in 1 .. n : q[i][1] = k
Uses(c, a, n) == \A m \in Nodes : m \in c.used <=> \E i \in 1 .. n : a[i] = m
Keeps(c, a, q, n) == c \in Caches /\ Lists(c, a, n) /\ Named(c, a, q, n) /\ Uses(c, a, n)
CacheIs(c, r) == r \in Seq(Keys \X Values) /\ \E a : Keeps(c, a, r, Len(r))

CutHas(a, q, n, i, b, p) ==
    /\ \A j \in 1 .. n - 1 : \E h \in 1 .. n : h # i /\ b[j] = a[h] /\ p[j] = q[h]
    /\ \A h \in 1 .. n : h # i => \E j \in 1 .. n - 1 : b[j] = a[h] /\ p[j] = q[h]
LEMMA CutKeeps ==
    ASSUME NEW a, NEW q, NEW n \in Nat, NEW i \in 1 .. n
    PROVE  CutHas(a, q, n, i, Cut(a, n, i), Cut(q, n, i))
<1> DEFINE b == Cut(a, n, i)
           p == Cut(q, n, i)
<1>1. ASSUME NEW j \in 1 .. n - 1 PROVE \E h \in 1 .. n : h # i /\ b[j] = a[h] /\ p[j] = q[h]
  <2>1. PICK h \in 1 .. n : h = IF j < i THEN j ELSE j + 1
    OBVIOUS
  <2>2. h # i
    BY <2>1
  <2>3. b[j] = a[h] /\ p[j] = q[h]
    BY <2>1 DEF Cut
  <2> QED BY <2>2, <2>3
<1>2. ASSUME NEW h \in 1 .. n, h # i PROVE \E j \in 1 .. n - 1 : b[j] = a[h] /\ p[j] = q[h]
  <2>1. PICK j \in 1 .. n - 1 : j = IF h < i THEN h ELSE h - 1
    BY <1>2
  <2>2. (j < i => h = j) /\ (~(j < i) => h = j + 1)
    BY <1>2, <2>1
  <2>3. b[j] = (IF j < i THEN a[j] ELSE a[j + 1]) /\ p[j] = (IF j < i THEN q[j] ELSE q[j + 1])
    BY DEF Cut
  <2> QED BY <2>2, <2>3
<1> QED BY <1>1, <1>2 DEF CutHas

PushHas(a, q, n, x, y, b, p) ==
    /\ 1 \in 1 .. n + 1 /\ b[1] = x /\ p[1] = y
    /\ \A j \in 1 .. n + 1 : (b[j] = x /\ p[j] = y) \/ \E h \in 1 .. n : b[j] = a[h] /\ p[j] = q[h]
    /\ \A h \in 1 .. n : \E j \in 1 .. n + 1 : b[j] = a[h] /\ p[j] = q[h]
LEMMA PushKeeps ==
    ASSUME NEW a, NEW q, NEW n \in Nat, NEW x, NEW y
    PROVE  PushHas(a, q, n, x, y, Push(a, n, x), Push(q, n, y))
<1> DEFINE b == Push(a, n, x)
           p == Push(q, n, y)
<1>1. 1 \in 1 .. n + 1 /\ b[1] = x /\ p[1] = y
  BY DEF Push
<1>2. ASSUME NEW j \in 1 .. n + 1, j # 1 PROVE \E h \in 1 .. n : b[j] = a[h] /\ p[j] = q[h]
  <2>1. PICK h \in 1 .. n : h = j - 1
    BY <1>2
  <2> QED BY <1>2, <2>1 DEF Push
<1>3. ASSUME NEW h \in 1 .. n PROVE \E j \in 1 .. n + 1 : b[j] = a[h] /\ p[j] = q[h]
  <2>1. PICK j \in 1 .. n + 1 : j = h + 1
    OBVIOUS
  <2>2. j # 1 /\ j - 1 = h
    BY <2>1
  <2> QED BY <2>2 DEF Push
<1> HIDE DEF b, p
<1>4. \A j \in 1 .. n + 1 : (b[j] = x /\ p[j] = y) \/ \E h \in 1 .. n : b[j] = a[h] /\ p[j] = q[h]
  BY <1>1, <1>2
<1> QED BY <1>1, <1>3, <1>4 DEF b, p, PushHas

\* A node that is used goes to the head.
LEMMA TouchKeeps ==
    ASSUME NEW c, NEW a, NEW q, NEW n, Keeps(c, a, q, n), NEW i \in 1 .. n
    PROVE  Keeps(AddToListHead(RemoveFromList(c, a[i]), a[i]), Push(Cut(a, n, i), n - 1, a[i]), Push(Cut(q, n, i), n - 1, q[i]), n)
<1>1. c \in Caches /\ Lists(c, a, n) /\ Named(c, a, q, n) /\ Uses(c, a, n) /\ n \in Nat /\ n - 1 \in Nat /\ n - 1 + 1 = n
      /\ Injects(a, n)
  <2>1. c \in Caches /\ Lists(c, a, n) /\ Named(c, a, q, n) /\ Uses(c, a, n)
    BY DEF Keeps
  <2>2. Injects(a, n) /\ n \in Nat
    BY <2>1 DEF Lists, Injects
  <2> QED BY <2>1, <2>2
<1>2. PICK x \in Nodes : x = a[i]
  BY <1>1 DEF Injects
<1>3. PICK m \in Nat : m = n - 1 /\ m + 1 = n
  BY <1>1
<1>4. PICK d, e, b, p, f, g :
         /\ d = RemoveFromList(c, x) /\ e = AddToListHead(d, x)
         /\ b = Cut(a, n, i) /\ p = Cut(q, n, i) /\ f = Push(b, m, x) /\ g = Push(p, m, q[i])
  OBVIOUS
<1>5. d \in Caches /\ SameNodes(d, c)
  BY <1>1, <1>4, RemoveIs
<1>6. e \in Caches /\ SameNodes(e, d)
  BY <1>4, <1>5, AddIs
<1>7. Lists(d, b, m)
  BY <1>1, <1>2, <1>3, <1>4, RemoveLists
<1>8. NotIn(x, b, m)
  BY <1>1, <1>2, <1>3, <1>4, CutIs DEF NotIn
<1>9. Lists(e, f, n)
  <2>1. Lists(AddToListHead(d, x), Push(b, m, x), m + 1)
    BY <1>5, <1>7, <1>8, AddLists
  <2> QED BY <1>3, <1>4, <2>1
<1>10. CutHas(a, q, n, i, b, p)
  BY <1>1, <1>4, CutKeeps
<1>11. PushHas(b, p, m, x, q[i], f, g)
  BY <1>3, <1>4, PushKeeps
<1>12. \A j \in 1 .. n : \E h \in 1 .. n : f[j] = a[h] /\ g[j] = q[h]
  BY <1>2, <1>3, <1>10, <1>11 DEF CutHas, PushHas
<1>13. \A h \in 1 .. n : \E j \in 1 .. n : f[j] = a[h] /\ g[j] = q[h]
  <2> SUFFICES ASSUME NEW h \in 1 .. n PROVE \E j \in 1 .. n : f[j] = a[h] /\ g[j] = q[h]
    OBVIOUS
  <2>1. CASE h = i
    BY <1>2, <1>3, <1>11, <2>1 DEF PushHas
  <2>2. CASE h # i
    <3>1. PICK k \in 1 .. n - 1 : b[k] = a[h] /\ p[k] = q[h]
      BY <1>10, <2>2 DEF CutHas
    <3>2. PICK j \in 1 .. m + 1 : f[j] = b[k] /\ g[j] = p[k]
      BY <1>3, <1>11 DEF PushHas
    <3> QED BY <1>3, <3>1, <3>2
  <2> QED BY <2>1, <2>2
<1>14. e.map = c.map /\ e.key = c.key /\ e.data = c.data /\ e.used = c.used
  BY <1>5, <1>6 DEF SameNodes
<1>15. Named(e, f, g, n)
  <2>1. ASSUME NEW j \in 1 .. n
        PROVE  /\ g[j] \in Keys \X Values
               /\ e.key[f[j]] = g[j][1] /\ e.data[f[j]] = g[j][2] /\ e.map[g[j][1]] = f[j]
    <3>1. PICK h \in 1 .. n : f[j] = a[h] /\ g[j] = q[h]
      BY <1>12
    <3> QED BY <1>1, <1>14, <3>1 DEF Named
  <2>2. ASSUME NEW k \in Keys, e.map[k] # NULL PROVE \E j \in 1 .. n : g[j][1] = k
    <3>1. PICK h \in 1 .. n : q[h][1] = k
      BY <1>1, <1>14, <2>2 DEF Named
    <3> QED BY <1>13, <3>1
  <2> QED BY <2>1, <2>2 DEF Named
<1>16. Uses(e, f, n)
  BY <1>1, <1>12, <1>13, <1>14 DEF Uses
<1> QED BY <1>2, <1>3, <1>4, <1>6, <1>9, <1>15, <1>16 DEF Keeps

Entries == Keys \X Values
LEMMA RemoveAtIs ==
    ASSUME NEW r \in Seq(Entries), NEW n \in Nat, n = Len(r), NEW i \in 1 .. n
    PROVE  /\ RemoveAt(r, i) \in Seq(Entries) /\ Len(RemoveAt(r, i)) = n - 1
           /\ \A j \in 1 .. n - 1 : RemoveAt(r, i)[j] = Cut(r, n, i)[j]
<1>1. \A j \in 1 .. n : r[j] \in Entries
  BY ElementOfSeq
<1>2. PICK k \in Nat : k = i - 1 /\ k <= n - 1
  OBVIOUS
<1>3. PICK l \in Nat : l = n - i /\ k + l = n - 1
  <2>1. n - i \in Nat /\ k + (n - i) = n - 1
    BY <1>2
  <2> QED BY <2>1
<1>4. PICK s, t : s = SubSeq(r, 1, i - 1) /\ t = SubSeq(r, i + 1, n)
  OBVIOUS
<1>5. s \in Seq(Entries) /\ Len(s) = k /\ \A j \in 1 .. k : s[j] = r[j]
  <2>1. \A j \in 1 .. k : r[j] \in Entries /\ 1 + j - 1 = j
    BY <1>1, <1>2
  <2>2. /\ SubSeq(r, 1, k) \in Seq(Entries) /\ Len(SubSeq(r, 1, k)) = (IF 1 <= k THEN k - 1 + 1 ELSE 0)
        /\ \A j \in 1 .. k - 1 + 1 : SubSeq(r, 1, k)[j] = r[1 + j - 1]
    BY <2>1, SubSeqProperties
  <2>3. s = SubSeq(r, 1, k) /\ k - 1 + 1 = k
    BY <1>2, <1>4
  <2>4. Len(s) = k
    BY <2>2, <2>3
  <2> QED BY <2>1, <2>2, <2>3, <2>4
<1>6. t \in Seq(Entries) /\ Len(t) = l /\ \A j \in 1 .. l : t[j] = r[i + j]
  <2>1. PICK h \in Nat : h = i + 1
    OBVIOUS
  <2>2. (\A j \in h .. n : r[j] \in Entries) /\ \A j \in 1 .. l : h + j - 1 = i + j
    BY <1>1, <2>1
  <2>3. /\ SubSeq(r, h, n) \in Seq(Entries) /\ Len(SubSeq(r, h, n)) = (IF h <= n THEN n - h + 1 ELSE 0)
        /\ \A j \in 1 .. n - h + 1 : SubSeq(r, h, n)[j] = r[h + j - 1]
    BY <2>2, SubSeqProperties
  <2>4. t = SubSeq(r, h, n) /\ n - h + 1 = l
    BY <1>3, <1>4, <2>1
  <2>5. Len(t) = l
    BY <2>1, <2>3, <2>4
  <2> QED BY <2>2, <2>3, <2>4, <2>5
<1>7. RemoveAt(r, i) = s \o t
  BY <1>4 DEF RemoveAt
<1>8. /\ s \o t \in Seq(Entries) /\ Len(s \o t) = k + l
      /\ \A j \in 1 .. k + l : (s \o t)[j] = IF j <= k THEN s[j] ELSE t[j - k]
  <2>1. /\ s \o t \in Seq(Entries) /\ Len(s \o t) = Len(s) + Len(t)
        /\ \A j \in 1 .. Len(s) + Len(t) : (s \o t)[j] = IF j <= Len(s) THEN s[j] ELSE t[j - Len(s)]
    BY <1>5, <1>6, ConcatProperties
  <2> QED BY <1>5, <1>6, <2>1
<1>9. ASSUME NEW j \in 1 .. n - 1 PROVE (s \o t)[j] = Cut(r, n, i)[j]
  <2>1. CASE j <= k
    <3>1. j < i /\ j \in 1 .. k
      BY <1>2, <2>1
    <3>2. (s \o t)[j] = s[j]
      BY <1>3, <1>8, <2>1
    <3> QED BY <1>5, <3>1, <3>2 DEF Cut
  <2>2. CASE ~(j <= k)
    <3>1. PICK h \in 1 .. l : h = j - k
      BY <1>3, <2>2
    <3>2. (s \o t)[j] = t[h] /\ i + h = j + 1 /\ ~(j < i)
      BY <1>2, <1>3, <1>8, <2>2, <3>1
    <3> QED BY <1>6, <3>2 DEF Cut
  <2> QED BY <2>1, <2>2
<1> QED BY <1>3, <1>7, <1>8, <1>9

LEMMA ConsIs ==
    ASSUME NEW r \in Seq(Entries), NEW n \in Nat, n = Len(r), NEW x \in Entries
    PROVE  /\ <<x>> \o r \in Seq(Entries) /\ Len(<<x>> \o r) = n + 1
           /\ \A j \in 1 .. n + 1 : (<<x>> \o r)[j] = Push(r, n, x)[j]
<1>1. <<x>> \in Seq(Entries) /\ Len(<<x>>) = 1 /\ <<x>>[1] = x
  OBVIOUS
<1>2. /\ <<x>> \o r \in Seq(Entries) /\ Len(<<x>> \o r) = 1 + n
      /\ \A j \in 1 .. 1 + n : (<<x>> \o r)[j] = IF j <= 1 THEN <<x>>[j] ELSE r[j - 1]
  <2> PICK e : e = <<x>>
    OBVIOUS
  <2>1. /\ e \o r \in Seq(Entries) /\ Len(e \o r) = Len(e) + Len(r)
        /\ \A j \in 1 .. Len(e) + Len(r) : (e \o r)[j] = IF j <= Len(e) THEN e[j] ELSE r[j - Len(e)]
    BY <1>1, ConcatProperties
  <2> QED BY <1>1, <2>1
<1>3. \A j \in 1 .. n + 1 : (j <= 1 <=> j = 1) /\ j \in 1 .. 1 + n
  OBVIOUS
<1> QED BY <1>1, <1>2, <1>3 DEF Push

LEMMA PrefixIs ==
    ASSUME NEW r \in Seq(Entries), NEW n \in Nat, n <= Len(r)
    PROVE  SubSeq(r, 1, n) \in Seq(Entries) /\ Len(SubSeq(r, 1, n)) = n /\ \A j \in 1 .. n : SubSeq(r, 1, n)[j] = r[j]
<1>1. \A j \in 1 .. n : r[j] \in Entries /\ 1 + j - 1 = j
  BY ElementOfSeq, LenProperties
<1>2. /\ SubSeq(r, 1, n) \in Seq(Entries) /\ Len(SubSeq(r, 1, n)) = (IF 1 <= n THEN n - 1 + 1 ELSE 0)
      /\ \A j \in 1 .. n - 1 + 1 : SubSeq(r, 1, n)[j] = r[1 + j - 1]
  BY <1>1, SubSeqProperties
<1>3. Len(SubSeq(r, 1, n)) = n /\ n - 1 + 1 = n
  BY <1>2
<1> QED BY <1>1, <1>2, <1>3

LEMMA SameEntries ==
    ASSUME NEW c, NEW a, NEW q, NEW n, Keeps(c, a, q, n), NEW p, \A i \in 1 .. n : p[i] = q[i]
    PROVE  Keeps(c, a, p, n)
BY DEF Keeps, Named

LEMMA IsKept == ASSUME NEW c, NEW r \in Seq(Entries), NEW a, NEW n, n = Len(r), Keeps(c, a, r, n) PROVE CacheIs(c, r)
BY DEF CacheIs, Entries

\* The entry of a key is where IndexOf says.
EntryAt(c, a, r, k, i) ==
    c.map[k] = a[i] /\ r[i][1] = k /\ Without(r, k) = RemoveAt(r, i) /\ Held(r, k) = r[i]
LEMMA Finds ==
    ASSUME NEW c, NEW r \in Seq(Entries), NEW a, NEW n, n = Len(r), Keeps(c, a, r, n), NEW k \in Keys
    PROVE  /\ c.map[k] = NULL => Without(r, k) = r
           /\ c.map[k] # NULL => \E i \in 1 .. n : EntryAt(c, a, r, k, i)
<1>1. /\ Named(c, a, r, n) /\ a \in [1 .. n -> Nodes] /\ \A i, j \in 1 .. n : a[i] = a[j] => i = j
  BY DEF Keeps, Lists, Injects
<1>2. c.map[k] = NULL <=> ~\E i \in 1 .. n : r[i][1] = k
  <2>1. c.map[k] # NULL => \E i \in 1 .. n : r[i][1] = k
    BY <1>1 DEF Named
  <2>2. ASSUME NEW i \in 1 .. n, r[i][1] = k PROVE c.map[k] # NULL
    <3>1. c.map[k] = a[i] /\ a[i] \in Nodes
      BY <1>1, <2>2 DEF Named
    <3> QED BY <3>1, NullIsNoNode
  <2> QED BY <2>1, <2>2
<1>3. CASE c.map[k] = NULL
  BY <1>2, <1>3 DEF Without
<1>4. CASE c.map[k] # NULL
  <2>1. IndexOf(r, k) \in 1 .. n /\ r[IndexOf(r, k)][1] = k
    BY <1>2, <1>4 DEF IndexOf
  <2>2. c.map[k] = a[IndexOf(r, k)]
    BY <1>1, <2>1 DEF Named
  <2>3. Without(r, k) = RemoveAt(r, IndexOf(r, k))
    BY <2>1 DEF Without
  <2>4. EntryAt(c, a, r, k, IndexOf(r, k))
    BY <2>1, <2>2, <2>3 DEF EntryAt, Held
  <2> QED BY <1>4, <2>1, <2>4
<1> QED BY <1>3, <1>4

\* An entry that leaves the map and its node leave the others as they were.
LEMMA CutNamed ==
    ASSUME NEW c \in Caches, NEW a, NEW q, NEW n, Named(c, a, q, n), Uses(c, a, n), Injects(a, n),
           NEW i \in 1 .. n, NEW x, x = a[i], NEW k \in Keys, k = q[i][1],
           NEW g, g.map = [c.map EXCEPT ![k] = NULL], g.used = c.used \ {x},
           \A m \in Nodes \ {x} : g.key[m] = c.key[m] /\ g.data[m] = c.data[m]
    PROVE  Named(g, Cut(a, n, i), Cut(q, n, i), n - 1) /\ Uses(g, Cut(a, n, i), n - 1)
<1>1. n \in Nat
  BY DEF Injects
<1>2. c.map[k] = x /\ x \in Nodes
  BY DEF Named, Injects
<1>3. PICK b, p : b = Cut(a, n, i) /\ p = Cut(q, n, i)
  OBVIOUS
<1>11. CutHas(a, q, n, i, b, p)
  BY <1>1, <1>3, CutKeeps
<1>12. \A h \in 1 .. n : h # i => a[h] \in Nodes \ {x} /\ q[h][1] # k
  <2> SUFFICES ASSUME NEW h \in 1 .. n, h # i PROVE a[h] \in Nodes \ {x} /\ q[h][1] # k
    OBVIOUS
  <2>1. a[h] \in Nodes /\ a[h] # a[i]
    BY DEF Injects
  <2>2. c.map[q[h][1]] = a[h]
    BY DEF Named
  <2> QED BY <1>2, <2>1, <2>2
<1>m. c.map \in [Keys -> OrNull(Nodes)]
  BY CacheHas
<1>13. Named(g, b, p, n - 1)
  <2>1. ASSUME NEW j \in 1 .. n - 1
        PROVE  /\ p[j] \in Keys \X Values
               /\ g.key[b[j]] = p[j][1] /\ g.data[b[j]] = p[j][2] /\ g.map[p[j][1]] = b[j]
    <3>1. PICK h \in 1 .. n : h # i /\ b[j] = a[h] /\ p[j] = q[h]
      BY <1>11 DEF CutHas
    <3>2. /\ q[h] \in Keys \X Values /\ c.key[a[h]] = q[h][1] /\ c.data[a[h]] = q[h][2] /\ c.map[q[h][1]] = a[h]
      BY DEF Named
    <3>3. g.map[q[h][1]] = a[h]
      BY <1>12, <1>m, <3>1, <3>2
    <3> QED BY <1>12, <3>1, <3>2, <3>3
  <2>2. ASSUME NEW l \in Keys, g.map[l] # NULL PROVE \E j \in 1 .. n - 1 : p[j][1] = l
    <3>1. l # k /\ c.map[l] # NULL
      BY <1>m, <2>2
    <3>2. PICK h \in 1 .. n : q[h][1] = l
      BY <3>1 DEF Named
    <3>3. PICK j \in 1 .. n - 1 : p[j] = q[h]
      BY <1>11, <3>1, <3>2 DEF CutHas
    <3> QED BY <3>2, <3>3
  <2> QED BY <2>1, <2>2 DEF Named
<1>14. Uses(g, b, n - 1)
  <2>1. ASSUME NEW m \in Nodes PROVE m \in g.used <=> \E j \in 1 .. n - 1 : b[j] = m
    <3>1. m \in g.used <=> m # x /\ \E h \in 1 .. n : a[h] = m
      BY DEF Uses
    <3>2. ASSUME m # x, NEW h \in 1 .. n, a[h] = m PROVE \E j \in 1 .. n - 1 : b[j] = m
      BY <1>2, <1>11, <3>2 DEF CutHas
    <3>3. ASSUME NEW j \in 1 .. n - 1, b[j] = m PROVE m # x /\ \E h \in 1 .. n : a[h] = m
      BY <1>11, <1>12, <3>3 DEF CutHas
    <3> QED BY <3>1, <3>2, <3>3
  <2> QED BY <2>1 DEF Uses
<1> QED BY <1>3, <1>13, <1>14

\* A node is taken out of the list and deleted.
LEMMA RemovedKeeps ==
    ASSUME NEW c, NEW a, NEW q, NEW n, Keeps(c, a, q, n), NEW i \in 1 .. n, NEW k \in Keys, k = q[i][1]
    PROVE  Keeps(Removed(c, k), Cut(a, n, i), Cut(q, n, i), n - 1)
<1>1. c \in Caches /\ Lists(c, a, n) /\ Named(c, a, q, n) /\ Uses(c, a, n) /\ n \in Nat /\ Injects(a, n)
  BY DEF Keeps, Lists, Injects
<1>2. PICK x \in Nodes : x = a[i] /\ c.map[k] = x
  BY <1>1 DEF Injects, Named
<1>3. PICK d, e, g, b, p :
         /\ d = RemoveFromList(c, x) /\ e = Deleted(d, x) /\ g = [e EXCEPT !.map[k] = NULL]
         /\ b = Cut(a, n, i) /\ p = Cut(q, n, i)
  OBVIOUS
<1>4. d \in Caches /\ SameNodes(d, c)
  BY <1>1, <1>3, RemoveIs
<1>5. Lists(d, b, n - 1)
  BY <1>1, <1>2, <1>3, RemoveLists
<1>6. NotIn(x, b, n - 1)
  BY <1>1, <1>2, <1>3, CutIs DEF NotIn
<1>7. Lists(e, b, n - 1)
  BY <1>3, <1>4, <1>5, <1>6, DeletedLists
<1>8. /\ e \in Caches /\ e.map = c.map /\ e.used = c.used \ {x}
      /\ \A m \in Nodes \ {x} : e.key[m] = c.key[m] /\ e.data[m] = c.data[m]
  BY <1>3, <1>4, DeletedIs DEF SameNodes
<1>9. /\ g \in Caches /\ g.map = [c.map EXCEPT ![k] = NULL] /\ g.used = e.used /\ g.key = e.key /\ g.data = e.data
      /\ g.next = e.next /\ g.prev = e.prev /\ g.pstHead = e.pstHead /\ g.pstTail = e.pstTail /\ g.m_dwSize = e.m_dwSize
  <2>1. e = [y \in Fields |-> e[y]]
    BY <1>8, CacheHas
  <2>2. /\ g = [y \in Fields |-> g[y]] /\ g.map = [e.map EXCEPT ![k] = NULL] /\ g.used = e.used /\ g.key = e.key /\ g.data = e.data
        /\ g.next = e.next /\ g.prev = e.prev /\ g.pstHead = e.pstHead /\ g.pstTail = e.pstTail /\ g.m_dwSize = e.m_dwSize
        /\ g.age = e.age /\ g.expire = e.expire
    BY <1>3, <2>1 DEF Fields
  <2>3. [e.map EXCEPT ![k] = NULL] \in [Keys -> OrNull(Nodes)]
    BY <1>8, CacheHas DEF OrNull
  <2>4. g \in Caches
    <3>1. /\ g.key \in [Nodes -> OrNull(Keys)] /\ g.data \in [Nodes -> OrNull(Values)]
          /\ g.age \in [Nodes -> Nat] /\ g.expire \in [Nodes -> Nat]
          /\ g.next \in [Nodes -> OrNull(Nodes)] /\ g.prev \in [Nodes -> OrNull(Nodes)]
          /\ g.pstHead \in OrNull(Nodes) /\ g.pstTail \in OrNull(Nodes) /\ g.m_dwSize \in Int /\ g.used \in SUBSET Nodes
      BY <1>8, <2>2, CacheHas
    <3>2. g.map \in [Keys -> OrNull(Nodes)]
      BY <2>2, <2>3
    <3> QED BY <2>2, <3>1, <3>2, MakesCache
  <2> QED BY <1>8, <2>2, <2>4
<1>10. Lists(g, b, n - 1)
  BY <1>7, <1>9 DEF Lists
<1>11. Named(g, b, p, n - 1) /\ Uses(g, b, n - 1)
  <2>1. g.used = c.used \ {x} /\ \A m \in Nodes \ {x} : g.key[m] = c.key[m] /\ g.data[m] = c.data[m]
    BY <1>8, <1>9
  <2>2. g.map = [c.map EXCEPT ![k] = NULL]
    BY <1>9
  <2>3. Named(g, Cut(a, n, i), Cut(q, n, i), n - 1) /\ Uses(g, Cut(a, n, i), n - 1)
    BY <1>1, <1>2, <2>1, <2>2, CutNamed
  <2> QED BY <1>3, <2>3
<1>12. Removed(c, k) = g
  BY <1>2, <1>3 DEF Removed
<1> QED BY <1>3, <1>9, <1>10, <1>11, <1>12 DEF Keeps

LEMMA StoredIs ==
    ASSUME NEW c \in Caches, NEW x \in Nodes, NEW v \in Values, NEW t \in Nat
    PROVE  LET d == Stored(c, x, v, t)
           IN /\ d \in Caches /\ d.map = c.map /\ d.used = c.used /\ d.key = c.key /\ d.data = [c.data EXCEPT ![x] = v]
              /\ d.next = c.next /\ d.prev = c.prev /\ d.pstHead = c.pstHead /\ d.pstTail = c.pstTail /\ d.m_dwSize = c.m_dwSize
<1>1. PICK d : d = Stored(c, x, v, t)
  OBVIOUS
<1>2. c = [y \in Fields |-> c[y]]
  BY CacheHas
<1>3. /\ d = [y \in Fields |-> d[y]] /\ d.map = c.map /\ d.used = c.used /\ d.key = c.key /\ d.data = [c.data EXCEPT ![x] = v]
      /\ d.next = c.next /\ d.prev = c.prev /\ d.pstHead = c.pstHead /\ d.pstTail = c.pstTail /\ d.m_dwSize = c.m_dwSize
      /\ d.age = [c.age EXCEPT ![x] = 0] /\ d.expire = [c.expire EXCEPT ![x] = t]
  BY <1>1, <1>2 DEF Stored, Fields
<1>4. /\ [c.data EXCEPT ![x] = v] \in [Nodes -> OrNull(Values)] /\ [c.age EXCEPT ![x] = 0] \in [Nodes -> Nat]
      /\ [c.expire EXCEPT ![x] = t] \in [Nodes -> Nat]
  BY CacheHas DEF OrNull
<1>5. d \in Caches
  BY <1>3, <1>4, CacheHas, MakesCache
<1> QED BY <1>1, <1>3, <1>5

\* Only the data, age and expire of a node change.
LEMMA StoredKeeps ==
    ASSUME NEW c, NEW a, NEW q, NEW n, Keeps(c, a, q, n), NEW i \in 1 .. n, NEW v \in Values, NEW t \in Nat, NEW p,
           p[i] = <<q[i][1], v>>, \A j \in 1 .. n : j # i => p[j] = q[j]
    PROVE  Keeps(Stored(c, a[i], v, t), a, p, n)
<1>1. c \in Caches /\ Lists(c, a, n) /\ Named(c, a, q, n) /\ Uses(c, a, n) /\ n \in Nat /\ Injects(a, n)
  BY DEF Keeps, Lists, Injects
<1>2. PICK x \in Nodes : x = a[i] /\ \A j \in 1 .. n : j # i => a[j] # x
  BY <1>1 DEF Injects
<1>3. PICK d : d = Stored(c, x, v, t)
  OBVIOUS
<1>4. /\ d \in Caches /\ d.map = c.map /\ d.used = c.used /\ d.key = c.key /\ d.data = [c.data EXCEPT ![x] = v]
      /\ d.next = c.next /\ d.prev = c.prev /\ d.pstHead = c.pstHead /\ d.pstTail = c.pstTail /\ d.m_dwSize = c.m_dwSize
  BY <1>1, <1>3, StoredIs
<1>5. c.data \in [Nodes -> OrNull(Values)] /\ a \in [1 .. n -> Nodes]
  BY <1>1, CacheHas DEF Injects
<1>6. Lists(d, a, n) /\ Uses(d, a, n)
  BY <1>1, <1>4 DEF Lists, Uses
<1>7. Named(d, a, p, n)
  <2>1. ASSUME NEW j \in 1 .. n
        PROVE  /\ p[j] \in Keys \X Values /\ p[j][1] = q[j][1]
               /\ d.key[a[j]] = p[j][1] /\ d.data[a[j]] = p[j][2] /\ d.map[p[j][1]] = a[j]
    <3>1. q[j] \in Keys \X Values /\ c.key[a[j]] = q[j][1] /\ c.data[a[j]] = q[j][2] /\ c.map[q[j][1]] = a[j]
      BY <1>1 DEF Named
    <3>2. CASE j = i
      <4>1. p[j] \in Keys \X Values /\ p[j][1] = q[j][1] /\ p[j][2] = v
        BY <3>1, <3>2
      <4>2. d.data[a[j]] = v
        BY <1>2, <1>4, <1>5, <3>2
      <4> QED BY <1>4, <3>1, <4>1, <4>2
    <3>3. CASE j # i
      <4>1. d.data[a[j]] = c.data[a[j]]
        BY <1>2, <1>4, <1>5, <3>3
      <4> QED BY <1>4, <3>1, <3>3, <4>1
    <3> QED BY <3>2, <3>3
  <2>2. ASSUME NEW l \in Keys, d.map[l] # NULL PROVE \E j \in 1 .. n : p[j][1] = l
    BY <1>1, <1>4, <2>1, <2>2 DEF Named
  <2> QED BY <2>1, <2>2 DEF Named
<1> QED BY <1>2, <1>3, <1>4, <1>6, <1>7 DEF Keeps

\* The node is made and put in front.
LEMMA NewKeeps ==
    ASSUME NEW c, NEW a, NEW q, NEW n, Keeps(c, a, q, n), NEW k \in Keys, c.map[k] = NULL,
           NEW x \in Nodes, x \notin c.used, NEW v \in Values, NEW t \in Nat
    PROVE  Keeps([AddToListHead([Stored(c, x, v, t) EXCEPT !.key[x] = k, !.used = @ \cup {x}], x) EXCEPT !.map[k] = x],
                 Push(a, n, x), Push(q, n, <<k, v>>), n + 1)
<1>1. c \in Caches /\ Lists(c, a, n) /\ Named(c, a, q, n) /\ Uses(c, a, n) /\ n \in Nat /\ Injects(a, n)
  BY DEF Keeps, Lists, Injects
<1>2. PICK d, e, f, g, b, p :
         /\ d = Stored(c, x, v, t) /\ e = [d EXCEPT !.key[x] = k, !.used = @ \cup {x}]
         /\ f = AddToListHead(e, x) /\ g = [f EXCEPT !.map[k] = x] /\ b = Push(a, n, x) /\ p = Push(q, n, <<k, v>>)
  OBVIOUS
<1>3. /\ d \in Caches /\ d.map = c.map /\ d.used = c.used /\ d.key = c.key /\ d.data = [c.data EXCEPT ![x] = v]
      /\ d.next = c.next /\ d.prev = c.prev /\ d.pstHead = c.pstHead /\ d.pstTail = c.pstTail /\ d.m_dwSize = c.m_dwSize
  BY <1>1, <1>2, StoredIs
<1>4. /\ e \in Caches /\ e.map = c.map /\ e.used = c.used \cup {x} /\ e.key = [c.key EXCEPT ![x] = k]
      /\ e.data = [c.data EXCEPT ![x] = v]
      /\ e.next = c.next /\ e.prev = c.prev /\ e.pstHead = c.pstHead /\ e.pstTail = c.pstTail /\ e.m_dwSize = c.m_dwSize
  <2>1. d = [y \in Fields |-> d[y]]
    BY <1>3, CacheHas
  <2>2. /\ e = [y \in Fields |-> e[y]] /\ e.map = d.map /\ e.used = d.used \cup {x} /\ e.key = [d.key EXCEPT ![x] = k]
        /\ e.data = d.data /\ e.next = d.next /\ e.prev = d.prev /\ e.pstHead = d.pstHead /\ e.pstTail = d.pstTail
        /\ e.m_dwSize = d.m_dwSize /\ e.age = d.age /\ e.expire = d.expire
    BY <1>2, <2>1 DEF Fields
  <2>3. [d.key EXCEPT ![x] = k] \in [Nodes -> OrNull(Keys)] /\ d.used \cup {x} \in SUBSET Nodes
    BY <1>3, CacheHas DEF OrNull
  <2>4. e \in Caches
    <3>1. /\ e.map \in [Keys -> OrNull(Nodes)] /\ e.data \in [Nodes -> OrNull(Values)]
          /\ e.age \in [Nodes -> Nat] /\ e.expire \in [Nodes -> Nat]
          /\ e.next \in [Nodes -> OrNull(Nodes)] /\ e.prev \in [Nodes -> OrNull(Nodes)]
          /\ e.pstHead \in OrNull(Nodes) /\ e.pstTail \in OrNull(Nodes) /\ e.m_dwSize \in Int
      BY <1>3, <2>2, CacheHas
    <3>2. e.key \in [Nodes -> OrNull(Keys)] /\ e.used \in SUBSET Nodes
      BY <2>2, <2>3
    <3> QED BY <2>2, <3>1, <3>2, MakesCache
  <2> QED BY <1>3, <2>2, <2>4
<1>5. NotIn(x, a, n) /\ \A i \in 1 .. n : a[i] \in Nodes
  BY <1>1 DEF Uses, NotIn, Injects
<1>6. Lists(e, a, n)
  BY <1>1, <1>4 DEF Lists
<1>7. Lists(f, b, n + 1)
  BY <1>2, <1>4, <1>5, <1>6, AddLists
<1>8. f \in Caches /\ SameNodes(f, e)
  BY <1>2, <1>4, AddIs
<1>9. /\ g \in Caches /\ g.map = [c.map EXCEPT ![k] = x] /\ g.used = c.used \cup {x} /\ g.key = e.key /\ g.data = e.data
      /\ g.next = f.next /\ g.prev = f.prev /\ g.pstHead = f.pstHead /\ g.pstTail = f.pstTail /\ g.m_dwSize = f.m_dwSize
  <2>1. f = [y \in Fields |-> f[y]]
    BY <1>8, CacheHas
  <2>2. /\ g = [y \in Fields |-> g[y]] /\ g.map = [f.map EXCEPT ![k] = x] /\ g.used = f.used /\ g.key = f.key /\ g.data = f.data
        /\ g.next = f.next /\ g.prev = f.prev /\ g.pstHead = f.pstHead /\ g.pstTail = f.pstTail /\ g.m_dwSize = f.m_dwSize
        /\ g.age = f.age /\ g.expire = f.expire
    BY <1>2, <2>1 DEF Fields
  <2>3. [f.map EXCEPT ![k] = x] \in [Keys -> OrNull(Nodes)]
    BY <1>8, CacheHas DEF OrNull
  <2>4. g \in Caches
    BY <1>8, <2>2, <2>3, CacheHas, MakesCache
  <2> QED BY <1>4, <1>8, <2>2, <2>4 DEF SameNodes
<1>10. Lists(g, b, n + 1)
  BY <1>7, <1>9 DEF Lists
<1>11. PushHas(a, q, n, x, <<k, v>>, b, p)
  BY <1>1, <1>2, PushKeeps
<1>12. c.map \in [Keys -> OrNull(Nodes)] /\ c.key \in [Nodes -> OrNull(Keys)] /\ c.data \in [Nodes -> OrNull(Values)]
  BY <1>1, CacheHas
<1>13. g.map[k] = x /\ g.key[x] = k /\ g.data[x] = v
  BY <1>4, <1>9, <1>12
<1>14. Named(g, b, p, n + 1)
  <2>1. ASSUME NEW j \in 1 .. n + 1
        PROVE  /\ p[j] \in Keys \X Values
               /\ g.key[b[j]] = p[j][1] /\ g.data[b[j]] = p[j][2] /\ g.map[p[j][1]] = b[j]
    <3>1. CASE b[j] = x /\ p[j] = <<k, v>>
      BY <1>13, <3>1
    <3>2. ASSUME NEW h \in 1 .. n, b[j] = a[h], p[j] = q[h]
          PROVE  /\ p[j] \in Keys \X Values
                 /\ g.key[b[j]] = p[j][1] /\ g.data[b[j]] = p[j][2] /\ g.map[p[j][1]] = b[j]
      <4>1. q[h] \in Keys \X Values /\ c.key[a[h]] = q[h][1] /\ c.data[a[h]] = q[h][2] /\ c.map[q[h][1]] = a[h]
        BY <1>1 DEF Named
      <4>2. a[h] \in Nodes /\ a[h] # x /\ q[h][1] \in Keys /\ q[h][1] # k
        BY <1>5, <4>1, NullIsNoNode DEF NotIn
      <4>3. g.key[a[h]] = q[h][1] /\ g.data[a[h]] = q[h][2] /\ g.map[q[h][1]] = a[h]
        BY <1>4, <1>9, <1>12, <4>1, <4>2
      <4> QED BY <3>2, <4>1, <4>3
    <3> QED BY <1>11, <3>1, <3>2 DEF PushHas
  <2>2. ASSUME NEW l \in Keys, g.map[l] # NULL PROVE \E j \in 1 .. n + 1 : p[j][1] = l
    <3>1. CASE l = k
      BY <1>11, <3>1 DEF PushHas
    <3>2. CASE l # k
      <4>1. c.map[l] # NULL
        BY <1>9, <1>12, <2>2, <3>2
      <4>2. PICK h \in 1 .. n : q[h][1] = l
        BY <1>1, <4>1 DEF Named
      <4>3. PICK j \in 1 .. n + 1 : p[j] = q[h]
        BY <1>11 DEF PushHas
      <4> QED BY <4>2, <4>3
    <3> QED BY <3>1, <3>2
  <2> QED BY <2>1, <2>2 DEF Named
<1>15. Uses(g, b, n + 1)
  <2>1. ASSUME NEW m \in Nodes PROVE m \in g.used <=> \E j \in 1 .. n + 1 : b[j] = m
    <3>1. m \in g.used <=> m = x \/ \E h \in 1 .. n : a[h] = m
      BY <1>1, <1>9 DEF Uses
    <3> QED BY <1>11, <3>1 DEF PushHas
  <2> QED BY <2>1 DEF Uses
<1> QED BY <1>2, <1>9, <1>10, <1>14, <1>15 DEF Keeps

\* One node thrown away from the tail, when it is not the last.
LEMMA EvictOneKeeps ==
    ASSUME NEW c, NEW a, NEW q, NEW n, Keeps(c, a, q, n), n > 1
    PROVE  Keeps(EvictOne(c), Cut(a, n, n), q, n - 1)
<1>1. c \in Caches /\ Lists(c, a, n) /\ Named(c, a, q, n) /\ Uses(c, a, n) /\ n \in Nat /\ Injects(a, n) /\ n \in 1 .. n
  BY DEF Keeps, Lists, Injects
<1>2. PICK x \in Nodes, k \in Keys : x = a[n] /\ k = q[n][1] /\ c.key[x] = k /\ c.pstTail = x /\ x # NULL
  <2>1. a[n] \in Nodes /\ c.pstTail = a[n]
    BY <1>1 DEF Injects, Lists, Nth
  <2>2. q[n] \in Keys \X Values /\ c.key[a[n]] = q[n][1]
    BY <1>1 DEF Named
  <2>3. q[n][1] \in Keys
    BY <2>2
  <2> QED BY <2>1, <2>2, <2>3, NullIsNoNode
<1>3. PICK d, g, b, p : /\ d = [c EXCEPT !.map[k] = NULL] /\ g = RemoveFromListTail(d)
                        /\ b = Cut(a, n, n) /\ p = Cut(q, n, n)
  OBVIOUS
<1>4. /\ d \in Caches /\ d.map = [c.map EXCEPT ![k] = NULL] /\ d.used = c.used /\ d.key = c.key /\ d.data = c.data
      /\ d.next = c.next /\ d.prev = c.prev /\ d.pstHead = c.pstHead /\ d.pstTail = c.pstTail /\ d.m_dwSize = c.m_dwSize
  <2>1. c = [y \in Fields |-> c[y]]
    BY <1>1, CacheHas
  <2>2. /\ d = [y \in Fields |-> d[y]] /\ d.map = [c.map EXCEPT ![k] = NULL] /\ d.used = c.used /\ d.key = c.key /\ d.data = c.data
        /\ d.next = c.next /\ d.prev = c.prev /\ d.pstHead = c.pstHead /\ d.pstTail = c.pstTail /\ d.m_dwSize = c.m_dwSize
        /\ d.age = c.age /\ d.expire = c.expire
    BY <1>3, <2>1 DEF Fields
  <2>3. [c.map EXCEPT ![k] = NULL] \in [Keys -> OrNull(Nodes)]
    BY <1>1, CacheHas DEF OrNull
  <2>4. d \in Caches
    BY <1>1, <2>2, <2>3, CacheHas, MakesCache
  <2> QED BY <2>2, <2>4
<1>5. Lists(d, a, n)
  BY <1>1, <1>4 DEF Lists
<1>6. Lists(g, b, n - 1)
  BY <1>3, <1>4, <1>5, TailLists
<1>7. PICK e \in Caches : g = Deleted(e, x) /\ SameNodes(e, d)
  BY <1>2, <1>3, <1>4, RemoveTailIs
<1>8. /\ g \in Caches /\ g.map = [c.map EXCEPT ![k] = NULL] /\ g.used = c.used \ {x}
      /\ \A m \in Nodes \ {x} : g.key[m] = c.key[m] /\ g.data[m] = c.data[m]
  BY <1>4, <1>7, DeletedIs DEF SameNodes
<1>9. Named(g, b, p, n - 1) /\ Uses(g, b, n - 1)
  <2>1. Named(g, Cut(a, n, n), Cut(q, n, n), n - 1) /\ Uses(g, Cut(a, n, n), n - 1)
    BY <1>1, <1>2, <1>8, CutNamed
  <2> QED BY <1>3, <2>1
<1>10. Keeps(g, b, p, n - 1)
  BY <1>6, <1>8, <1>9 DEF Keeps
<1>11. \A j \in 1 .. n - 1 : q[j] = p[j]
  <2>1. \A j \in 1 .. n - 1 : j < n
    BY <1>1
  <2> QED BY <1>3, <2>1 DEF Cut
<1>12. Keeps(g, b, q, n - 1)
  BY <1>10, <1>11, SameEntries
<1>13. EvictOne(c) = g
  BY <1>2, <1>3 DEF EvictOne
<1> QED BY <1>3, <1>12, <1>13

LEMMA CacheNumbers == CACHE_REMOVE_NUM \in Nat /\ CACHE_REMOVE_NUM > 0 /\ LruMaxSize \in Nat /\ CACHE_REMOVE_NUM <= LruMaxSize
BY LruCacheAssumption

\* The counts are those of the list.
LEMMA Counts ==
    ASSUME NEW c, NEW a, NEW q, NEW n, Keeps(c, a, q, n)
    PROVE  Cardinality(c.used) = n /\ IsFiniteSet(c.used) /\ Size(c) = n
<1>1. /\ n \in Nat /\ a \in [1 .. n -> Nodes] /\ (\A i, j \in 1 .. n : a[i] = a[j] => i = j) /\ c.used \subseteq Nodes
      /\ Named(c, a, q, n) /\ Uses(c, a, n)
  <2>1. c.used \in SUBSET Nodes
    BY CacheHas DEF Keeps
  <2> QED BY <2>1 DEF Keeps, Lists, Injects
<1>2. IsFiniteSet(1 .. n) /\ Cardinality(1 .. n) = n
  <2>1. IsFiniteSet(1 .. n) /\ Cardinality(1 .. n) = IF 1 > n THEN 0 ELSE n - 1 + 1
    BY <1>1, FS_Interval
  <2> QED BY <1>1, <2>1
<1>3. a \in Bijection(1 .. n, c.used)
  <2>1. a \in [1 .. n -> c.used]
    BY <1>1 DEF Uses
  <2>2. \A m \in c.used : \E i \in 1 .. n : a[i] = m
    BY <1>1 DEF Uses
  <2> QED BY <1>1, <2>1, <2>2 DEF Bijection, Injection, Surjection, IsInjective
<1>4. Cardinality(c.used) = n /\ IsFiniteSet(c.used)
  BY <1>2, <1>3, FS_Bijection DEF ExistsBijection
<1> DEFINE K == {k \in Keys : c.map[k] # NULL}
           f == [i \in 1 .. n |-> q[i][1]]
<1>5. f \in Bijection(1 .. n, K)
  <2>1. \A i \in 1 .. n : q[i][1] \in K /\ c.map[q[i][1]] = a[i]
    <3> SUFFICES ASSUME NEW i \in 1 .. n PROVE q[i][1] \in K /\ c.map[q[i][1]] = a[i]
      OBVIOUS
    <3>1. q[i] \in Keys \X Values /\ c.map[q[i][1]] = a[i] /\ a[i] \in Nodes
      BY <1>1 DEF Named
    <3> QED BY <3>1, NullIsNoNode
  <2>2. \A k \in K : \E i \in 1 .. n : q[i][1] = k
    BY <1>1 DEF Named
  <2> HIDE DEF K
  <2>3. f \in [1 .. n -> K] /\ (\A i, j \in 1 .. n : f[i] = f[j] => i = j) /\ \A k \in K : \E i \in 1 .. n : f[i] = k
    BY <1>1, <2>1, <2>2
  <2> HIDE DEF f
  <2> QED BY <2>3 DEF Bijection, Injection, Surjection, IsInjective
<1>6. Cardinality(K) = n
  <2> HIDE DEF f, K
  <2> QED BY <1>2, <1>5, FS_Bijection DEF ExistsBijection
<1> QED BY <1>4, <1>6 DEF Size

LEMMA TurnsExist ==
    ASSUME NEW c, NEW top \in Nat
    PROVE  \E f : f = [i \in 0 .. top |-> IF i = 0 THEN c ELSE EvictOne(f[i - 1])]
<1> DEFINE Turns(n, f) == f = [i \in 0 .. n |-> IF i = 0 THEN c ELSE EvictOne(f[i - 1])]
           S == {n \in Nat : \E f : Turns(n, f)}
<1>1. 0 \in S
  <2> DEFINE f == [i \in 0 .. 0 |-> c]
  <2>1. Turns(0, f)
    OBVIOUS
  <2> HIDE DEF f
  <2> QED BY <2>1
<1>2. ASSUME NEW n \in Nat, n \in S PROVE n + 1 \in S
  <2>1. PICK f : Turns(n, f)
    BY <1>2
  <2>2. DOMAIN f = 0 .. n /\ \A i \in 0 .. n : f[i] = IF i = 0 THEN c ELSE EvictOne(f[i - 1])
    BY <2>1
  <2> DEFINE g == [i \in 0 .. n + 1 |-> IF i = n + 1 THEN EvictOne(f[n]) ELSE f[i]]
             h == [i \in 0 .. n + 1 |-> IF i = 0 THEN c ELSE EvictOne(g[i - 1])]
  <2>3. ASSUME NEW i \in 0 .. n + 1 PROVE g[i] = h[i]
    <3>1. CASE i = n + 1
      BY <3>1
    <3>2. CASE i = 0
      BY <2>2, <3>2
    <3>3. CASE i # n + 1 /\ i # 0
      <4>1. i \in 0 .. n /\ i - 1 \in 0 .. n + 1 /\ i - 1 # n + 1
        BY <3>3
      <4>2. g[i] = f[i] /\ g[i - 1] = f[i - 1]
        BY <3>3, <4>1
      <4> QED BY <2>2, <3>3, <4>1, <4>2
    <3> QED BY <3>1, <3>2, <3>3
  <2>4. g = h
    BY <2>3
  <2>5. Turns(n + 1, g)
    BY <2>4
  <2> HIDE DEF g, Turns
  <2> QED BY <2>5
<1> HIDE DEF S
<1>3. top \in S
  BY <1>1, <1>2, SetInduction
<1> QED BY <1>3 DEF S

\* What is thrown away when the cache is too large is the end of the list.
LEMMA EvictedKeeps ==
    ASSUME NEW c, NEW a, NEW q, NEW n, Keeps(c, a, q, n), n <= LruMaxSize + 1
    PROVE  \E b, m : Keeps(Evicted(c), b, q, m) /\ m = (IF n > LruMaxSize THEN n - CACHE_REMOVE_NUM ELSE n)
<1>1. n \in Nat /\ Size(c) = n
  <2>1. n \in Nat
    BY DEF Keeps, Lists, Injects
  <2> QED BY <2>1, Counts
<1>2. CASE ~(n > LruMaxSize)
  BY <1>1, <1>2 DEF Evicted
<1>3. CASE n > LruMaxSize
  <2> DEFINE Step(g) == [i \in 0 .. CACHE_REMOVE_NUM |-> IF i = 0 THEN c ELSE EvictOne(g[i - 1])]
             Turn == CHOOSE g : g = Step(g)
  <2>1. Evicted(c) = Turn[CACHE_REMOVE_NUM]
    BY <1>1, <1>3 DEF Evicted
  <2>2. Turn = Step(Turn)
    <3>1. \E g : g = Step(g)
      <4>1. PICK top \in Nat : top = CACHE_REMOVE_NUM
        BY CacheNumbers
      <4>2. \E g : g = [i \in 0 .. top |-> IF i = 0 THEN c ELSE EvictOne(g[i - 1])]
        BY TurnsExist
      <4> QED BY <4>1, <4>2
    <3> HIDE DEF Step
    <3> QED BY <3>1
  <2>3. \A i \in 0 .. CACHE_REMOVE_NUM : Turn[i] = IF i = 0 THEN c ELSE EvictOne(Turn[i - 1])
    <3> HIDE DEF Turn
    <3> QED BY <2>2
  <2> HIDE DEF Turn, Step
  <2> DEFINE S == {i \in Nat : i \in 0 .. CACHE_REMOVE_NUM => \E b : Keeps(Turn[i], b, q, n - i)}
  <2>4. 0 \in S
    <3>1. Turn[0] = c /\ n - 0 = n
      BY <1>1, <2>3, CacheNumbers
    <3> QED BY <3>1
  <2>5. ASSUME NEW i \in Nat, i \in S PROVE i + 1 \in S
    <3> SUFFICES ASSUME i + 1 \in 0 .. CACHE_REMOVE_NUM PROVE \E b : Keeps(Turn[i + 1], b, q, n - (i + 1))
      OBVIOUS
    <3>1. PICK k \in 0 .. CACHE_REMOVE_NUM : k = i + 1 /\ k # 0 /\ k - 1 = i /\ i \in 0 .. CACHE_REMOVE_NUM
      BY CacheNumbers
    <3>2. PICK b : Keeps(Turn[i], b, q, n - i)
      BY <2>5, <3>1
    <3>3. PICK m \in Nat : m = n - i /\ m > 1 /\ m - 1 = n - k
      <4>1. n - i \in Nat /\ n - i > 1 /\ n - i - 1 = n - k
        BY <1>1, <1>3, <3>1, CacheNumbers
      <4> QED BY <4>1
    <3>4. Keeps(EvictOne(Turn[i]), Cut(b, m, m), q, m - 1)
      BY <3>2, <3>3, EvictOneKeeps
    <3>5. Turn[k] = EvictOne(Turn[i])
      BY <2>3, <3>1
    <3> QED BY <3>1, <3>3, <3>4, <3>5
  <2> HIDE DEF S
  <2>6. CACHE_REMOVE_NUM \in S
    BY <2>4, <2>5, SetInduction, CacheNumbers
  <2>7. PICK b : Keeps(Turn[CACHE_REMOVE_NUM], b, q, n - CACHE_REMOVE_NUM)
    BY <2>6, CacheNumbers DEF S
  <2> QED BY <1>3, <2>1, <2>7
<1> QED BY <1>2, <1>3

LEMMA EmptyIs == CacheIs(EmptyCache, <<>>)
<1>1. EmptyCache \in Caches
  BY DEF EmptyCache, Caches, OrNull
<1> DEFINE a == [i \in 1 .. 0 |-> 1]
<1>2. 1 .. 0 = {} /\ \A i : i \notin 1 .. 0
  OBVIOUS
<1>3. Injects(a, 0) /\ Nth(a, 0, 1) = NULL /\ Nth(a, 0, 0) = NULL
  BY <1>2 DEF Injects, Nth
<1> HIDE DEF a
<1>4. Lists(EmptyCache, a, 0)
  BY <1>2, <1>3 DEF Lists, EmptyCache
<1>5. Named(EmptyCache, a, <<>>, 0)
  BY <1>2 DEF Named, EmptyCache
<1>6. Uses(EmptyCache, a, 0)
  BY <1>2 DEF Uses, EmptyCache
<1>7. <<>> \in Seq(Entries) /\ Len(<<>>) = 0
  BY EmptySeq
<1>8. Keeps(EmptyCache, a, <<>>, 0)
  BY <1>1, <1>4, <1>5, <1>6 DEF Keeps
<1> QED BY <1>7, <1>8, IsKept

LEMMA CacheLen == ASSUME NEW c, NEW r, CacheIs(c, r) PROVE r \in Seq(Entries) /\ Len(r) \in Nat
BY LenProperties DEF CacheIs, Entries

\* A key is taken out.
LEMMA RemovedIs ==
    ASSUME NEW c, NEW r, CacheIs(c, r), NEW k \in Keys, c.map[k] # NULL
    PROVE  CacheIs(Removed(c, k), Without(r, k)) /\ Len(Without(r, k)) <= Len(r)
<1>n. PICK n \in Nat : n = Len(r)
  BY CacheLen
<1>1. PICK a : n = Len(r) /\ r \in Seq(Entries) /\ Keeps(c, a, r, n)
  BY <1>n, CacheLen DEF CacheIs
<1>2. PICK i \in 1 .. n : r[i][1] = k /\ Without(r, k) = RemoveAt(r, i)
  <2>1. \E i \in 1 .. n : EntryAt(c, a, r, k, i)
    BY <1>1, Finds
  <2> QED BY <2>1 DEF EntryAt
<1>3. Keeps(Removed(c, k), Cut(a, n, i), Cut(r, n, i), n - 1)
  BY <1>1, <1>2, RemovedKeeps
<1>4. /\ RemoveAt(r, i) \in Seq(Entries) /\ Len(RemoveAt(r, i)) = n - 1
      /\ \A j \in 1 .. n - 1 : RemoveAt(r, i)[j] = Cut(r, n, i)[j]
  BY <1>1, RemoveAtIs
<1>5. Keeps(Removed(c, k), Cut(a, n, i), RemoveAt(r, i), n - 1)
  BY <1>3, <1>4, SameEntries
<1>6. CacheIs(Removed(c, k), RemoveAt(r, i))
  BY <1>4, <1>5, IsKept
<1>7. n - 1 <= n
  OBVIOUS
<1> QED BY <1>1, <1>2, <1>4, <1>6, <1>7

LEMMA MissedIs ==
    ASSUME NEW c, NEW r, CacheIs(c, r), NEW k \in Keys, c.map[k] = NULL
    PROVE  Without(r, k) = r
<1>n. PICK n \in Nat : n = Len(r)
  BY CacheLen
<1>1. PICK a : n = Len(r) /\ r \in Seq(Entries) /\ Keeps(c, a, r, n)
  BY <1>n, CacheLen DEF CacheIs
<1> QED BY <1>1, Finds

\* The node of a key, whose value is that of y, goes to the head.
LEMMA TouchedIs ==
    ASSUME NEW c, NEW a, NEW q, NEW n \in Nat, Keeps(c, a, q, n), NEW r \in Seq(Entries), n = Len(r), NEW i \in 1 .. n,
           NEW y \in Entries, q[i] = y, \A j \in 1 .. n : j # i => q[j] = r[j], NEW x, x = a[i]
    PROVE  /\ CacheIs(AddToListHead(RemoveFromList(c, x), x), <<y>> \o RemoveAt(r, i))
           /\ Len(<<y>> \o RemoveAt(r, i)) = n
<1>0. PICK s : s = RemoveAt(r, i)
  OBVIOUS
<1>1. PICK m \in Nat : m = n - 1 /\ m + 1 = n
  <2>1. n - 1 \in Nat /\ n - 1 + 1 = n
    OBVIOUS
  <2> QED BY <2>1
<1>2. s \in Seq(Entries) /\ Len(s) = m /\ \A j \in 1 .. m : s[j] = Cut(r, n, i)[j]
  <2>1. /\ RemoveAt(r, i) \in Seq(Entries) /\ Len(RemoveAt(r, i)) = n - 1
        /\ \A j \in 1 .. n - 1 : RemoveAt(r, i)[j] = Cut(r, n, i)[j]
    BY RemoveAtIs
  <2> QED BY <1>0, <1>1, <2>1
<1>3. PICK w : w = <<y>> \o s
  OBVIOUS
<1>4. w \in Seq(Entries) /\ Len(w) = m + 1 /\ \A j \in 1 .. m + 1 : w[j] = Push(s, m, y)[j]
  BY <1>2, <1>3, ConsIs
<1>5. PICK f, g : f = Push(Cut(a, n, i), n - 1, a[i]) /\ g = Push(Cut(q, n, i), n - 1, q[i])
  OBVIOUS
<1>6. Keeps(AddToListHead(RemoveFromList(c, x), x), f, g, n)
  BY <1>5, TouchKeeps
<1>7. \A j \in 1 .. m : Cut(q, n, i)[j] = Cut(r, n, i)[j]
  <2> SUFFICES ASSUME NEW j \in 1 .. n - 1 PROVE Cut(q, n, i)[j] = Cut(r, n, i)[j]
    BY <1>1
  <2>1. CASE j < i
    <3>1. j \in 1 .. n /\ j # i
      BY <2>1
    <3>2. q[j] = r[j]
      BY <3>1
    <3> QED BY <2>1, <3>2 DEF Cut
  <2>2. CASE ~(j < i)
    <3>1. PICK h \in 1 .. n : h = j + 1 /\ h # i
      BY <2>2
    <3>2. q[h] = r[h]
      BY <3>1
    <3> QED BY <2>2, <3>1, <3>2 DEF Cut
  <2> QED BY <2>1, <2>2
<1>8. \A j \in 1 .. n : w[j] = g[j]
  <2> SUFFICES ASSUME NEW j \in 1 .. m + 1 PROVE w[j] = g[j]
    BY <1>1
  <2>1. g = Push(Cut(q, n, i), m, y)
    BY <1>1, <1>5
  <2>2. CASE j = 1
    BY <1>4, <2>1, <2>2 DEF Push
  <2>3. CASE j # 1
    <3>1. PICK h \in 1 .. m : h = j - 1
      BY <2>3
    <3>2. w[j] = s[h] /\ g[j] = Cut(q, n, i)[h]
      BY <1>4, <2>1, <2>3, <3>1 DEF Push
    <3> QED BY <1>2, <1>7, <3>2
  <2> QED BY <2>2, <2>3
<1>9. Keeps(AddToListHead(RemoveFromList(c, x), x), f, w, n)
  BY <1>6, <1>8, SameEntries
<1> QED BY <1>0, <1>1, <1>3, <1>4, <1>9, IsKept

LEMMA GetIs ==
    ASSUME NEW c, NEW r, CacheIs(c, r), NEW k \in Keys, c.map[k] # NULL
    PROVE  LET w == IF Expired(c, c.map[k]) THEN Without(r, k) ELSE <<Held(r, k)>> \o Without(r, k)
           IN CacheIs(GetIn(c, k), w) /\ Len(w) <= Len(r)
<1>n. PICK n \in Nat : n = Len(r)
  BY CacheLen
<1>1. PICK a : n = Len(r) /\ r \in Seq(Entries) /\ Keeps(c, a, r, n)
  BY <1>n, CacheLen DEF CacheIs
<1>2. PICK i \in 1 .. n : c.map[k] = a[i] /\ Held(r, k) = r[i] /\ Without(r, k) = RemoveAt(r, i)
  <2>1. \E i \in 1 .. n : EntryAt(c, a, r, k, i)
    BY <1>1, Finds
  <2> QED BY <2>1 DEF EntryAt
<1>3. CASE Expired(c, c.map[k])
  <2>1. GetIn(c, k) = Removed(c, k)
    BY <1>3 DEF GetIn
  <2> QED BY <1>3, <2>1, RemovedIs
<1>4. CASE ~Expired(c, c.map[k])
  <2>1. PICK x, y : x = a[i] /\ y = r[i]
    OBVIOUS
  <2>2. GetIn(c, k) = AddToListHead(RemoveFromList(c, x), x)
    BY <1>2, <1>4, <2>1 DEF GetIn
  <2>3. y \in Entries
    BY <1>1, <2>1, ElementOfSeq
  <2>4. CacheIs(AddToListHead(RemoveFromList(c, x), x), <<y>> \o RemoveAt(r, i)) /\ Len(<<y>> \o RemoveAt(r, i)) = n
    BY <1>1, <2>1, <2>3, TouchedIs
  <2> QED BY <1>1, <1>2, <1>4, <2>1, <2>2, <2>4
<1> QED BY <1>3, <1>4

LEMMA DelIs ==
    ASSUME NEW c, NEW r, CacheIs(c, r), NEW k \in Keys
    PROVE  CacheIs(DelIn(c, k), Without(r, k)) /\ Len(Without(r, k)) <= Len(r)
<1>1. CASE c.map[k] = NULL
  <2>1. DelIn(c, k) = c /\ Without(r, k) = r /\ Len(r) \in Nat
    BY <1>1, MissedIs, CacheLen DEF DelIn
  <2> QED BY <2>1
<1>2. CASE c.map[k] # NULL
  <2>1. DelIn(c, k) = Removed(c, k)
    BY <1>2 DEF DelIn
  <2> QED BY <1>2, <2>1, RemovedIs
<1> QED BY <1>1, <1>2

LEMMA HasFree ==
    ASSUME NEW c, NEW a, NEW q, NEW n, Keeps(c, a, q, n), n <= LruMaxSize
    PROVE  \E x \in Nodes : /\ x \notin c.used
                            /\ x = CHOOSE m \in Nodes : m \notin c.used /\ \A l \in Nodes \ c.used : m <= l
<1>1. Cardinality(c.used) = n /\ IsFiniteSet(c.used) /\ n \in Nat
  <2>1. n \in Nat
    BY DEF Keeps, Lists, Injects
  <2> QED BY <2>1, Counts
<1>2. Cardinality(Nodes) = LruMaxSize + 2
  <2>1. PICK top \in Nat : top = LruMaxSize + 2
    BY CacheNumbers
  <2>2. Cardinality(1 .. top) = IF 1 > top THEN 0 ELSE top - 1 + 1
    BY FS_Interval
  <2>3. Cardinality(1 .. top) = top
    BY <2>1, <2>2, CacheNumbers
  <2> QED BY <2>1, <2>3 DEF Nodes
<1>3. PICK T : T = Nodes \ c.used
  OBVIOUS
<1>4. T \subseteq Nat /\ T # {}
  <2>1. T = {} => c.used = Nodes
    <3>1. c.used \in SUBSET Nodes
      BY CacheHas DEF Keeps
    <3> QED BY <1>3, <3>1
  <2>2. c.used # Nodes
    BY <1>1, <1>2, CacheNumbers
  <2>3. Nodes \subseteq Nat
    BY CacheNumbers DEF Nodes
  <2> QED BY <1>3, <2>1, <2>2, <2>3
<1>5. PICK m \in T : \A l \in T : m <= l
  BY <1>4, Least
<1> DEFINE x == CHOOSE y \in Nodes : y \notin c.used /\ \A l \in Nodes \ c.used : y <= l
<1>6. x \in Nodes /\ x \notin c.used
  BY <1>3, <1>5
<1> QED BY <1>6

LEMMA SetIs ==
    ASSUME NEW c, NEW r, CacheIs(c, r), Len(r) <= LruMaxSize + 1, NEW k \in Keys, NEW v \in Values, NEW t \in Nat
    PROVE  LET kept == IF Len(r) > LruMaxSize THEN SubSeq(r, 1, Len(r) - CACHE_REMOVE_NUM) ELSE r
               w == <<<<k, v>>>> \o Without(kept, k)
           IN CacheIs(SetIn(c, k, v, t), w) /\ Len(w) <= LruMaxSize + 1
<1>n. PICK n \in Nat : n = Len(r)
  BY CacheLen
<1>1. PICK a : n = Len(r) /\ r \in Seq(Entries) /\ Keeps(c, a, r, n) /\ n <= LruMaxSize + 1
  BY <1>n, CacheLen DEF CacheIs
<1>2. PICK b, m : Keeps(Evicted(c), b, r, m) /\ m = (IF n > LruMaxSize THEN n - CACHE_REMOVE_NUM ELSE n)
  BY <1>1, EvictedKeeps
<1>3. m \in Nat /\ m <= LruMaxSize /\ m <= n
  BY <1>1, <1>2, CacheNumbers
<1>4. PICK d, p : /\ d = Evicted(c)
                  /\ p = IF Len(r) > LruMaxSize THEN SubSeq(r, 1, Len(r) - CACHE_REMOVE_NUM) ELSE r
  OBVIOUS
<1>5. p \in Seq(Entries) /\ Len(p) = m /\ \A j \in 1 .. m : p[j] = r[j]
  <2>1. CASE n > LruMaxSize
    <3>1. p = SubSeq(r, 1, m)
      BY <1>1, <1>2, <1>4, <2>1
    <3> QED BY <1>1, <1>3, <3>1, PrefixIs
  <2>2. CASE ~(n > LruMaxSize)
    BY <1>1, <1>2, <1>4, <2>2
  <2> QED BY <2>1, <2>2
<1>6. Keeps(d, b, p, m)
  BY <1>2, <1>4, <1>5, SameEntries
<1>7. PICK y \in Entries : y = <<k, v>>
  BY DEF Entries
<1>8. CASE d.map[k] # NULL
  <2>1. PICK i \in 1 .. m : EntryAt(d, b, p, k, i)
    BY <1>5, <1>6, <1>8, Finds
  <2>2. PICK x : x = b[i] /\ d.map[k] = x
    BY <2>1 DEF EntryAt
  <2>3. Without(p, k) = RemoveAt(p, i) /\ p[i][1] = k
    BY <2>1 DEF EntryAt
  <2>4. PICK e, q : e = Stored(d, x, v, t) /\ q = [p EXCEPT ![i] = y]
    OBVIOUS
  <2>5. q[i] = y /\ \A j \in 1 .. m : j # i => q[j] = p[j]
    <3>1. DOMAIN p = 1 .. m
      BY <1>5, LenProperties
    <3> QED BY <2>4, <3>1
  <2>6. Keeps(e, b, q, m)
    <3>1. q[i] = <<p[i][1], v>>
      BY <1>7, <2>3, <2>5
    <3>2. Keeps(Stored(d, b[i], v, t), b, q, m)
      BY <1>6, <2>5, <3>1, StoredKeeps
    <3> QED BY <2>2, <2>4, <3>2
  <2>7. CacheIs(AddToListHead(RemoveFromList(e, x), x), <<y>> \o RemoveAt(p, i)) /\ Len(<<y>> \o RemoveAt(p, i)) = m
    BY <1>3, <1>5, <2>2, <2>5, <2>6, TouchedIs
  <2>8. SetIn(c, k, v, t) = AddToListHead(RemoveFromList(e, x), x)
    BY <1>4, <1>8, <2>2, <2>4 DEF SetIn
  <2>9. m <= LruMaxSize + 1
    BY <1>3, CacheNumbers
  <2> QED BY <1>4, <1>7, <2>3, <2>7, <2>8, <2>9
<1>9. CASE d.map[k] = NULL
  <2>1. Without(p, k) = p
    BY <1>5, <1>6, <1>9, Finds
  <2>2. PICK x \in Nodes : /\ x \notin d.used
                           /\ x = CHOOSE l \in Nodes : l \notin d.used /\ \A h \in Nodes \ d.used : l <= h
    BY <1>3, <1>6, HasFree
  <2>3. PICK g : g = [AddToListHead([Stored(d, x, v, t) EXCEPT !.key[x] = k, !.used = @ \cup {x}], x) EXCEPT !.map[k] = x]
    OBVIOUS
  <2>4. SetIn(c, k, v, t) = g
    BY <1>4, <1>9, <2>2, <2>3 DEF SetIn
  <2>5. Keeps(g, Push(b, m, x), Push(p, m, y), m + 1)
    BY <1>6, <1>7, <1>9, <2>2, <2>3, NewKeeps
  <2>6. /\ <<y>> \o p \in Seq(Entries) /\ Len(<<y>> \o p) = m + 1
        /\ \A j \in 1 .. m + 1 : (<<y>> \o p)[j] = Push(p, m, y)[j]
    BY <1>3, <1>5, ConsIs
  <2>7. Keeps(g, Push(b, m, x), <<y>> \o p, m + 1)
    BY <2>5, <2>6, SameEntries
  <2>8. CacheIs(g, <<y>> \o p)
    BY <2>6, <2>7, IsKept
  <2>9. m + 1 <= LruMaxSize + 1
    BY <1>3, CacheNumbers
  <2> QED BY <1>4, <1>7, <2>1, <2>4, <2>6, <2>8, <2>9
<1> QED BY <1>8, <1>9

LEMMA AgedIs ==
    ASSUME NEW c, NEW r, CacheIs(c, r), NEW f \in [Nodes -> Nat]
    PROVE  CacheIs([c EXCEPT !.age = f], r)
<1>1. PICK a : r \in Seq(Entries) /\ Keeps(c, a, r, Len(r))
  BY CacheLen DEF CacheIs
<1>2. PICK d, n : d = [c EXCEPT !.age = f] /\ n = Len(r)
  OBVIOUS
<1>3. c \in Caches /\ Lists(c, a, n) /\ Named(c, a, r, n) /\ Uses(c, a, n)
  BY <1>1, <1>2 DEF Keeps
<1>4. c = [y \in Fields |-> c[y]]
  BY <1>3, CacheHas
<1>5. /\ d = [y \in Fields |-> d[y]] /\ d.map = c.map /\ d.used = c.used /\ d.key = c.key /\ d.data = c.data
      /\ d.next = c.next /\ d.prev = c.prev /\ d.pstHead = c.pstHead /\ d.pstTail = c.pstTail /\ d.m_dwSize = c.m_dwSize
      /\ d.age = f /\ d.expire = c.expire
  BY <1>2, <1>4 DEF Fields
<1>6. d \in Caches
  BY <1>3, <1>5, CacheHas, MakesCache
<1>7. Lists(d, a, n) /\ Named(d, a, r, n) /\ Uses(d, a, n)
  BY <1>3, <1>5 DEF Lists, Named, Uses
<1>8. Keeps(d, a, r, n)
  BY <1>6, <1>7 DEF Keeps
<1> QED BY <1>1, <1>2, <1>8, IsKept

-----------------------------------------------------------------------------
LruInv ==
    /\ caches \in [Shards -> Caches] /\ recent \in [Shards -> Seq(Entries)]
    /\ \A s \in Shards : CacheIs(caches[s], recent[s]) /\ Len(recent[s]) <= LruMaxSize + 1

LEMMA LruStart == LruInit => LruInv
<1> SUFFICES ASSUME LruInit PROVE LruInv
  OBVIOUS
<1>1. EmptyCache \in Caches /\ <<>> \in Seq(Entries) /\ Len(<<>>) = 0 /\ 0 <= LruMaxSize + 1
  BY EmptyIs, CacheLen, EmptySeq, CacheNumbers DEF CacheIs, Keeps
<1>2. ASSUME NEW s \in Shards PROVE CacheIs(caches[s], recent[s]) /\ Len(recent[s]) <= LruMaxSize + 1
  <2>1. caches[s] = EmptyCache /\ recent[s] = <<>>
    BY DEF LruInit
  <2> QED BY <1>1, <2>1, EmptyIs
<1>3. caches \in [Shards -> Caches] /\ recent \in [Shards -> Seq(Entries)]
  BY <1>1 DEF LruInit
<1> QED BY <1>2, <1>3 DEF LruInv

\* One cache is changed, to one that is right.
LEMMA ChangesKeep ==
    ASSUME LruInv, NEW s \in Shards, NEW c, NEW r, CacheIs(c, r), Len(r) <= LruMaxSize + 1, Changes(s, c, r)
    PROVE  LruInv'
<1>1. c \in Caches /\ r \in Seq(Entries)
  BY CacheLen DEF CacheIs, Keeps
<1>2. ASSUME NEW u \in Shards PROVE CacheIs(caches'[u], recent'[u]) /\ Len(recent'[u]) <= LruMaxSize + 1
  <2>1. CASE u = s
    <3>1. caches'[u] = c /\ recent'[u] = r
      BY <2>1 DEF Changes, LruInv
    <3> QED BY <3>1
  <2>2. CASE u # s
    <3>1. caches'[u] = caches[u] /\ recent'[u] = recent[u]
      BY <2>2 DEF Changes, LruInv
    <3> QED BY <3>1 DEF LruInv
  <2> QED BY <2>1, <2>2
<1>3. caches' \in [Shards -> Caches] /\ recent' \in [Shards -> Seq(Entries)]
  BY <1>1 DEF Changes, LruInv
<1> QED BY <1>2, <1>3 DEF LruInv

LEMMA ShardIs == ASSUME NEW k \in Keys PROVE Shard(k) \in Shards
BY LruCacheAssumption DEF Shard, Shards

LEMMA LruStep == LruInv /\ [LruNext]_lruVars => LruInv'
<1> SUFFICES ASSUME LruInv, [LruNext]_lruVars PROVE LruInv'
  OBVIOUS
<1>0. \A s \in Shards : CacheIs(caches[s], recent[s]) /\ Len(recent[s]) <= LruMaxSize + 1 /\ Len(recent[s]) \in Nat
  BY CacheLen DEF LruInv
<1>1. ASSUME NEW k \in Keys, Get(k) PROVE LruInv'
  <2>0. PICK s \in Shards : s = Shard(k)
    BY ShardIs
  <2>1. PICK c, r : s = Shard(k) /\ c = caches[s] /\ r = recent[s]
    BY <2>0
  <2>2. CacheIs(c, r) /\ Len(r) <= LruMaxSize + 1
    BY <1>0, <2>1
  <2>3. c.map[k] # NULL
    BY <1>1, <2>1 DEF Get
  <2>4. PICK w : w = IF Expired(c, c.map[k]) THEN Without(r, k) ELSE <<Held(r, k)>> \o Without(r, k)
    OBVIOUS
  <2>5. CacheIs(GetIn(c, k), w) /\ Len(w) <= Len(r)
    BY <2>2, <2>3, <2>4, GetIs
  <2>6. Len(w) <= LruMaxSize + 1
    BY <2>2, <2>5, CacheLen, CacheNumbers
  <2>7. Changes(s, GetIn(c, k), w)
    BY <1>1, <2>1, <2>4 DEF Get
  <2> QED BY <2>5, <2>6, <2>7, ChangesKeep
<1>2. ASSUME NEW k \in Keys, Del(k) PROVE LruInv'
  <2>0. PICK s \in Shards : s = Shard(k)
    BY ShardIs
  <2>1. PICK c, r : s = Shard(k) /\ c = caches[s] /\ r = recent[s]
    BY <2>0
  <2>2. CacheIs(c, r) /\ Len(r) <= LruMaxSize + 1
    BY <1>0, <2>1
  <2>3. PICK w : w = Without(r, k)
    OBVIOUS
  <2>4. CacheIs(DelIn(c, k), w) /\ Len(w) <= Len(r)
    BY <2>2, <2>3, DelIs
  <2>5. Len(w) <= LruMaxSize + 1
    BY <2>2, <2>4, CacheLen, CacheNumbers
  <2>6. Changes(s, DelIn(c, k), w)
    BY <1>2, <2>1, <2>3 DEF Del
  <2> QED BY <2>4, <2>5, <2>6, ChangesKeep
<1>3. ASSUME NEW k \in Keys, NEW v \in Values, NEW t \in ExpireTimes, Set(k, v, t) PROVE LruInv'
  <2>0. PICK s \in Shards : s = Shard(k)
    BY ShardIs
  <2>1. PICK c, r : s = Shard(k) /\ c = caches[s] /\ r = recent[s]
    BY <2>0
  <2>2. CacheIs(c, r) /\ Len(r) <= LruMaxSize + 1 /\ t \in Nat
    BY <1>0, <2>1, LruCacheAssumption
  <2>3. PICK p, w : p = (IF Len(r) > LruMaxSize THEN SubSeq(r, 1, Len(r) - CACHE_REMOVE_NUM) ELSE r)
                    /\ w = <<<<k, v>>>> \o Without(p, k)
    OBVIOUS
  <2>4. CacheIs(SetIn(c, k, v, t), w) /\ Len(w) <= LruMaxSize + 1
    BY <2>2, <2>3, SetIs
  <2>5. Changes(s, SetIn(c, k, v, t), w)
    BY <1>3, <2>1, <2>3 DEF Set
  <2> QED BY <2>4, <2>5, ChangesKeep
<1>4. CASE ClearOne
  <2>1. PICK s \in Shards : s = clearing
    BY <1>4 DEF ClearOne
  <2>2. PICK w : w = <<>>
    OBVIOUS
  <2>3. CacheIs(EmptyCache, w) /\ Len(w) <= LruMaxSize + 1
    <3>1. Len(w) = 0
      BY <2>2, EmptySeq
    <3> QED BY <2>2, <3>1, EmptyIs, CacheNumbers
  <2>4. Changes(s, EmptyCache, w)
    BY <1>4, <2>1, <2>2 DEF ClearOne
  <2> QED BY <2>3, <2>4, ChangesKeep
<1>5. CASE Second
  <2> DEFINE Aged(s) == [n \in Nodes |-> IF caches[s].expire[n] # 0 /\ caches[s].age[n] < Oldest
                                         THEN caches[s].age[n] + 1 ELSE caches[s].age[n]]
  <2>1. ASSUME NEW s \in Shards PROVE Aged(s) \in [Nodes -> Nat] /\ caches'[s] = [caches[s] EXCEPT !.age = Aged(s)]
    <3>1. caches[s].age \in [Nodes -> Nat] /\ caches[s] = [y \in Fields |-> caches[s][y]]
      BY CacheHas DEF LruInv
    <3>2. Aged(s) \in [Nodes -> Nat]
      BY <3>1
    <3>3. caches'[s] = [caches[s] EXCEPT !.age = Aged(s)]
      BY <1>5, <3>1 DEF Second
    <3> QED BY <3>2, <3>3
  <2> HIDE DEF Aged
  <2>2. recent' = recent
    BY <1>5 DEF Second
  <2>3. ASSUME NEW s \in Shards PROVE CacheIs(caches'[s], recent'[s]) /\ Len(recent'[s]) <= LruMaxSize + 1 /\ caches'[s] \in Caches
    <3>1. CacheIs(caches'[s], recent[s])
      <4>1. PICK f \in [Nodes -> Nat] : f = Aged(s)
        BY <2>1
      <4>2. CacheIs([caches[s] EXCEPT !.age = f], recent[s])
        BY <1>0, AgedIs
      <4> QED BY <2>1, <4>1, <4>2
    <3> QED BY <1>0, <2>2, <3>1 DEF CacheIs, Keeps
  <2>4. caches' \in [Shards -> Caches] /\ recent' \in [Shards -> Seq(Entries)]
    <3>1. DOMAIN caches' = Shards /\ caches' = [s \in Shards |-> caches'[s]]
      BY <1>5 DEF Second
    <3> QED BY <2>2, <2>3, <3>1 DEF LruInv
  <2> QED BY <2>3, <2>4 DEF LruInv
<1>6. CASE ClearBegin \/ UNCHANGED lruVars
  BY <1>6 DEF ClearBegin, lruVars, LruInv
<1> QED BY <1>1, <1>2, <1>3, <1>4, <1>5, <1>6 DEF LruNext

\* What HoldsLastUsed says of one cache, whose nodes are Pos.
LastUsed(c, r, Pos) ==
    /\ \A i \in 1 .. Len(r) :
         /\ Pos[i] \in c.used /\ c.key[Pos[i]] = r[i][1] /\ c.data[Pos[i]] = r[i][2]
         /\ c.prev[Pos[i]] = Pos[i - 1] /\ c.map[r[i][1]] = Pos[i]
    /\ c.pstTail = Pos[Len(r)] /\ (r = <<>> => c.pstHead = NULL) /\ (r # <<>> => Pos[Len(r) + 1] = NULL)
    /\ c.m_dwSize = Len(r) /\ Cardinality(c.used) = Len(r) /\ Size(c) = Len(r)
    /\ Len(r) <= LruMaxSize + 1

LEMMA LruSays == LruInv => HoldsLastUsed
<1> SUFFICES ASSUME LruInv, NEW s \in Shards, NEW c, c = caches[s], NEW r, r = recent[s]
             PROVE  LET Pos[i \in 0 .. Len(r) + 1] == IF i = 0 THEN NULL ELSE IF i = 1 THEN c.pstHead ELSE c.next[Pos[i - 1]]
                    IN LastUsed(c, r, Pos)
  BY DEF HoldsLastUsed, LastUsed
<1>1. CacheIs(c, r) /\ Len(r) <= LruMaxSize + 1
  BY DEF LruInv
<1>n. PICK n \in Nat : n = Len(r)
  BY <1>1, CacheLen
<1>2. PICK a : n = Len(r) /\ r \in Seq(Entries) /\ Keeps(c, a, r, n)
  BY <1>n, <1>1, CacheLen DEF CacheIs
<1>3. /\ a \in [1 .. n -> Nodes] /\ Named(c, a, r, n) /\ Uses(c, a, n)
      /\ \A i \in 1 .. n : c.next[a[i]] = Nth(a, n, i + 1) /\ c.prev[a[i]] = Nth(a, n, i - 1)
      /\ c.pstHead = Nth(a, n, 1) /\ c.pstTail = Nth(a, n, n) /\ c.m_dwSize = n
  BY <1>2 DEF Keeps, Lists, Injects
<1> DEFINE Step(g) == [i \in 0 .. n + 1 |-> IF i = 0 THEN NULL ELSE IF i = 1 THEN c.pstHead ELSE c.next[g[i - 1]]]
           Pos == CHOOSE g : g = Step(g)
           h == [i \in 0 .. n + 1 |-> Nth(a, n, i)]
<1>4. \A i \in 0 .. n + 1 : i # 0 /\ i # 1 => i - 1 \in 1 .. n /\ Nth(a, n, i) = c.next[Nth(a, n, i - 1)]
  <2> SUFFICES ASSUME NEW i \in 0 .. n + 1, i # 0, i # 1 PROVE i - 1 \in 1 .. n /\ Nth(a, n, i) = c.next[Nth(a, n, i - 1)]
    OBVIOUS
  <2>1. PICK j \in 1 .. n : j = i - 1 /\ j + 1 = i
    OBVIOUS
  <2>2. c.next[a[j]] = Nth(a, n, j + 1) /\ Nth(a, n, j) = a[j]
    BY <1>3 DEF Nth
  <2> QED BY <2>1, <2>2
<1>5. Nth(a, n, 0) = NULL /\ Nth(a, n, n + 1) = NULL
  BY DEF Nth
<1>6. h = Step(h)
  <2>1. ASSUME NEW i \in 0 .. n + 1 PROVE h[i] = Step(h)[i]
    <3>1. CASE i = 0
      BY <1>5, <3>1
    <3>2. CASE i = 1
      BY <1>3, <3>2
    <3>3. CASE i # 0 /\ i # 1
      <4>1. i - 1 \in 0 .. n + 1 /\ Nth(a, n, i) = c.next[Nth(a, n, i - 1)]
        BY <1>4, <3>3
      <4> QED BY <3>3, <4>1
    <3> QED BY <3>1, <3>2, <3>3
  <2> QED BY <2>1
<1>7. Pos = Step(Pos)
  <2> HIDE DEF Step, h
  <2> QED BY <1>6
<1>8. \A i \in 0 .. n + 1 : Pos[i] = IF i = 0 THEN NULL ELSE IF i = 1 THEN c.pstHead ELSE c.next[Pos[i - 1]]
  <2> HIDE DEF Pos
  <2> QED BY <1>7
<1>9. \A i \in 0 .. n + 1 : Pos[i] = Nth(a, n, i)
  <2> HIDE DEF Pos
  <2> DEFINE S == {i \in Nat : i \in 0 .. n + 1 => Pos[i] = Nth(a, n, i)}
  <2>1. 0 \in S
    BY <1>5, <1>8
  <2>2. ASSUME NEW i \in Nat, i \in S PROVE i + 1 \in S
    <3> SUFFICES ASSUME i + 1 \in 0 .. n + 1 PROVE Pos[i + 1] = Nth(a, n, i + 1)
      OBVIOUS
    <3>1. PICK k \in 0 .. n + 1 : k = i + 1 /\ k - 1 = i /\ k # 0 /\ i \in 0 .. n + 1 /\ (k = 1 <=> i = 0)
      OBVIOUS
    <3>2. Pos[k] = Nth(a, n, k)
      <4>1. CASE k = 1
        BY <1>3, <1>8, <4>1
      <4>2. CASE k # 1
        <5>1. Pos[k] = c.next[Pos[i]] /\ Pos[i] = Nth(a, n, i)
          BY <1>8, <2>2, <3>1, <4>2
        <5> QED BY <1>4, <3>1, <4>2, <5>1
      <4> QED BY <4>1, <4>2
    <3> QED BY <3>1, <3>2
  <2> HIDE DEF S
  <2>3. Nat \subseteq S
    BY <2>1, <2>2, SetInduction
  <2> QED BY <2>3 DEF S
<1>10. ASSUME NEW i \in 1 .. n
       PROVE  /\ Pos[i] \in c.used /\ c.key[Pos[i]] = r[i][1] /\ c.data[Pos[i]] = r[i][2]
              /\ c.prev[Pos[i]] = Pos[i - 1] /\ c.map[r[i][1]] = Pos[i]
  <2> HIDE DEF Pos
  <2>1. Pos[i] = a[i] /\ Pos[i - 1] = Nth(a, n, i - 1)
    <3>1. PICK j \in 0 .. n + 1 : j = i - 1
      OBVIOUS
    <3>2. i \in 0 .. n + 1
      OBVIOUS
    <3> QED BY <1>9, <3>1, <3>2 DEF Nth
  <2>2. a[i] \in c.used
    BY <1>3 DEF Uses
  <2> QED BY <1>3, <2>1, <2>2 DEF Named
<1>11. Cardinality(c.used) = n /\ Size(c) = n
  BY <1>2, Counts
<1>12. c.pstTail = Pos[n] /\ Pos[n + 1] = NULL /\ (r = <<>> => c.pstHead = NULL)
  <2> HIDE DEF Pos
  <2>1. n \in 0 .. n + 1 /\ n + 1 \in 0 .. n + 1
    OBVIOUS
  <2>2. r = <<>> => n = 0
    BY <1>2, EmptySeq
  <2>3. n = 0 => Nth(a, n, 1) = NULL
    BY DEF Nth
  <2> QED BY <1>3, <1>5, <1>9, <2>1, <2>2, <2>3
<1>13. LastUsed(c, r, Pos)
  <2> HIDE DEF Pos
  <2> QED BY <1>1, <1>2, <1>3, <1>10, <1>11, <1>12 DEF LastUsed
<1>14. Pos = CHOOSE g : g = [i \in 0 .. Len(r) + 1 |-> IF i = 0 THEN NULL ELSE IF i = 1 THEN c.pstHead ELSE c.next[g[i - 1]]]
  BY <1>2
<1> HIDE DEF Pos
<1> QED BY <1>13, <1>14

\* Every CLruCache is, between its operations, the list of the keys and values it should hold, the last
\* used first, with a map that names its nodes and no others, whatever its size, keys and expiry times.
THEOREM LastUsedIsHeld == LruSpec => []HoldsLastUsed
<1>1. LruInit => LruInv
  BY LruStart
<1>2. LruInv /\ [LruNext]_lruVars => LruInv'
  BY LruStep
<1>3. LruInv => HoldsLastUsed
  BY LruSays
<1> QED BY <1>1, <1>2, <1>3, PTL DEF LruSpec

-----------------------------------------------------------------------------
(* LogFiles.                                                               *)
-----------------------------------------------------------------------------
N == m_uiLogFileNum
Lines == Seq(Nat)
Files == [Numbers -> Lines]
LEMMA FileNumbers == N \in Nat /\ N >= 2 /\ m_dwLogFileMaxSize \in Nat /\ m_dwLogFileMaxSize >= 1 /\ MaxDay \in Nat /\ MaxDay >= 1
BY LogFilesAssumption DEF N

\* The first n of the files, from the oldest, read one after the other.
Reads(f, n, g) == /\ g \in [0 .. n -> Lines] /\ g[0] = <<>>
                  /\ \A i \in 1 .. n : g[i] = g[i - 1] \o f[N - i]
LEMMA ReadsExist == ASSUME NEW f \in Files PROVE \E g : Reads(f, N, g)
<1> DEFINE S == {n \in Nat : n <= N => \E g : Reads(f, n, g)}
<1>1. 0 \in S
  <2> DEFINE g == [i \in 0 .. 0 |-> <<>>]
  <2>1. Reads(f, 0, g)
    BY EmptySeq DEF Reads, Lines
  <2> HIDE DEF g
  <2> QED BY <2>1
<1>2. ASSUME NEW n \in Nat, n \in S, n + 1 <= N PROVE \E g : Reads(f, n + 1, g)
  <2>1. PICK h : Reads(f, n, h)
    BY <1>2, FileNumbers
  <2>2. N - (n + 1) \in Numbers
    BY <1>2, FileNumbers DEF Numbers, N
  <2> DEFINE g == [i \in 0 .. n + 1 |-> IF i = n + 1 THEN h[n] \o f[N - (n + 1)] ELSE h[i]]
  <2>3. h[n] \in Lines /\ f[N - (n + 1)] \in Lines
    BY <2>1, <2>2 DEF Reads, Files
  <2>4. h[n] \o f[N - (n + 1)] \in Lines
    BY <2>3, ConcatProperties DEF Lines
  <2>5. g \in [0 .. n + 1 -> Lines] /\ g[0] = <<>>
    BY <2>1, <2>4 DEF Reads
  <2>6. ASSUME NEW i \in 1 .. n + 1 PROVE g[i] = g[i - 1] \o f[N - i]
    <3>1. i - 1 \in 0 .. n + 1 /\ i - 1 # n + 1 /\ i \in 0 .. n + 1
      OBVIOUS
    <3>2. g[i - 1] = h[i - 1]
      BY <3>1
    <3>3. CASE i = n + 1
      <4>1. i - 1 = n
        BY <3>3
      <4>2. g[i] = h[n] \o f[N - (n + 1)]
        BY <3>1, <3>3
      <4> QED BY <3>2, <3>3, <4>1, <4>2
    <3>4. CASE i # n + 1
      <4>1. i \in 1 .. n
        BY <3>4
      <4> QED BY <2>1, <3>1, <3>2, <3>4, <4>1 DEF Reads
    <3> QED BY <3>3, <3>4
  <2> HIDE DEF g
  <2> QED BY <2>5, <2>6 DEF Reads
<1>3. \A n \in Nat : n \in S => n + 1 \in S
  BY <1>2
<1> HIDE DEF S
<1>4. N \in S
  BY <1>1, <1>3, SetInduction, FileNumbers
<1> QED BY <1>4, FileNumbers DEF S

LEMMA ReadIs == ASSUME NEW f \in Files PROVE Reads(f, N, ReadFrom(f))
<1> DEFINE Turn(g) == [n \in 0 .. N |-> IF n = 0 THEN <<>> ELSE g[n - 1] \o f[N - n]]
           R == ReadFrom(f)
<1>1. \E g : g = Turn(g)
  <2>1. PICK g : Reads(f, N, g)
    BY ReadsExist
  <2>2. \A n \in 0 .. N : g[n] = Turn(g)[n]
    <3> TAKE n \in 0 .. N
    <3>1. CASE n = 0
      BY <2>1, <3>1 DEF Reads
    <3>2. CASE n # 0
      <4>1. n \in 1 .. N
        BY <3>2, FileNumbers
      <4> QED BY <2>1, <3>2, <4>1 DEF Reads
    <3> QED BY <3>1, <3>2
  <2>3. g = [n \in 0 .. N |-> g[n]]
    BY <2>1 DEF Reads
  <2> QED BY <2>2, <2>3
<1>2. R = CHOOSE g : g = Turn(g)
  BY DEF ReadFrom, N
<1>3. R = Turn(R)
  <2> HIDE DEF R, Turn
  <2> QED BY <1>1, <1>2
<1> HIDE DEF R
<1>4. R[0] = <<>> /\ DOMAIN R = 0 .. N
  BY <1>3, FileNumbers
<1>5. \A i \in 1 .. N : R[i] = R[i - 1] \o f[N - i]
  <2> TAKE i \in 1 .. N
  <2>1. i \in 0 .. N /\ i # 0
    BY FileNumbers
  <2> QED BY <1>3, <2>1
<1> DEFINE S == {n \in Nat : n <= N => R[n] \in Lines}
<1>6. 0 \in S
  BY <1>4, EmptySeq DEF Lines
<1>7. ASSUME NEW n \in Nat, n \in S, n + 1 <= N PROVE R[n + 1] \in Lines
  <2>1. R[n] \in Lines
    BY <1>7, FileNumbers
  <2>2. PICK i \in 1 .. N : i = n + 1 /\ i - 1 = n
    BY <1>7, FileNumbers
  <2>3. N - i \in Numbers
    BY FileNumbers DEF Numbers, N
  <2>4. f[N - i] \in Lines
    BY <2>3 DEF Files
  <2>5. R[n] \o f[N - i] \in Lines
    BY <2>1, <2>4, ConcatProperties DEF Lines
  <2> QED BY <1>5, <2>2, <2>5
<1>8. \A n \in Nat : n \in S => n + 1 \in S
  BY <1>7
<1> HIDE DEF S
<1>9. \A n \in 0 .. N : R[n] \in Lines
  <2> TAKE n \in 0 .. N
  <2>1. n \in S
    BY <1>6, <1>8, SetInduction, FileNumbers
  <2> QED BY <2>1, FileNumbers DEF S
<1>10. R = [n \in 0 .. N |-> R[n]]
  BY <1>3
<1>11. R \in [0 .. N -> Lines]
  BY <1>9, <1>10
<1> QED BY <1>4, <1>5, <1>11 DEF Reads, R

Text(f) == ReadFrom(f)[N]
\* What is read of a day is a sequence of lines.
LEMMA TextIs ==
    ASSUME NEW f \in Files
    PROVE  /\ Text(f) \in Lines /\ \A n \in 0 .. N : ReadFrom(f)[n] \in Lines
           /\ \A k \in Numbers : f[k] \in Lines
<1>1. \A n \in 0 .. N : ReadFrom(f)[n] \in Lines
  BY ReadIs DEF Reads
<1>2. N \in 0 .. N
  BY FileNumbers
<1> QED BY <1>1, <1>2 DEF Text, Files

LEMMA ReadStep ==
    ASSUME NEW f \in Files
    PROVE  /\ ReadFrom(f)[0] = <<>>
           /\ \A i \in 1 .. N : ReadFrom(f)[i] = ReadFrom(f)[i - 1] \o f[N - i]
BY ReadIs DEF Reads

LEMMA LinesJoin ==
    ASSUME NEW x \in Lines, NEW y \in Lines
    PROVE  x \o y \in Lines /\ x \o <<>> = x /\ <<>> \o x = x /\ <<>> \in Lines
BY ConcatProperties, ConcatEmptySeq, EmptySeq DEF Lines

Regroups(x, y, z) == (x \o y) \o z = x \o (y \o z)
LEMMA LinesRegroup == \A x, y, z \in Lines : Regroups(x, y, z)
<1>1. \A x, y, z \in Seq(Nat) : (x \o y) \o z = x \o (y \o z)
  BY ConcatAssociative, SMTT(30)
<1> QED BY <1>1 DEF Lines, Regroups

LEMMA NothingJoined == ASSUME NEW x \in Lines, NEW y \in Lines, x \o y = <<>> PROVE x = <<>>
<1>1. Len(<<>>) = 0 /\ Len(x \o y) = Len(x) + Len(y) /\ Len(x) \in Nat /\ Len(y) \in Nat
  BY ConcatProperties, LenProperties, EmptySeq DEF Lines
<1>2. Len(x) = 0
  BY <1>1
<1> QED BY <1>2, EmptySeq DEF Lines

\* Files that agree from here on add the same.
LEMMA ReadsSame ==
    ASSUME NEW f \in Files, NEW g \in Files, NEW a \in 0 .. N, NEW b \in a .. N,
           ReadFrom(f)[a] = ReadFrom(g)[a], \A i \in a + 1 .. b : f[N - i] = g[N - i]
    PROVE  ReadFrom(f)[b] = ReadFrom(g)[b]
<1> DEFINE S == {n \in Nat : a + n <= b => ReadFrom(f)[a + n] = ReadFrom(g)[a + n]}
<1>1. 0 \in S
  BY FileNumbers
<1>2. ASSUME NEW n \in Nat, n \in S, a + (n + 1) <= b PROVE ReadFrom(f)[a + (n + 1)] = ReadFrom(g)[a + (n + 1)]
  <2>1. PICK i \in 1 .. N : i = a + (n + 1) /\ i - 1 = a + n /\ i \in a + 1 .. b
    BY <1>2, FileNumbers
  <2>2. ReadFrom(f)[i - 1] = ReadFrom(g)[i - 1]
    BY <1>2, <2>1, FileNumbers
  <2>3. ReadFrom(f)[i] = ReadFrom(f)[i - 1] \o f[N - i] /\ ReadFrom(g)[i] = ReadFrom(g)[i - 1] \o g[N - i]
    BY ReadStep
  <2>4. f[N - i] = g[N - i]
    BY <2>1
  <2> QED BY <2>1, <2>2, <2>3, <2>4
<1>3. \A n \in Nat : n \in S => n + 1 \in S
  BY <1>2
<1> HIDE DEF S
<1>4. b - a \in S
  BY <1>1, <1>3, SetInduction, FileNumbers
<1> QED BY <1>4, FileNumbers DEF S

\* Lines written go to the end of the text, the oldest file is its beginning, and a
\* rename into an empty place leaves it alone.
LEMMA TextGrows ==
    ASSUME NEW f \in Files, NEW x \in Lines
    PROVE  /\ [f EXCEPT ![0] = @ \o x] \in Files /\ Text([f EXCEPT ![0] = @ \o x]) = Text(f) \o x
<1> DEFINE g == [f EXCEPT ![0] = @ \o x]
<1>1. 0 \in Numbers /\ f[0] \in Lines
  BY TextIs, FileNumbers DEF Numbers, N
<1>2. f[0] \o x \in Lines
  BY <1>1, LinesJoin
<1>3. g \in Files /\ g[0] = f[0] \o x /\ \A k \in Numbers : k # 0 => g[k] = f[k]
  BY <1>1, <1>2 DEF Files
<1> HIDE DEF g
<1>4. \A i \in 1 .. N - 1 : f[N - i] = g[N - i]
  <2> TAKE i \in 1 .. N - 1
  <2>1. N - i \in Numbers /\ N - i # 0
    BY FileNumbers DEF Numbers, N
  <2> QED BY <1>3, <2>1
<1>5. PICK b \in 0 .. N, n \in 1 .. N : b = N - 1 /\ n = N /\ n - 1 = b /\ N - n = 0
  BY FileNumbers
<1>6. ReadFrom(f)[b] = ReadFrom(g)[b]
  <2>1. PICK a \in 0 .. N : a = 0
    BY FileNumbers
  <2>2. ReadFrom(f)[a] = ReadFrom(g)[a]
    BY <1>3, <2>1, ReadStep
  <2>3. b \in a .. N /\ \A i \in a + 1 .. b : f[N - i] = g[N - i]
    BY <1>4, <1>5, <2>1, FileNumbers
  <2> QED BY <1>3, <2>2, <2>3, ReadsSame
<1>7. ReadFrom(f)[n] = ReadFrom(f)[n - 1] \o f[N - n] /\ ReadFrom(g)[n] = ReadFrom(g)[n - 1] \o g[N - n]
  BY <1>3, ReadStep
<1>8. Text(f) = ReadFrom(f)[b] \o f[0] /\ Text(g) = ReadFrom(f)[b] \o (f[0] \o x)
  BY <1>3, <1>5, <1>6, <1>7 DEF Text
<1>9. ReadFrom(f)[b] \in Lines
  BY TextIs
<1>10. (ReadFrom(f)[b] \o f[0]) \o x = ReadFrom(f)[b] \o (f[0] \o x)
  <2>1. Regroups(ReadFrom(f)[b], f[0], x)
    BY <1>1, <1>9, LinesRegroup
  <2> QED BY <2>1 DEF Regroups
<1>11. g \in Files /\ Text(g) = Text(f) \o x
  BY <1>3, <1>8, <1>10
<1> QED BY <1>11 DEF g

LEMMA TextWithoutOldest ==
    ASSUME NEW f \in Files, NEW k, k = N - 1
    PROVE  /\ k \in Numbers /\ [f EXCEPT ![k] = <<>>] \in Files
           /\ Text(f) = f[k] \o Text([f EXCEPT ![k] = <<>>])
<1> DEFINE g == [f EXCEPT ![k] = <<>>]
<1>1. k \in Numbers /\ f[k] \in Lines
  BY TextIs, FileNumbers DEF Numbers, N
<1>2. g \in Files /\ g[k] = <<>> /\ \A j \in Numbers : j # k => g[j] = f[j]
  BY <1>1, EmptySeq DEF Files, Lines
<1> HIDE DEF g
<1> DEFINE Follows(n) == ReadFrom(f)[n + 1] = f[k] \o ReadFrom(g)[n + 1]
           S == {n \in Nat : n + 1 <= N => Follows(n)}
<1>3. 0 \in S
  <2>1. PICK i \in 1 .. N : i = 1 /\ i - 1 = 0 /\ N - i = k /\ i = 0 + 1
    BY FileNumbers
  <2>2. ReadFrom(f)[i] = <<>> \o f[k] /\ ReadFrom(g)[i] = <<>> \o <<>>
    <3>1. ReadFrom(f)[i] = ReadFrom(f)[i - 1] \o f[N - i] /\ ReadFrom(g)[i] = ReadFrom(g)[i - 1] \o g[N - i]
      BY <1>2, ReadStep
    <3>2. ReadFrom(f)[0] = <<>> /\ ReadFrom(g)[0] = <<>>
      BY <1>2, ReadStep
    <3> QED BY <1>2, <2>1, <3>1, <3>2
  <2>3. <<>> \o f[k] = f[k] /\ <<>> \o <<>> = <<>> /\ f[k] \o <<>> = f[k]
    BY <1>1, LinesJoin
  <2> QED BY <2>1, <2>2, <2>3
<1>4. ASSUME NEW n \in Nat, n \in S, n + 1 + 1 <= N PROVE Follows(n + 1)
  <2>1. PICK i \in 1 .. N, h \in 0 .. N, j \in Numbers : i = n + 1 + 1 /\ h = i - 1 /\ h = n + 1 /\ j = N - i /\ j # k
    BY <1>4, FileNumbers DEF Numbers, N
  <2>2. ReadFrom(f)[h] = f[k] \o ReadFrom(g)[h]
    <3>1. n + 1 <= N
      BY <1>4, FileNumbers
    <3> QED BY <1>4, <2>1, <3>1
  <2>3. ReadFrom(f)[i] = ReadFrom(f)[h] \o f[j] /\ ReadFrom(g)[i] = ReadFrom(g)[h] \o f[j]
    <3>1. ReadFrom(f)[i] = ReadFrom(f)[i - 1] \o f[N - i] /\ ReadFrom(g)[i] = ReadFrom(g)[i - 1] \o g[N - i]
      BY <1>2, ReadStep
    <3> QED BY <1>2, <2>1, <3>1
  <2>4. ReadFrom(g)[h] \in Lines /\ f[j] \in Lines
    BY <1>2, TextIs
  <2>5. (f[k] \o ReadFrom(g)[h]) \o f[j] = f[k] \o (ReadFrom(g)[h] \o f[j])
    <3>1. Regroups(f[k], ReadFrom(g)[h], f[j])
      BY <1>1, <2>4, LinesRegroup
    <3> QED BY <3>1 DEF Regroups
  <2> QED BY <2>1, <2>2, <2>3, <2>5
<1>5. \A n \in Nat : n \in S => n + 1 \in S
  <2> HIDE DEF Follows
  <2> QED BY <1>4
<1>6. PICK m \in Nat : m = N - 1 /\ m + 1 = N
  BY FileNumbers
<1>7. Follows(m)
  <2> HIDE DEF S, Follows
  <2>1. m \in S
    BY <1>3, <1>5, SetInduction
  <2> QED BY <1>6, <2>1, FileNumbers DEF S
<1>8. Text(f) = f[k] \o Text(g)
  BY <1>6, <1>7 DEF Text
<1> QED BY <1>1, <1>2, <1>8 DEF g

LEMMA TextRenamed ==
    ASSUME NEW f \in Files, NEW i \in Numbers, NEW k \in Numbers, k = i + 1, f[k] = <<>>
    PROVE  /\ [f EXCEPT ![k] = f[i], ![i] = <<>>] \in Files
           /\ Text([f EXCEPT ![k] = f[i], ![i] = <<>>]) = Text(f)
<1> DEFINE g == [f EXCEPT ![k] = f[i], ![i] = <<>>]
<1>1. i \in Nat /\ i \in Int /\ k # i
  BY DEF Numbers
<1>2. f[i] \in Lines
  BY TextIs
<1>3. g \in Files /\ g[k] = f[i] /\ g[i] = <<>> /\ \A j \in Numbers : j # i /\ j # k => g[j] = f[j]
  BY <1>1, <1>2, EmptySeq DEF Files, Lines
<1> HIDE DEF g
<1>4. PICK a \in 0 .. N, b \in 1 .. N, c \in 1 .. N : a = N - k - 1 /\ b = a + 1 /\ c = b + 1 /\ N - b = k /\ N - c = i
  BY FileNumbers DEF Numbers, N
<1>5. ReadFrom(f)[a] = ReadFrom(g)[a]
  <2>1. PICK z \in 0 .. N : z = 0
    BY FileNumbers
  <2>2. ReadFrom(f)[z] = ReadFrom(g)[z]
    BY <1>3, <2>1, ReadStep
  <2>3. a \in z .. N
    BY <2>1
  <2>4. \A j \in z + 1 .. a : f[N - j] = g[N - j]
    <3> TAKE j \in z + 1 .. a
    <3>1. N - j \in Numbers /\ N - j # i /\ N - j # k
      BY <1>4, <2>1, FileNumbers DEF Numbers, N
    <3> QED BY <1>3, <3>1
  <2> QED BY <1>3, <2>2, <2>3, <2>4, ReadsSame
<1>6. ReadFrom(f)[c] = ReadFrom(g)[c]
  <2>1. b - 1 = a /\ c - 1 = b
    BY <1>4
  <2>2. ReadFrom(f)[b] = ReadFrom(f)[a] \o f[k] /\ ReadFrom(g)[b] = ReadFrom(g)[a] \o g[k]
    <3>1. ReadFrom(f)[b] = ReadFrom(f)[b - 1] \o f[N - b] /\ ReadFrom(g)[b] = ReadFrom(g)[b - 1] \o g[N - b]
      BY <1>3, ReadStep
    <3> QED BY <1>4, <2>1, <3>1
  <2>3. ReadFrom(f)[c] = ReadFrom(f)[b] \o f[i] /\ ReadFrom(g)[c] = ReadFrom(g)[b] \o g[i]
    <3>1. ReadFrom(f)[c] = ReadFrom(f)[c - 1] \o f[N - c] /\ ReadFrom(g)[c] = ReadFrom(g)[c - 1] \o g[N - c]
      BY <1>3, ReadStep
    <3> QED BY <1>4, <2>1, <3>1
  <2>4. ReadFrom(f)[a] \in Lines
    BY TextIs
  <2>5. ReadFrom(f)[a] \o f[i] \in Lines
    BY <1>2, <2>4, LinesJoin
  <2>6. ReadFrom(f)[a] \o <<>> = ReadFrom(f)[a] /\ (ReadFrom(f)[a] \o f[i]) \o <<>> = ReadFrom(f)[a] \o f[i]
    BY <2>4, <2>5, LinesJoin
  <2> QED BY <1>3, <1>5, <2>2, <2>3, <2>6
<1>7. Text(f) = Text(g)
  <2>1. c \in 0 .. N
    OBVIOUS
  <2>2. PICK n \in c .. N : n = N
    BY FileNumbers
  <2>3. \A j \in c + 1 .. n : f[N - j] = g[N - j]
    <3> TAKE j \in c + 1 .. n
    <3>1. N - j \in Numbers /\ N - j # i /\ N - j # k
      BY <1>4, <2>2, FileNumbers DEF Numbers, N
    <3> QED BY <1>3, <3>1
  <2>4. ReadFrom(f)[n] = ReadFrom(g)[n]
    BY <1>3, <1>6, <2>1, <2>3, ReadsSame
  <2> QED BY <2>2, <2>4 DEF Text
<1> QED BY <1>3, <1>7 DEF g

\* IsSuffix, from what comes before.
LEMMA IsEnd ==
    ASSUME NEW x \in Lines, NEW s \in Lines, NEW t, t = x \o s
    PROVE  IsSuffix(s, t)
<1>1. t \in Lines /\ x \in Seq(Nat) /\ s \in Seq(Nat) /\ t \in Seq(Nat)
  BY LinesJoin DEF Lines
<1>2. PICK l \in Nat, n \in Nat, m \in Nat : l = Len(x) /\ n = Len(s) /\ m = Len(t) /\ m = l + n
  BY <1>1, LenProperties, ConcatProperties
<1>3. \A i \in 1 .. n : t[l + i] = s[i]
  <2> TAKE i \in 1 .. n
  <2>1. PICK j \in 1 .. m : j = l + i /\ ~(j <= l) /\ j - l = i
    BY <1>2
  <2>2. (x \o s)[j] = IF j <= l THEN x[j] ELSE s[j - l]
    BY <1>1, <1>2, ConcatProperties
  <2> QED BY <2>1, <2>2
<1> DEFINE a == Reverse(s)
           b == Reverse(t)
<1>4. /\ Len(a) = n /\ DOMAIN a = 1 .. n /\ (\A i \in 1 .. n : a[i] = s[n - i + 1])
      /\ Len(b) = m /\ DOMAIN b = 1 .. m /\ (\A i \in 1 .. m : b[i] = t[m - i + 1])
  BY <1>2 DEF Reverse
<1>5. a \in Seq(Nat) /\ b \in Seq(Nat)
  <2>1. \A i \in 1 .. n : s[n - i + 1] \in Nat
    <3> TAKE i \in 1 .. n
    <3>1. n - i + 1 \in 1 .. n
      BY <1>2
    <3> QED BY <1>1, <1>2, <3>1, ElementOfSeq
  <2>2. \A i \in 1 .. m : t[m - i + 1] \in Nat
    <3> TAKE i \in 1 .. m
    <3>1. m - i + 1 \in 1 .. m
      BY <1>2
    <3> QED BY <1>1, <1>2, <3>1, ElementOfSeq
  <2>3. a = [i \in 1 .. n |-> s[n - i + 1]] /\ b = [i \in 1 .. m |-> t[m - i + 1]]
    BY <1>2 DEF Reverse
  <2> HIDE DEF a, b
  <2> QED BY <1>2, <2>1, <2>2, <2>3
<1>6. \A i \in 1 .. n : a[i] = b[i]
  <2> TAKE i \in 1 .. n
  <2>1. n - i + 1 \in 1 .. n
    OBVIOUS
  <2>2. PICK j \in 1 .. n : j = n - i + 1
    BY <2>1
  <2>3. l + j = m - i + 1 /\ i \in 1 .. m
    BY <1>2, <2>2
  <2>4. a[i] = s[j] /\ b[i] = t[l + j]
    BY <1>4, <2>2, <2>3
  <2> QED BY <1>3, <2>4
<1> HIDE DEF a, b
<1>7. SubSeq(a, 1, n) = SubSeq(b, 1, n)
  <2>1. \A i \in 1 .. n : a[i] \in Nat /\ b[i] \in Nat
    BY <1>2, <1>4, <1>5, <1>6, ElementOfSeq
  <2>2. SubSeq(a, 1, n) \in Seq(Nat) /\ Len(SubSeq(a, 1, n)) = n /\ \A i \in 1 .. n : SubSeq(a, 1, n)[i] = a[i]
    BY <1>5, <1>2, <2>1, SubSeqProperties
  <2>3. SubSeq(b, 1, n) \in Seq(Nat) /\ Len(SubSeq(b, 1, n)) = n /\ \A i \in 1 .. n : SubSeq(b, 1, n)[i] = b[i]
    BY <1>5, <1>2, <2>1, SubSeqProperties
  <2> QED BY <1>6, <2>2, <2>3, SeqEqual
<1>8. IsPrefix(a, b)
  BY <1>2, <1>4, <1>7 DEF IsPrefix
<1> QED BY <1>8 DEF IsSuffix, a, b

\* The count that numbers the lines is a number.
Counted(n, g) == g \in [0 .. n -> Nat] /\ g[0] = 0 /\ \A d \in 1 .. n : g[d] = g[d - 1] + Len(logged[d])
LEMMA LinesCounted == ASSUME logged \in [Days -> Lines] PROVE LinesSoFar \in Nat
<1>1. \A d \in Days : Len(logged[d]) \in Nat
  BY LenProperties DEF Lines
<1> DEFINE S == {n \in Nat : n <= MaxDay => \E g : Counted(n, g)}
<1>2. 0 \in S
  <2> DEFINE g == [d \in 0 .. 0 |-> 0]
  <2>1. Counted(0, g)
    BY DEF Counted
  <2> HIDE DEF g
  <2> QED BY <2>1
<1>3. ASSUME NEW n \in Nat, n \in S, n + 1 <= MaxDay PROVE \E g : Counted(n + 1, g)
  <2>1. PICK h : Counted(n, h)
    BY <1>3, FileNumbers
  <2>2. PICK m \in Days : m = n + 1 /\ m - 1 = n
    BY <1>3, FileNumbers DEF Days
  <2>3. PICK v \in Nat : v = h[n] + Len(logged[m])
    <3>1. h[n] \in Nat
      BY <2>1 DEF Counted
    <3> QED BY <1>1, <3>1
  <2> DEFINE g == [d \in 0 .. m |-> IF d = m THEN v ELSE h[d]]
  <2>4. g \in [0 .. m -> Nat] /\ g[0] = 0
    BY <2>1, <2>2 DEF Counted
  <2>5. ASSUME NEW d \in 1 .. m PROVE g[d] = g[d - 1] + Len(logged[d])
    <3>1. d - 1 \in 0 .. m /\ d - 1 # m /\ d \in 0 .. m
      BY <2>2
    <3>2. g[d - 1] = h[d - 1]
      BY <3>1
    <3>3. CASE d = m
      <4>1. g[d] = v
        BY <3>1, <3>3
      <4> QED BY <2>2, <2>3, <3>2, <3>3, <4>1
    <3>4. CASE d # m
      <4>1. d \in 1 .. n
        BY <2>2, <3>4
      <4> QED BY <2>1, <3>1, <3>2, <3>4, <4>1 DEF Counted
    <3> QED BY <3>3, <3>4
  <2> HIDE DEF g
  <2> QED BY <2>2, <2>4, <2>5 DEF Counted
<1>4. \A n \in Nat : n \in S => n + 1 \in S
  BY <1>3
<1> DEFINE Turn(g) == [d \in 0 .. MaxDay |-> IF d = 0 THEN 0 ELSE g[d - 1] + Len(logged[d])]
<1>5. PICK g : Counted(MaxDay, g)
  <2> HIDE DEF S
  <2>1. MaxDay \in S
    BY <1>2, <1>4, SetInduction, FileNumbers
  <2> QED BY <2>1, FileNumbers DEF S
<1>6. g = Turn(g)
  <2>1. \A d \in 0 .. MaxDay : g[d] = Turn(g)[d]
    <3> TAKE d \in 0 .. MaxDay
    <3>1. CASE d = 0
      BY <1>5, <3>1 DEF Counted
    <3>2. CASE d # 0
      <4>1. d \in 1 .. MaxDay
        BY <3>2, FileNumbers
      <4> QED BY <1>5, <3>2, <4>1 DEF Counted
    <3> QED BY <3>1, <3>2
  <2>2. g = [d \in 0 .. MaxDay |-> g[d]]
    BY <1>5 DEF Counted
  <2> QED BY <2>1, <2>2
<1> DEFINE C == CHOOSE c : c = Turn(c)
<1>7. C = Turn(C)
  <2> HIDE DEF Turn
  <2> QED BY <1>6
<1>8. LinesSoFar = C[MaxDay]
  BY DEF LinesSoFar
<1> HIDE DEF C
<1>9. C[0] = 0
  BY <1>7, FileNumbers
<1> DEFINE R == {n \in Nat : n <= MaxDay => C[n] \in Nat}
<1>10. 0 \in R
  BY <1>9
<1>11. ASSUME NEW n \in Nat, n \in R, n + 1 <= MaxDay PROVE C[n + 1] \in Nat
  <2>1. PICK m \in Days : m = n + 1 /\ m - 1 = n /\ m \in 0 .. MaxDay /\ m # 0
    BY <1>11, FileNumbers DEF Days
  <2>2. C[m] = C[m - 1] + Len(logged[m])
    BY <1>7, <2>1
  <2>3. C[n] \in Nat
    BY <1>11, FileNumbers
  <2> QED BY <1>1, <2>1, <2>2, <2>3
<1>12. \A n \in Nat : n \in R => n + 1 \in R
  BY <1>11
<1> HIDE DEF R, S, Turn
<1>13. MaxDay \in R
  BY <1>10, <1>12, SetInduction, FileNumbers
<1> QED BY <1>8, <1>13, FileNumbers DEF R

-----------------------------------------------------------------------------
\* The files of a day: full ones, then empty ones; while they are being renamed
\* one of them, the next to be written, is empty.  x is what has been removed.
FileFull(f, k) == Len(f[k]) >= m_dwLogFileMaxSize
FullUpTo(f, k, a) == IF k <= a THEN FileFull(f, k) ELSE f[k] = <<>>
Tidy(f, x) == \E a \in 0 .. N - 1 : (\A k \in 1 .. N - 1 : FullUpTo(f, k, a)) /\ (x # <<>> => a = N - 1)
Large(f, x) == \E a \in -1 .. N - 1 : (\A k \in 0 .. N - 1 : FullUpTo(f, k, a)) /\ (x # <<>> => a = N - 1)
Gap(f, x, i) ==
    \E a \in -1 .. N - 2 :
        /\ \A k \in 0 .. i : FullUpTo(f, k, a)
        /\ \A k \in i + 2 .. N - 1 : IF k - 1 <= a THEN FileFull(f, k) ELSE f[k] = <<>>
        /\ x # <<>> => a = N - 2

LEMMA FullIsNotEmpty == ASSUME NEW f, NEW k, f[k] = <<>>, FileFull(f, k) PROVE FALSE
<1>1. Len(<<>>) = 0
  OBVIOUS
<1> QED BY <1>1, FileNumbers DEF FileFull

\* The steps of a rotation take one form to the next.
LEMMA TidySame ==
    ASSUME NEW f, NEW g, NEW x, Tidy(f, x), \A k \in 1 .. N - 1 : g[k] = f[k]
    PROVE  Tidy(g, x)
BY DEF Tidy, FullUpTo, FileFull

LEMMA TidyIsLarge == ASSUME NEW f, NEW x, Tidy(f, x), FileFull(f, 0) PROVE Large(f, x)
<1>1. PICK a \in 0 .. N - 1 : (\A k \in 1 .. N - 1 : FullUpTo(f, k, a)) /\ (x # <<>> => a = N - 1)
  BY DEF Tidy
<1>2. \A k \in 0 .. N - 1 : FullUpTo(f, k, a)
  <2> TAKE k \in 0 .. N - 1
  <2>1. CASE k = 0
    BY <2>1, FileNumbers DEF FullUpTo
  <2>2. CASE k # 0
    <3>1. k \in 1 .. N - 1
      BY <2>2, FileNumbers
    <3> QED BY <1>1, <3>1
  <2> QED BY <2>1, <2>2
<1>3. a \in -1 .. N - 1
  BY FileNumbers
<1> QED BY <1>1, <1>2, <1>3 DEF Large

LEMMA LargeIsGap ==
    ASSUME NEW f \in Files, NEW k \in Numbers, k = N - 1, NEW x \in Lines, Large(f, x), NEW i, i = N - 2
    PROVE  Gap([f EXCEPT ![k] = <<>>], x \o f[k], i)
<1> DEFINE g == [f EXCEPT ![k] = <<>>]
<1>1. g[k] = <<>> /\ \A j \in Numbers : j # k => g[j] = f[j]
  BY DEF Files
<1> HIDE DEF g
<1>2. PICK a \in -1 .. N - 1 : (\A j \in 0 .. N - 1 : FullUpTo(f, j, a)) /\ (x # <<>> => a = N - 1)
  BY DEF Large
<1>3. k \in 0 .. N - 1 /\ k \in Int
  BY FileNumbers
<1>4. \A b \in -1 .. N - 2 : b = a \/ (a = N - 1 /\ b = N - 2) => \A j \in 0 .. i : FullUpTo(g, j, b)
  <2> TAKE b \in -1 .. N - 2
  <2> HAVE b = a \/ (a = N - 1 /\ b = N - 2)
  <2> TAKE j \in 0 .. i
  <2>1. j \in 0 .. N - 1 /\ j \in Numbers /\ j # k /\ (j <= a <=> j <= b)
    BY FileNumbers DEF Numbers, N
  <2>2. FullUpTo(f, j, a) /\ g[j] = f[j]
    BY <1>1, <1>2, <2>1
  <2> QED BY <2>1, <2>2 DEF FullUpTo, FileFull
<1>5. \A j \in i + 2 .. N - 1 : FALSE
  BY FileNumbers
<1>6. CASE a = N - 1
  <2>1. PICK b \in -1 .. N - 2 : b = N - 2
    BY FileNumbers
  <2>2. \A j \in 0 .. i : FullUpTo(g, j, b)
    BY <1>4, <1>6, <2>1
  <2>3. Gap(g, x \o f[k], i)
    BY <1>5, <2>1, <2>2 DEF Gap
  <2> QED BY <2>3 DEF g
<1>7. CASE a # N - 1
  <2>1. a \in -1 .. N - 2 /\ ~(k <= a)
    BY <1>7, FileNumbers
  <2>2. f[k] = <<>> /\ x = <<>>
    BY <1>2, <1>3, <1>7, <2>1 DEF FullUpTo
  <2>3. x \o f[k] = <<>>
    BY <2>2, LinesJoin
  <2>4. \A j \in 0 .. i : FullUpTo(g, j, a)
    BY <1>4, <2>1
  <2>5. Gap(g, x \o f[k], i)
    BY <1>5, <2>1, <2>3, <2>4 DEF Gap
  <2> QED BY <2>5 DEF g
<1> QED BY <1>6, <1>7

\* What one turn of the loop makes of a gap.
Passed(f, x, i) == IF i = 0 THEN Tidy(f, x) ELSE Gap(f, x, i - 1)
LEMMA GapPasses ==
    ASSUME NEW g, NEW x, NEW i \in 0 .. N - 2, NEW a \in -1 .. N - 2, x # <<>> => a = N - 2,
           \A k \in 0 .. i - 1 : FullUpTo(g, k, a),
           \A k \in i + 1 .. N - 1 : IF k - 1 <= a THEN FileFull(g, k) ELSE g[k] = <<>>
    PROVE  Passed(g, x, i)
<1>1. CASE i = 0
  <2>1. PICK b \in 0 .. N - 1 : b = a + 1
    BY FileNumbers
  <2>2. \A k \in 1 .. N - 1 : FullUpTo(g, k, b)
    <3> TAKE k \in 1 .. N - 1
    <3>1. k \in i + 1 .. N - 1 /\ (k - 1 <= a <=> k <= b)
      BY <1>1, <2>1
    <3> QED BY <3>1 DEF FullUpTo
  <2>3. x # <<>> => b = N - 1
    BY <2>1, FileNumbers
  <2> QED BY <1>1, <2>2, <2>3 DEF Passed, Tidy
<1>2. CASE i # 0
  <2>1. PICK h \in Int : h = i - 1 /\ h + 2 = i + 1
    OBVIOUS
  <2>2. Gap(g, x, h)
    BY <2>1 DEF Gap
  <2> QED BY <1>2, <2>1, <2>2 DEF Passed
<1> QED BY <1>1, <1>2

LEMMA GapEmptyPasses ==
    ASSUME NEW f, NEW x, NEW i \in 0 .. N - 2, Gap(f, x, i), f[i] = <<>>, f[i + 1] = <<>>
    PROVE  Passed(f, x, i)
<1>1. PICK a \in -1 .. N - 2 :
        /\ \A k \in 0 .. i : FullUpTo(f, k, a)
        /\ \A k \in i + 2 .. N - 1 : IF k - 1 <= a THEN FileFull(f, k) ELSE f[k] = <<>>
        /\ x # <<>> => a = N - 2
  BY DEF Gap
<1>2. ~(i <= a)
  <2>1. FullUpTo(f, i, a)
    BY <1>1
  <2> QED BY <2>1, FullIsNotEmpty DEF FullUpTo
<1>3. \A k \in 0 .. i - 1 : FullUpTo(f, k, a)
  BY <1>1
<1>4. \A k \in i + 1 .. N - 1 : IF k - 1 <= a THEN FileFull(f, k) ELSE f[k] = <<>>
  <2> TAKE k \in i + 1 .. N - 1
  <2>1. CASE k = i + 1
    BY <1>2, <2>1
  <2>2. CASE k # i + 1
    <3>1. k \in i + 2 .. N - 1
      BY <2>2, FileNumbers
    <3> QED BY <1>1, <3>1
  <2> QED BY <2>1, <2>2
<1> QED BY <1>1, <1>3, <1>4, GapPasses

LEMMA GapFullPasses ==
    ASSUME NEW f \in Files, NEW x, NEW i \in 0 .. N - 2, NEW k \in Numbers, k = i + 1, Gap(f, x, i), f[i] # <<>>
    PROVE  Passed([f EXCEPT ![k] = f[i], ![i] = <<>>], x, i)
<1> DEFINE g == [f EXCEPT ![k] = f[i], ![i] = <<>>]
<1>1. i \in Numbers /\ k # i
  BY FileNumbers DEF Numbers, N
<1>2. g[k] = f[i] /\ \A j \in Numbers : j # i /\ j # k => g[j] = f[j]
  BY <1>1 DEF Files
<1> HIDE DEF g
<1>3. PICK a \in -1 .. N - 2 :
        /\ \A j \in 0 .. i : FullUpTo(f, j, a)
        /\ \A j \in i + 2 .. N - 1 : IF j - 1 <= a THEN FileFull(f, j) ELSE f[j] = <<>>
        /\ x # <<>> => a = N - 2
  BY DEF Gap
<1>4. i <= a /\ FileFull(f, i)
  <2>1. FullUpTo(f, i, a)
    BY <1>3
  <2> QED BY <2>1 DEF FullUpTo
<1>5. \A j \in 0 .. i - 1 : FullUpTo(g, j, a)
  <2> TAKE j \in 0 .. i - 1
  <2>1. j \in 0 .. i /\ j \in Numbers /\ j # i /\ j # k
    BY FileNumbers DEF Numbers, N
  <2>2. FullUpTo(f, j, a) /\ g[j] = f[j]
    BY <1>2, <1>3, <2>1
  <2> QED BY <2>2 DEF FullUpTo, FileFull
<1>6. \A j \in i + 1 .. N - 1 : IF j - 1 <= a THEN FileFull(g, j) ELSE g[j] = <<>>
  <2> TAKE j \in i + 1 .. N - 1
  <2>1. CASE j = k
    BY <1>2, <1>4, <2>1 DEF FileFull
  <2>2. CASE j # k
    <3>1. j \in i + 2 .. N - 1 /\ j \in Numbers /\ j # i
      BY <2>2, FileNumbers DEF Numbers, N
    <3>2. g[j] = f[j]
      BY <1>2, <2>2, <3>1
    <3> QED BY <1>3, <3>1, <3>2 DEF FileFull
  <2> QED BY <2>1, <2>2
<1>7. Passed(g, x, i)
  BY <1>3, <1>5, <1>6, GapPasses
<1> QED BY <1>7 DEF g

LEMMA EmptyHasShape ==
    ASSUME NEW f, \A k \in Numbers : f[k] = <<>>
    PROVE  Tidy(f, <<>>) /\ Large(f, <<>>) /\ \A i \in 0 .. N - 2 : Gap(f, <<>>, i)
<1>1. \A k \in 0 .. N - 1 : f[k] = <<>>
  BY DEF Numbers, N
<1>2. PICK a \in -1 .. N - 2 : a = -1
  BY FileNumbers
<1>3. \A k \in 0 .. N - 1 : FullUpTo(f, k, a)
  BY <1>1, <1>2 DEF FullUpTo
<1>4. Large(f, <<>>)
  <2>1. a \in -1 .. N - 1
    BY FileNumbers
  <2> QED BY <1>3, <2>1 DEF Large
<1>5. \A i \in 0 .. N - 2 : Gap(f, <<>>, i)
  <2> TAKE i \in 0 .. N - 2
  <2>1. \A k \in 0 .. i : FullUpTo(f, k, a)
    BY <1>3, FileNumbers
  <2>2. \A k \in i + 2 .. N - 1 : IF k - 1 <= a THEN FileFull(f, k) ELSE f[k] = <<>>
    BY <1>1, <1>2, FileNumbers
  <2> QED BY <2>1, <2>2 DEF Gap
<1>6. Tidy(f, <<>>)
  <2>1. PICK b \in 0 .. N - 1 : b = 0
    BY FileNumbers
  <2>2. \A k \in 1 .. N - 1 : FullUpTo(f, k, b)
    BY <1>1, <2>1, FileNumbers DEF FullUpTo
  <2> QED BY <2>2 DEF Tidy
<1> QED BY <1>4, <1>5, <1>6

-----------------------------------------------------------------------------
\* The invariant: each day is what has been removed, then the files, then the stream.
InStream(d) == IF m_ofsOutFile.day = d THEN m_ofsOutFile.held ELSE <<>>
Streams == [day : 0 .. MaxDay, fail : BOOLEAN, held : Lines]
Places == {"idle", "open", "shift", "remove", "rename", "write"}
Calls == [at : Places, lines : Lines, i : Int]
FileTypes ==
    /\ today \in Days /\ m_sCurDate \in Days /\ m_sCurDate <= today
    /\ m_ofsOutFile \in Streams
    /\ disk \in [Days -> Files] /\ logged \in [Days -> Lines] /\ writeFile \in Calls
    /\ At("rename") => writeFile.i \in 0 .. N - 2
\* What the stream holds goes to the file that is open, the one of m_sCurDate.
StreamInv ==
    /\ m_ofsOutFile.day = 0 => m_ofsOutFile.held = <<>>
    /\ IsOpen => m_ofsOutFile.day = m_sCurDate
    /\ At("remove") \/ At("rename") => ~IsOpen
\* Nothing is written for a day before m_sCurDate says it has come.
Later == \A d \in Days : d > m_sCurDate => logged[d] = <<>> /\ \A k \in Numbers : disk[d][k] = <<>>
GapEmpty == At("rename") => disk[today][writeFile.i + 1] = <<>>
Shape(d, x) ==
    IF d = today /\ At("remove") THEN Large(disk[d], x)
    ELSE IF d = today /\ At("rename") THEN Gap(disk[d], x, writeFile.i)
    ELSE Tidy(disk[d], x)
Ends(d, x) == logged[d] = x \o (Text(disk[d]) \o InStream(d))
DayHolds(d, x) == Ends(d, x) /\ (d \notin mishap => Shape(d, x))
FilesInv ==
    /\ FileTypes /\ StreamInv /\ Later /\ GapEmpty
    /\ \A d \in Days : \E x \in Lines : DayHolds(d, x)

LEMMA FilesTypes ==
    ASSUME FileTypes, NEW d \in Days
    PROVE  /\ disk[d] \in Files /\ logged[d] \in Lines /\ Text(disk[d]) \in Lines /\ InStream(d) \in Lines
           /\ m_ofsOutFile.held \in Lines /\ m_ofsOutFile.day \in 0 .. MaxDay /\ d \in Nat /\ d # 0
<1>1. disk[d] \in Files /\ logged[d] \in Lines /\ m_ofsOutFile.held \in Lines /\ m_ofsOutFile.day \in 0 .. MaxDay
  BY DEF FileTypes, Streams
<1>2. d \in Nat /\ d # 0
  BY FileNumbers DEF Days
<1>3. <<>> \in Lines
  BY EmptySeq DEF Lines
<1> QED BY <1>1, <1>2, <1>3, TextIs DEF InStream

\* What an EXCEPT makes of the stream and of the call.
StreamIs(m, n, b, h) == m \in Streams /\ m.day = n /\ m.fail = b /\ m.held = h
LEMMA FailSet == ASSUME NEW m \in Streams, NEW b \in BOOLEAN PROVE StreamIs([m EXCEPT !.fail = b], m.day, b, m.held)
BY DEF Streams, StreamIs
LEMMA HeldSet == ASSUME NEW m \in Streams, NEW h \in Lines PROVE StreamIs([m EXCEPT !.held = h], m.day, m.fail, h)
BY DEF Streams, StreamIs
LEMMA OpenSet ==
    ASSUME NEW m \in Streams, NEW n \in 0 .. MaxDay, NEW b \in BOOLEAN
    PROVE  StreamIs([m EXCEPT !.day = n, !.fail = b], n, b, m.held)
BY DEF Streams, StreamIs
LEMMA CloseSet ==
    ASSUME NEW m \in Streams, NEW n \in 0 .. MaxDay, NEW h \in Lines
    PROVE  StreamIs([m EXCEPT !.day = n, !.held = h], n, m.fail, h)
BY DEF Streams, StreamIs

CallIs(c, s, x, n) == c \in Calls /\ c.at = s /\ c.lines = x /\ c.i = n
LEMMA NoCallIs == CallIs(NoCall, "idle", <<>>, 0)
<1>1. <<>> \in Lines
  BY EmptySeq DEF Lines
<1> QED BY <1>1 DEF CallIs, Calls, NoCall, Places
LEMMA AtSet == ASSUME NEW c \in Calls, NEW s \in Places PROVE CallIs([c EXCEPT !.at = s], s, c.lines, c.i)
BY DEF Calls, CallIs
LEMMA TurnSet == ASSUME NEW c \in Calls, NEW n \in Int PROVE CallIs([c EXCEPT !.i = n], c.at, c.lines, n)
BY DEF Calls, CallIs
LEMMA AtTurnSet ==
    ASSUME NEW c \in Calls, NEW s \in Places, NEW n \in Int
    PROVE  CallIs([c EXCEPT !.at = s, !.i = n], s, c.lines, n)
BY DEF Calls, CallIs
LEMMA CallBegins ==
    ASSUME NEW c \in Calls, NEW s \in Places, NEW x \in Lines
    PROVE  CallIs([c EXCEPT !.at = s, !.lines = x], s, x, c.i)
BY DEF Calls, CallIs

\* A day that a step does not touch is as it was.
LEMMA DaySame ==
    ASSUME NEW d \in Days, NEW x, DayHolds(d, x), disk'[d] = disk[d], logged'[d] = logged[d], InStream(d)' = InStream(d),
           d \notin mishap' => d \notin mishap, d \notin mishap' => (Shape(d, x) => Shape(d, x)')
    PROVE  DayHolds(d, x)'
<1>1. Ends(d, x)'
  BY DEF DayHolds, Ends
<1> QED BY <1>1 DEF DayHolds

LEMMA FilesStart == FilesInit => FilesInv
<1> SUFFICES ASSUME FilesInit PROVE FilesInv
  OBVIOUS
<1>1. <<>> \in Lines /\ 1 \in Days
  BY EmptySeq, FileNumbers DEF Lines, Days
<1>2. FileTypes
  <2>1. [k \in Numbers |-> <<>>] \in Files
    BY <1>1 DEF Files
  <2>2. writeFile \in Calls /\ ~At("rename")
    BY NoCallIs DEF FilesInit, CallIs, At
  <2>3. m_ofsOutFile \in Streams
    BY <1>1, FileNumbers DEF FilesInit, Streams
  <2> QED BY <1>1, <2>1, <2>2, <2>3, FileNumbers DEF FilesInit, FileTypes
<1>3. StreamInv /\ Later /\ GapEmpty
  BY DEF FilesInit, StreamInv, Later, GapEmpty, IsOpen, At, NoCall
<1>4. ASSUME NEW d \in Days PROVE DayHolds(d, <<>>)
  <2>1. \A k \in Numbers : disk[d][k] = <<>>
    BY DEF FilesInit
  <2>2. Tidy(disk[d], <<>>)
    BY <2>1, EmptyHasShape
  <2>3. Shape(d, <<>>)
    BY <2>2 DEF Shape, FilesInit, At, NoCall
  <2>4. Text(disk[d]) = <<>>
    <3>1. PICK f \in Files : f = disk[d] /\ \A k \in Numbers : f[k] = <<>>
      BY <1>2, <2>1, FilesTypes
    <3> DEFINE R == ReadFrom(f)
               S == {n \in Nat : n <= N => R[n] = <<>>}
    <3>2. 0 \in S
      BY <3>1, ReadStep
    <3>3. ASSUME NEW n \in Nat, n \in S, n + 1 <= N PROVE R[n + 1] = <<>>
      <4>1. PICK i \in 1 .. N : i = n + 1 /\ i - 1 = n
        BY <3>3, FileNumbers
      <4>2. N - i \in Numbers
        BY FileNumbers DEF Numbers, N
      <4>3. R[i] = R[i - 1] \o f[N - i]
        BY <3>1, ReadStep
      <4>4. R[n] = <<>>
        BY <3>3, FileNumbers
      <4>5. <<>> \o <<>> = <<>>
        BY <1>1, LinesJoin
      <4> QED BY <3>1, <4>1, <4>2, <4>3, <4>4, <4>5
    <3>4. \A n \in Nat : n \in S => n + 1 \in S
      BY <3>3
    <3> HIDE DEF S
    <3>5. N \in S
      BY <3>2, <3>4, SetInduction, FileNumbers
    <3> QED BY <3>1, <3>5, FileNumbers DEF S, Text
  <2>5. InStream(d) = <<>> /\ logged[d] = <<>>
    BY DEF InStream, FilesInit
  <2>6. <<>> \o (<<>> \o <<>>) = <<>>
    BY <1>1, LinesJoin
  <2>7. Ends(d, <<>>)
    BY <2>4, <2>5, <2>6 DEF Ends
  <2> QED BY <2>3, <2>7 DEF DayHolds
<1> QED BY <1>1, <1>2, <1>3, <1>4 DEF FilesInv

LEMMA MidnightKeeps == ASSUME FilesInv, Midnight PROVE FilesInv'
<1>1. today' \in Days /\ m_sCurDate \in Days /\ m_sCurDate < today' /\ today < today' /\ today \in Days
  BY FileNumbers DEF FilesInv, FileTypes, Midnight, Days
<1>2. UNCHANGED <<m_sCurDate, m_ofsOutFile, disk, writeFile, logged>> /\ today' = today + 1
      /\ mishap' = mishap \cup (IF At("remove") \/ At("rename") THEN {today} ELSE {})
  BY DEF Midnight
<1>3. FileTypes'
  BY <1>1, <1>2 DEF FilesInv, FileTypes, At, Days
<1>4. StreamInv' /\ Later'
  BY <1>2 DEF FilesInv, StreamInv, Later, IsOpen, At
<1>5. logged[today'] = <<>> /\ \A k \in Numbers : disk[today'][k] = <<>>
  BY <1>1 DEF FilesInv, Later, Days
<1>6. GapEmpty'
  <2>1. At("rename") => writeFile.i + 1 \in Numbers
    BY FileNumbers DEF FilesInv, FileTypes, Numbers, N
  <2> QED BY <1>2, <1>5, <2>1 DEF GapEmpty, At
<1>7. ASSUME NEW d \in Days PROVE \E x \in Lines : DayHolds(d, x)'
  <2>1. PICK x \in Lines : DayHolds(d, x)
    BY DEF FilesInv
  <2>2. disk'[d] = disk[d] /\ logged'[d] = logged[d] /\ InStream(d)' = InStream(d) /\ (d \notin mishap' => d \notin mishap)
    BY <1>2 DEF InStream
  <2>3. d \notin mishap' => (Shape(d, x) => Shape(d, x)')
    <3>1. CASE d = today'
      <4>1. x = <<>>
        <5>1. logged[d] = x \o (Text(disk[d]) \o InStream(d)) /\ logged[d] = <<>>
          BY <1>5, <2>1, <3>1 DEF DayHolds, Ends
        <5>2. Text(disk[d]) \o InStream(d) \in Lines
          BY FilesTypes, LinesJoin DEF FilesInv
        <5> QED BY <5>1, <5>2, NothingJoined
      <4>2. Tidy(disk[d], <<>>) /\ Large(disk[d], <<>>) /\ \A i \in 0 .. N - 2 : Gap(disk[d], <<>>, i)
        BY <1>5, <3>1, EmptyHasShape
      <4>3. At("rename") => writeFile.i \in 0 .. N - 2
        BY DEF FilesInv, FileTypes
      <4>4. UNCHANGED <<disk, writeFile>>
        BY <1>2
      <4> QED BY <4>1, <4>2, <4>3, <4>4 DEF Shape, At
    <3>2. CASE d # today'
      BY <1>2, <3>2 DEF Shape, At
    <3> QED BY <3>1, <3>2
  <2> QED BY <2>1, <2>2, <2>3, DaySame
<1> QED BY <1>3, <1>4, <1>6, <1>7 DEF FilesInv

LEMMA WriteBeginsKeeps == ASSUME FilesInv, NEW n \in 1 .. 2, WriteBegins(n) PROVE FilesInv'
<1> DEFINE new == [k \in 1 .. n |-> LinesSoFar + k]
<1>1. new \in Lines
  <2>1. LinesSoFar \in Nat
    BY LinesCounted DEF FilesInv, FileTypes
  <2>2. \A k \in 1 .. n : LinesSoFar + k \in Nat
    BY <2>1
  <2> HIDE DEF LinesSoFar
  <2> QED BY <2>2 DEF Lines
<1>2. /\ UNCHANGED <<today, m_sCurDate, m_ofsOutFile, disk, logged, mishap>>
      /\ ~At("remove") /\ ~At("rename") /\ ~At("remove")' /\ ~At("rename")' /\ writeFile' \in Calls
  <2> HIDE DEF new
  <2>1. writeFile' = [NoCall EXCEPT !.at = IF class = "CFileLog" THEN "open" ELSE "shift", !.lines = new]
    BY DEF WriteBegins, new
  <2>2. ASSUME NEW s \in Places, writeFile' = [NoCall EXCEPT !.at = s, !.lines = new]
        PROVE  CallIs(writeFile', s, new, 0)
    <3>1. PICK c \in Calls : c = NoCall /\ c.i = 0
      BY NoCallIs DEF CallIs
    <3>2. CallIs([c EXCEPT !.at = s, !.lines = new], s, new, c.i)
      BY <1>1, CallBegins
    <3> QED BY <2>2, <3>1, <3>2
  <2>3. writeFile' \in Calls /\ writeFile'.at \in {"open", "shift"}
    <3>1. CASE class = "CFileLog"
      BY <2>1, <2>2, <3>1 DEF CallIs, Places
    <3>2. CASE class # "CFileLog"
      BY <2>1, <2>2, <3>2 DEF CallIs, Places
    <3> QED BY <3>1, <3>2
  <2> QED BY <2>3 DEF WriteBegins, At
<1>3. FileTypes'
  BY <1>2 DEF FilesInv, FileTypes
<1>4. StreamInv' /\ Later' /\ GapEmpty'
  BY <1>2 DEF FilesInv, StreamInv, Later, GapEmpty, IsOpen
<1>5. ASSUME NEW d \in Days PROVE \E x \in Lines : DayHolds(d, x)'
  <2>1. PICK x \in Lines : DayHolds(d, x)
    BY DEF FilesInv
  <2>2. /\ disk'[d] = disk[d] /\ logged'[d] = logged[d] /\ InStream(d)' = InStream(d) /\ (d \notin mishap' => d \notin mishap)
        /\ (Shape(d, x) => Shape(d, x)')
    BY <1>2 DEF InStream, Shape
  <2> QED BY <2>1, <2>2, DaySame
<1> QED BY <1>3, <1>4, <1>5 DEF FilesInv

\* Opening a file, or failing to, changes nothing of what is held.
StreamMoves ==
    /\ m_ofsOutFile' \in Streams /\ m_ofsOutFile'.held = m_ofsOutFile.held
    /\ m_ofsOutFile'.day = m_ofsOutFile.day \/ (m_ofsOutFile.day = 0 /\ m_ofsOutFile'.day = m_sCurDate)
LEMMA StreamMovesIs ==
    ASSUME FileTypes,
           \/ ~IsOpen /\ m_ofsOutFile' = Opened
           \/ m_ofsOutFile' = [m_ofsOutFile EXCEPT !.fail = TRUE]
           \/ m_ofsOutFile' = [OutFile EXCEPT !.fail = TRUE]
           \/ UNCHANGED m_ofsOutFile
    PROVE  StreamMoves
<1>1. m_ofsOutFile \in Streams /\ m_sCurDate \in 0 .. MaxDay
  BY DEF FileTypes, Days
<1>2. StreamIs(Opened, m_sCurDate, FALSE, m_ofsOutFile.held)
  BY <1>1, OpenSet DEF Opened, StreamIs
<1>3. StreamIs([m_ofsOutFile EXCEPT !.fail = TRUE], m_ofsOutFile.day, TRUE, m_ofsOutFile.held)
  BY <1>1, FailSet DEF StreamIs
<1>4. StreamIs([Opened EXCEPT !.fail = TRUE], m_sCurDate, TRUE, m_ofsOutFile.held)
  <2>1. PICK o \in Streams : o = Opened /\ StreamIs(o, m_sCurDate, FALSE, m_ofsOutFile.held)
    BY <1>2 DEF StreamIs
  <2> QED BY <2>1, FailSet DEF StreamIs
<1> QED BY <1>1, <1>2, <1>3, <1>4 DEF StreamMoves, StreamIs, IsOpen, OutFile

LEMMA StreamMovesKeeps ==
    ASSUME FilesInv, StreamMoves, UNCHANGED <<today, m_sCurDate, disk, logged, mishap>>,
           writeFile' \in Calls, ~At("remove"), ~At("rename"), ~At("remove")', ~At("rename")'
    PROVE  FilesInv'
<1>1. FileTypes'
  BY DEF FilesInv, FileTypes, StreamMoves
<1>2. StreamInv' /\ Later' /\ GapEmpty'
  BY FileNumbers DEF FilesInv, FileTypes, StreamInv, StreamMoves, Later, GapEmpty, IsOpen, Days
<1>3. ASSUME NEW d \in Days PROVE \E x \in Lines : DayHolds(d, x)'
  <2>1. PICK x \in Lines : DayHolds(d, x)
    BY DEF FilesInv
  <2>2. InStream(d)' = InStream(d)
    BY FilesTypes DEF InStream, FilesInv, StreamInv, StreamMoves
  <2>3. /\ disk'[d] = disk[d] /\ logged'[d] = logged[d] /\ (d \notin mishap' => d \notin mishap)
        /\ (Shape(d, x) => Shape(d, x)')
    BY DEF Shape
  <2> QED BY <2>1, <2>2, <2>3, DaySame
<1> QED BY <1>1, <1>2, <1>3 DEF FilesInv

LEMMA OpenBeforeShiftKeeps == ASSUME FilesInv, OpenBeforeShift PROVE FilesInv'
<1>1. UNCHANGED <<today, m_sCurDate, disk, logged, mishap>> /\ ~At("remove") /\ ~At("rename") /\ FileTypes
  BY DEF OpenBeforeShift, At, FilesInv
<1>2. writeFile' \in Calls /\ ~At("remove")' /\ ~At("rename")'
  <2>1. Goes("shift") \/ Refuse
    BY DEF OpenBeforeShift
  <2>2. Refuse => CallIs(writeFile', "idle", <<>>, 0)
    BY NoCallIs DEF Refuse
  <2>3. Goes("shift") => CallIs(writeFile', "shift", writeFile.lines, writeFile.i)
    <3>1. CallIs([writeFile EXCEPT !.at = "shift"], "shift", writeFile.lines, writeFile.i)
      BY <1>1, AtSet DEF FileTypes, Places
    <3> QED BY <3>1 DEF Goes
  <2> QED BY <2>1, <2>2, <2>3 DEF At, CallIs
<1>3. StreamMoves
  BY <1>1, StreamMovesIs DEF OpenBeforeShift
<1> QED BY <1>1, <1>2, <1>3, StreamMovesKeeps

LEMMA WriteRefusedKeeps == ASSUME FilesInv, WriteRefused \/ WriteLost PROVE FilesInv'
<1>1. UNCHANGED <<today, m_sCurDate, disk, logged, mishap>> /\ ~At("remove") /\ ~At("rename") /\ FileTypes
  BY DEF WriteRefused, WriteLost, Writable, At, FilesInv
<1>2. writeFile' \in Calls /\ ~At("remove")' /\ ~At("rename")'
  BY <1>1, NoCallIs DEF At, WriteRefused, WriteLost, Refuse, CallIs
<1>3. StreamMoves
  BY <1>1, StreamMovesIs DEF WriteRefused, WriteLost
<1> QED BY <1>1, <1>2, <1>3, StreamMovesKeeps

\* A file that grows keeps what was in it; what the day was is unchanged but for the end.
LEMMA DayGrows ==
    ASSUME NEW d \in Days, NEW f \in Files, NEW x \in Lines, NEW y \in Lines
    PROVE  /\ [f EXCEPT ![0] = @ \o y] \in Files /\ Text([f EXCEPT ![0] = @ \o y]) = Text(f) \o y
           /\ \A k \in Numbers : k # 0 => [f EXCEPT ![0] = @ \o y][k] = f[k]
           /\ Tidy(f, x) => Tidy([f EXCEPT ![0] = @ \o y], x)
           /\ FileFull(f, 0) => FileFull([f EXCEPT ![0] = @ \o y], 0)
<1> DEFINE g == [f EXCEPT ![0] = @ \o y]
<1>1. g \in Files /\ Text(g) = Text(f) \o y
  BY TextGrows
<1>2. \A k \in Numbers : k # 0 => g[k] = f[k]
  BY DEF Files
<1>4. FileFull(f, 0) => FileFull(g, 0)
  <2>1. 0 \in Numbers /\ f[0] \in Lines
    BY TextIs, FileNumbers DEF Numbers, N
  <2>2. g[0] = f[0] \o y
    BY <2>1 DEF Files
  <2>3. Len(f[0] \o y) = Len(f[0]) + Len(y) /\ Len(f[0]) \in Nat /\ Len(y) \in Nat
    BY <2>1, ConcatProperties, LenProperties DEF Lines
  <2> HIDE DEF g
  <2> QED BY <2>2, <2>3, FileNumbers DEF FileFull
<1> HIDE DEF g
<1>3. Tidy(f, x) => Tidy(g, x)
  <2>1. \A k \in 1 .. N - 1 : k \in Numbers /\ k # 0
    BY FileNumbers DEF Numbers, N
  <2> QED BY <1>2, <2>1, TidySame
<1> QED BY <1>1, <1>2, <1>3, <1>4 DEF g

LEMMA WriteThroughKeeps == ASSUME FilesInv, WriteThrough PROVE FilesInv'
<1> DEFINE c == m_sCurDate
           h == OutFile.held
           y == h \o writeFile.lines
<1>1. FileTypes /\ StreamInv /\ Later /\ c \in Days /\ c \in 0 .. MaxDay /\ m_ofsOutFile \in Streams /\ writeFile \in Calls
  BY DEF FilesInv, FileTypes, Days
<1>2. PICK o \in Streams : o = OutFile /\ o.day = c /\ o.held = m_ofsOutFile.held /\ o.held = InStream(c)
  <2>1. StreamIs(Opened, c, FALSE, m_ofsOutFile.held)
    BY <1>1, OpenSet DEF Opened, StreamIs
  <2>2. c # 0
    BY <1>1, FilesTypes
  <2> QED BY <1>1, <2>1, <2>2 DEF OutFile, StreamIs, StreamInv, IsOpen, InStream
<1>3. h \in Lines /\ writeFile.lines \in Lines /\ y \in Lines /\ o.held = h
  <2>1. o.held \in Lines /\ writeFile.lines \in Lines
    BY <1>1 DEF Streams, Calls
  <2> QED BY <1>2, <2>1, LinesJoin
<1>4. m_ofsOutFile' \in Streams /\ m_ofsOutFile'.day = c /\ m_ofsOutFile'.held = <<>>
  <2>1. StreamIs([o EXCEPT !.held = <<>>], o.day, o.fail, <<>>)
    BY <1>3, LinesJoin, HeldSet
  <2> QED BY <1>2, <2>1 DEF WriteThrough, StreamIs
<1>5. /\ UNCHANGED <<today, m_sCurDate, mishap>> /\ ~At("remove") /\ ~At("rename")
      /\ disk' = [disk EXCEPT ![c] = [disk[c] EXCEPT ![0] = @ \o y]]
      /\ logged' = [logged EXCEPT ![c] = @ \o writeFile.lines] /\ writeFile' = NoCall
  BY DEF WriteThrough, Writable, At, Appended
<1>6. writeFile' \in Calls /\ ~At("remove")' /\ ~At("rename")'
  BY <1>5, NoCallIs DEF At, CallIs
<1> DEFINE f == disk[c]
           g == [disk[c] EXCEPT ![0] = @ \o y]
<1>7. /\ f \in Files /\ logged[c] \in Lines /\ g \in Files /\ Text(g) = Text(f) \o y
      /\ \A x \in Lines : Tidy(f, x) => Tidy(g, x)
  <2>1. f \in Files /\ logged[c] \in Lines
    BY <1>1, FilesTypes
  <2> HIDE DEF f, y
  <2> QED BY <1>1, <1>3, <2>1, DayGrows DEF f
<1> HIDE DEF c, h, y, f, g
<1>8. disk' \in [Days -> Files] /\ disk'[c] = g /\ \A d \in Days : d # c => disk'[d] = disk[d]
  BY <1>1, <1>5, <1>7 DEF FileTypes, g
<1>9. /\ logged' \in [Days -> Lines] /\ logged'[c] = logged[c] \o writeFile.lines
      /\ \A d \in Days : d # c => logged'[d] = logged[d]
  <2>1. logged[c] \o writeFile.lines \in Lines
    BY <1>3, <1>7, LinesJoin
  <2> QED BY <1>1, <1>5, <2>1 DEF FileTypes
<1>10. FileTypes'
  BY <1>1, <1>4, <1>5, <1>6, <1>8, <1>9 DEF FileTypes
<1>11. StreamInv' /\ GapEmpty'
  BY <1>4, <1>5, <1>6 DEF StreamInv, GapEmpty, IsOpen, c
<1>12. Later'
  <2>1. \A d \in Days : d > m_sCurDate' => d # c
    BY <1>1, <1>5 DEF c, Days
  <2> QED BY <1>1, <1>5, <1>8, <1>9, <2>1 DEF Later
<1>13. ASSUME NEW d \in Days PROVE \E x \in Lines : DayHolds(d, x)'
  <2>1. PICK x \in Lines : DayHolds(d, x)
    BY DEF FilesInv
  <2>2. CASE d = c
    <3>1. logged[c] = x \o (Text(f) \o h)
      BY <1>2, <1>3, <2>1, <2>2 DEF DayHolds, Ends, f
    <3>2. PICK t \in Lines, u \in Lines : t = Text(f) /\ u = Text(f) \o h
      BY <1>3, <1>7, TextIs, LinesJoin
    <3>3. (x \o u) \o writeFile.lines = x \o (u \o writeFile.lines)
      <4>1. Regroups(x, u, writeFile.lines)
        BY <1>3, LinesRegroup
      <4> QED BY <4>1 DEF Regroups
    <3>4. (t \o h) \o writeFile.lines = t \o (h \o writeFile.lines)
      <4>1. Regroups(t, h, writeFile.lines)
        BY <1>3, LinesRegroup
      <4> QED BY <4>1 DEF Regroups
    <3>5. InStream(d)' = <<>> /\ Text(disk'[d]) = t \o y /\ (t \o y) \o <<>> = t \o y
      <4>1. t \o y \in Lines
        BY <1>3, LinesJoin
      <4> QED BY <1>4, <1>7, <1>8, <2>2, <3>2, <4>1, LinesJoin DEF InStream
    <3>6. logged'[d] = x \o (Text(disk'[d]) \o InStream(d)')
      BY <1>9, <2>2, <3>1, <3>2, <3>3, <3>4, <3>5 DEF y
    <3>7. d \notin mishap' => Shape(d, x)'
      BY <1>5, <1>6, <1>7, <1>8, <2>1, <2>2 DEF DayHolds, Shape, f
    <3> QED BY <3>6, <3>7 DEF DayHolds, Ends
  <2>3. CASE d # c
    <3>1. InStream(d)' = InStream(d)
      <4>1. InStream(d) = <<>>
        BY <1>1, <2>3, FilesTypes DEF InStream, StreamInv, IsOpen, c
      <4> QED BY <1>4, <2>3, <4>1 DEF InStream
    <3>2. disk'[d] = disk[d] /\ logged'[d] = logged[d] /\ (d \notin mishap' => d \notin mishap) /\ (Shape(d, x) => Shape(d, x)')
      BY <1>5, <1>6, <1>8, <1>9, <2>3 DEF Shape
    <3> QED BY <2>1, <3>1, <3>2, DaySame
  <2> QED BY <2>2, <2>3
<1> QED BY <1>10, <1>11, <1>12, <1>13 DEF FilesInv

LEMMA WriteHeldKeeps == ASSUME FilesInv, WriteHeld PROVE FilesInv'
<1> DEFINE c == m_sCurDate
           y == writeFile.lines
<1>1. FileTypes /\ StreamInv /\ Later /\ c \in Days /\ c \in 0 .. MaxDay /\ m_ofsOutFile \in Streams /\ writeFile \in Calls
  BY DEF FilesInv, FileTypes, Days
<1>2. PICK o \in Streams : o = OutFile /\ o.day = c /\ o.held = InStream(c)
  <2>1. StreamIs(Opened, c, FALSE, m_ofsOutFile.held)
    BY <1>1, OpenSet DEF Opened, StreamIs
  <2>2. c # 0
    BY <1>1, FilesTypes
  <2> QED BY <1>1, <2>1, <2>2 DEF OutFile, StreamIs, StreamInv, IsOpen, InStream
<1>3. PICK h \in Lines : h = o.held
  BY DEF Streams
<1>4. y \in Lines /\ h \o y \in Lines
  <2>1. y \in Lines
    BY <1>1 DEF Calls
  <2> QED BY <2>1, LinesJoin
<1>5. m_ofsOutFile' \in Streams /\ m_ofsOutFile'.day = c /\ m_ofsOutFile'.held = h \o y
  <2>1. StreamIs([o EXCEPT !.held = h \o y], o.day, o.fail, h \o y)
    BY <1>4, HeldSet
  <2> QED BY <1>2, <1>3, <2>1 DEF WriteHeld, StreamIs
<1>6. /\ UNCHANGED <<today, m_sCurDate, mishap, disk>> /\ ~At("remove") /\ ~At("rename")
      /\ logged' = [logged EXCEPT ![c] = @ \o y] /\ writeFile' = NoCall
  BY DEF WriteHeld, Writable, At
<1>7. writeFile' \in Calls /\ ~At("remove")' /\ ~At("rename")'
  BY <1>6, NoCallIs DEF At, CallIs
<1> HIDE DEF c, y
<1>8. logged' \in [Days -> Lines] /\ logged'[c] = logged[c] \o y /\ \A d \in Days : d # c => logged'[d] = logged[d]
  <2>1. logged[c] \o y \in Lines
    BY <1>1, <1>4, FilesTypes, LinesJoin
  <2> QED BY <1>1, <1>6, <2>1 DEF FileTypes
<1>9. FileTypes'
  BY <1>1, <1>5, <1>6, <1>7, <1>8 DEF FileTypes
<1>10. StreamInv' /\ GapEmpty'
  <2>1. c # 0
    BY <1>1, FilesTypes
  <2> QED BY <1>5, <1>6, <1>7, <2>1 DEF StreamInv, GapEmpty, IsOpen, c
<1>11. Later'
  <2>1. \A d \in Days : d > m_sCurDate' => d # c
    BY <1>1, <1>6 DEF c, Days
  <2> QED BY <1>1, <1>6, <1>8, <2>1 DEF Later
<1>12. ASSUME NEW d \in Days PROVE \E x \in Lines : DayHolds(d, x)'
  <2>1. PICK x \in Lines : DayHolds(d, x)
    BY DEF FilesInv
  <2>2. CASE d = c
    <3>1. PICK t \in Lines, u \in Lines : t = Text(disk[d]) /\ u = t \o h
      BY <1>1, FilesTypes, LinesJoin
    <3>2. logged[c] = x \o u
      BY <1>2, <1>3, <2>1, <2>2, <3>1 DEF DayHolds, Ends
    <3>3. (x \o u) \o y = x \o (u \o y)
      <4>1. Regroups(x, u, y)
        BY <1>4, LinesRegroup
      <4> QED BY <4>1 DEF Regroups
    <3>4. (t \o h) \o y = t \o (h \o y)
      <4>1. Regroups(t, h, y)
        BY <1>4, LinesRegroup
      <4> QED BY <4>1 DEF Regroups
    <3>5. InStream(d)' = h \o y /\ Text(disk'[d]) = t
      BY <1>5, <1>6, <2>2, <3>1 DEF InStream
    <3>6. logged'[d] = x \o (Text(disk'[d]) \o InStream(d)')
      BY <1>8, <2>2, <3>1, <3>2, <3>3, <3>4, <3>5
    <3>7. d \notin mishap' => Shape(d, x)'
      BY <1>6, <1>7, <2>1 DEF DayHolds, Shape
    <3> QED BY <3>6, <3>7 DEF DayHolds, Ends
  <2>3. CASE d # c
    <3>1. InStream(d)' = InStream(d)
      <4>1. InStream(d) = <<>>
        BY <1>1, <2>3, FilesTypes DEF InStream, StreamInv, IsOpen, c
      <4> QED BY <1>5, <2>3, <4>1 DEF InStream
    <3>2. disk'[d] = disk[d] /\ logged'[d] = logged[d] /\ (d \notin mishap' => d \notin mishap) /\ (Shape(d, x) => Shape(d, x)')
      BY <1>6, <1>7, <1>8, <2>3 DEF Shape
    <3> QED BY <2>1, <3>1, <3>2, DaySame
  <2> QED BY <2>2, <2>3
<1> QED BY <1>9, <1>10, <1>11, <1>12 DEF FilesInv

\* Closing the file writes what the stream holds; the day ends as it did.
LEMMA CloseKeeps ==
    ASSUME FilesInv
    PROVE  /\ StreamIs(Closed, 0, m_ofsOutFile.fail, <<>>)
           /\ DiskClosed \in [Days -> Files]
           /\ \A d \in Days : /\ Text(DiskClosed[d]) = Text(disk[d]) \o InStream(d)
                              /\ \A k \in Numbers : k # 0 => DiskClosed[d][k] = disk[d][k]
                              /\ FileFull(disk[d], 0) => FileFull(DiskClosed[d], 0)
                              /\ d # m_sCurDate => DiskClosed[d] = disk[d]
<1> DEFINE c == m_ofsOutFile.day
           h == m_ofsOutFile.held
<1>1. FileTypes /\ StreamInv /\ m_ofsOutFile \in Streams /\ h \in Lines /\ c \in 0 .. MaxDay
  BY DEF FilesInv, FileTypes, Streams
<1>2. StreamIs(Closed, 0, m_ofsOutFile.fail, <<>>)
  <2>1. 0 \in 0 .. MaxDay /\ <<>> \in Lines
    BY <1>1, LinesJoin, FileNumbers
  <2> QED BY <1>1, <2>1, CloseSet DEF Closed
<1>3. CASE ~IsOpen
  <2>1. DiskClosed = disk
    BY <1>3 DEF DiskClosed
  <2>2. ASSUME NEW d \in Days PROVE Text(disk[d]) = Text(disk[d]) \o InStream(d)
    <3>1. InStream(d) = <<>>
      BY <1>3, FilesTypes, <1>1 DEF InStream, IsOpen
    <3> QED BY <1>1, <3>1, FilesTypes, LinesJoin
  <2> QED BY <1>1, <1>2, <2>1, <2>2 DEF FileTypes
<1>4. CASE IsOpen
  <2>1. DiskClosed = [disk EXCEPT ![c] = [disk[c] EXCEPT ![0] = @ \o h]] /\ c = m_sCurDate /\ c \in Days
    BY <1>1, <1>4 DEF DiskClosed, Appended, StreamInv, FileTypes
  <2> DEFINE f == disk[c]
             g == [disk[c] EXCEPT ![0] = @ \o h]
  <2>2. /\ f \in Files /\ g \in Files /\ Text(g) = Text(f) \o h /\ (\A k \in Numbers : k # 0 => g[k] = f[k])
        /\ FileFull(f, 0) => FileFull(g, 0)
    <3>1. f \in Files
      BY <1>1, <2>1, FilesTypes
    <3> HIDE DEF f, h
    <3> QED BY <1>1, <2>1, <3>1, DayGrows DEF f
  <2> HIDE DEF f, g, c, h
  <2>3. DiskClosed \in [Days -> Files] /\ DiskClosed[c] = g /\ \A d \in Days : d # c => DiskClosed[d] = disk[d]
    BY <1>1, <2>1, <2>2 DEF FileTypes, g
  <2>4. ASSUME NEW d \in Days
        PROVE  /\ Text(DiskClosed[d]) = Text(disk[d]) \o InStream(d)
               /\ \A k \in Numbers : k # 0 => DiskClosed[d][k] = disk[d][k]
               /\ FileFull(disk[d], 0) => FileFull(DiskClosed[d], 0)
               /\ d # m_sCurDate => DiskClosed[d] = disk[d]
    <3>1. CASE d = c
      BY <2>1, <2>2, <2>3, <3>1 DEF InStream, f, c, h
    <3>2. CASE d # c
      <4>1. InStream(d) = <<>>
        BY <3>2 DEF InStream, c
      <4>2. Text(disk[d]) \o <<>> = Text(disk[d])
        BY <1>1, FilesTypes, LinesJoin
      <4> QED BY <2>1, <2>3, <3>2, <4>1, <4>2
    <3> QED BY <3>1, <3>2
  <2> QED BY <1>2, <2>3, <2>4
<1> QED BY <1>3, <1>4

LEMMA ShiftTestKeeps == ASSUME FilesInv, ShiftTest PROVE FilesInv'
<1>1. FileTypes /\ StreamInv /\ Later /\ writeFile \in Calls /\ m_ofsOutFile \in Streams /\ today \in Days
  BY DEF FilesInv, FileTypes
<1>2. UNCHANGED <<today, logged, mishap>> /\ m_sCurDate' = today /\ ~At("remove") /\ ~At("rename")
  BY DEF ShiftTest, At
<1> DEFINE changed == m_sCurDate # today
           large == Len((IF changed THEN DiskClosed ELSE disk)[today][0]) >= m_dwLogFileMaxSize
<1>3. /\ IF changed \/ large THEN m_ofsOutFile' = Closed /\ disk' = DiskClosed ELSE UNCHANGED <<m_ofsOutFile, disk>>
      /\ Goes(IF large THEN "remove" ELSE "write")
  BY DEF ShiftTest
<1>4. large => FileFull(DiskClosed[today], 0)
  <2>1. large => FileFull(disk[today], 0) \/ FileFull(DiskClosed[today], 0)
    BY DEF FileFull
  <2> QED BY <1>1, <2>1, CloseKeeps
<1> HIDE DEF changed, large
<1>5. writeFile' \in Calls /\ ~At("rename")' /\ (At("remove")' => large)
  <2>1. CASE large
    <3>1. writeFile' = [writeFile EXCEPT !.at = "remove"]
      BY <1>3, <2>1 DEF Goes
    <3> QED BY <1>1, <2>1, <3>1, AtSet DEF CallIs, Places, At
  <2>2. CASE ~large
    <3>1. writeFile' = [writeFile EXCEPT !.at = "write"]
      BY <1>3, <2>2 DEF Goes
    <3> QED BY <1>1, <2>2, <3>1, AtSet DEF CallIs, Places, At
  <2> QED BY <2>1, <2>2
<1>6. CASE changed \/ large
  <2>1. m_ofsOutFile' = Closed /\ disk' = DiskClosed
    BY <1>3, <1>6
  <2>2. m_ofsOutFile' \in Streams /\ m_ofsOutFile'.day = 0 /\ m_ofsOutFile'.held = <<>>
    BY <2>1, CloseKeeps DEF StreamIs
  <2>3. FileTypes'
    BY <1>1, <1>2, <1>5, <2>1, <2>2, CloseKeeps, FileNumbers DEF FileTypes, Days
  <2>4. StreamInv' /\ GapEmpty'
    BY <1>5, <2>2 DEF StreamInv, GapEmpty, IsOpen
  <2>5. Later'
    <3>1. \A d \in Days : d > m_sCurDate' => d > m_sCurDate /\ d # m_sCurDate
      BY <1>1, <1>2 DEF FileTypes, Days
    <3> QED BY <1>1, <1>2, <2>1, <3>1, CloseKeeps DEF Later
  <2>6. ASSUME NEW d \in Days PROVE \E x \in Lines : DayHolds(d, x)'
    <3>1. PICK x \in Lines : DayHolds(d, x)
      BY DEF FilesInv
    <3>2. InStream(d)' = <<>> /\ Text(disk'[d]) = Text(disk[d]) \o InStream(d) /\ Text(disk'[d]) \in Lines
      <4>1. InStream(d)' = <<>>
        BY <1>1, <2>2, FilesTypes DEF InStream
      <4>2. Text(disk[d]) \o InStream(d) \in Lines
        BY <1>1, FilesTypes, LinesJoin
      <4> QED BY <2>1, <4>1, <4>2, CloseKeeps
    <3>3. Ends(d, x)'
      <4>1. Text(disk'[d]) \o <<>> = Text(disk'[d])
        BY <3>2, LinesJoin
      <4> QED BY <1>2, <3>1, <3>2, <4>1 DEF DayHolds, Ends
    <3>4. ASSUME d \notin mishap' PROVE Shape(d, x)'
      <4>1. Tidy(disk[d], x)
        BY <1>2, <3>1, <3>4 DEF DayHolds, Shape
      <4>2. \A k \in 1 .. N - 1 : disk'[d][k] = disk[d][k]
        <5>1. \A k \in 1 .. N - 1 : k \in Numbers /\ k # 0
          BY FileNumbers DEF Numbers, N
        <5> QED BY <2>1, <5>1, CloseKeeps
      <4>3. Tidy(disk'[d], x)
        BY <4>1, <4>2, TidySame
      <4>4. d = today /\ At("remove")' => Large(disk'[d], x)
        BY <1>4, <1>5, <2>1, <4>3, TidyIsLarge
      <4> QED BY <1>2, <1>5, <4>3, <4>4 DEF Shape
    <3> QED BY <3>3, <3>4 DEF DayHolds
  <2> QED BY <2>3, <2>4, <2>5, <2>6 DEF FilesInv
<1>7. CASE ~(changed \/ large)
  <2>1. UNCHANGED <<m_ofsOutFile, disk>> /\ ~At("remove")' /\ ~At("rename")' /\ m_sCurDate' = m_sCurDate
    BY <1>2, <1>3, <1>5, <1>7 DEF changed
  <2>2. StreamMoves
    BY <1>1, <2>1 DEF StreamMoves
  <2> QED BY <1>2, <1>5, <2>1, <2>2, StreamMovesKeeps
<1> QED BY <1>6, <1>7

\* What the two steps of a rotation share: the day's files change, nothing else does.
LEMMA TurnKeeps ==
    ASSUME FilesInv, UNCHANGED <<today, m_sCurDate, m_ofsOutFile, logged>>, NEW g \in Files,
           disk' = [disk EXCEPT ![today] = g], ~IsOpen, writeFile' \in Calls,
           At("rename")' => writeFile'.i \in 0 .. N - 2 /\ g[writeFile'.i + 1] = <<>>,
           (\A k \in Numbers : disk[today][k] = <<>>) => \A k \in Numbers : g[k] = <<>>,
           \A d \in Days : d # today => (d \notin mishap' => d \notin mishap),
           \E x \in Lines : DayHolds(today, x)'
    PROVE  FilesInv'
<1>1. FileTypes /\ StreamInv /\ Later /\ today \in Days
  BY DEF FilesInv, FileTypes
<1>2. disk' \in [Days -> Files] /\ disk'[today] = g /\ \A d \in Days : d # today => disk'[d] = disk[d]
  BY <1>1 DEF FileTypes
<1>3. FileTypes'
  BY <1>1, <1>2 DEF FileTypes
<1>4. StreamInv' /\ GapEmpty'
  BY <1>1, <1>2 DEF StreamInv, GapEmpty, IsOpen
<1>5. Later'
  <2> SUFFICES ASSUME NEW d \in Days, d > m_sCurDate PROVE logged[d] = <<>> /\ \A k \in Numbers : disk'[d][k] = <<>>
    BY DEF Later
  <2>1. logged[d] = <<>> /\ \A k \in Numbers : disk[d][k] = <<>>
    BY <1>1 DEF Later
  <2> QED BY <1>2, <2>1
<1>6. ASSUME NEW d \in Days PROVE \E x \in Lines : DayHolds(d, x)'
  <2>1. CASE d = today
    BY <2>1
  <2>2. CASE d # today
    <3>1. PICK x \in Lines : DayHolds(d, x)
      BY DEF FilesInv
    <3>2. disk'[d] = disk[d] /\ logged'[d] = logged[d] /\ InStream(d)' = InStream(d) /\ (Shape(d, x) => Shape(d, x)')
      BY <1>2, <2>2 DEF InStream, Shape
    <3> QED BY <2>2, <3>1, <3>2, DaySame
  <2> QED BY <2>1, <2>2
<1> QED BY <1>3, <1>4, <1>5, <1>6 DEF FilesInv

\* A call that fails leaves the files as they are and the day among the mishaps.
LEMMA TurnFails ==
    ASSUME FilesInv, UNCHANGED <<today, m_sCurDate, m_ofsOutFile, logged, disk>>, At("remove") \/ At("rename"),
           Refuse, mishap' = mishap \cup {today}
    PROVE  FilesInv'
<1>1. FileTypes /\ today \in Days /\ disk[today] \in Files /\ disk' = [disk EXCEPT ![today] = disk[today]] /\ ~IsOpen
  BY FilesTypes DEF FilesInv, FileTypes, StreamInv
<1>2. writeFile' \in Calls /\ ~At("rename")'
  BY NoCallIs DEF Refuse, CallIs, At
<1>3. PICK x \in Lines : DayHolds(today, x)
  BY <1>1 DEF FilesInv
<1>4. DayHolds(today, x)'
  BY <1>3 DEF DayHolds, Ends, InStream
<1> QED BY <1>1, <1>2, <1>4, TurnKeeps

LEMMA ShiftRemoveKeeps == ASSUME FilesInv, ShiftRemove PROVE FilesInv'
<1>1. /\ UNCHANGED <<today, m_sCurDate, m_ofsOutFile, logged>> /\ At("remove") /\ ~IsOpen /\ FileTypes /\ today \in Days
      /\ writeFile \in Calls
  BY DEF ShiftRemove, FilesInv, StreamInv, FileTypes
<1>2. CASE /\ disk' = [disk EXCEPT ![today][m_uiLogFileNum - 1] = <<>>]
           /\ writeFile' = [writeFile EXCEPT !.at = "rename", !.i = m_uiLogFileNum - 2]
           /\ UNCHANGED mishap
  <2>1. PICK k \in Numbers, i \in 0 .. N - 2 : k = N - 1 /\ i = N - 2 /\ k = i + 1
    BY FileNumbers DEF Numbers, N
  <2>2. PICK f \in Files : f = disk[today]
    BY <1>1, FilesTypes
  <2>3. PICK g : g = [f EXCEPT ![k] = <<>>]
    OBVIOUS
  <2>4. g \in Files /\ Text(f) = f[k] \o Text(g)
    BY <2>1, <2>3, TextWithoutOldest
  <2>5. disk' = [disk EXCEPT ![today] = g]
    BY <1>2, <2>1, <2>2, <2>3 DEF N
  <2>6. writeFile' \in Calls /\ At("rename")' /\ writeFile'.i = i
    <3>1. CallIs([writeFile EXCEPT !.at = "rename", !.i = i], "rename", writeFile.lines, i)
      <4>1. i \in Int /\ "rename" \in Places
        BY DEF Places
      <4> QED BY <1>1, <4>1, AtTurnSet
    <3> QED BY <1>2, <2>1, <3>1 DEF CallIs, At, N
  <2>7. g[k] = <<>> /\ ((\A j \in Numbers : f[j] = <<>>) => \A j \in Numbers : g[j] = <<>>)
    BY <2>3 DEF Files
  <2>8. PICK x \in Lines : DayHolds(today, x)
    BY <1>1 DEF FilesInv
  <2>9. PICK y \in Lines, t \in Lines, u \in Lines, v \in Lines : y = f[k] /\ t = Text(g) /\ u = InStream(today) /\ v = x \o y
    BY <1>1, <2>4, TextIs, FilesTypes, LinesJoin
  <2>10. logged[today] = v \o (t \o u)
    <3>1. logged[today] = x \o ((y \o t) \o u)
      BY <2>2, <2>4, <2>8, <2>9 DEF DayHolds, Ends
    <3>2. (y \o t) \o u = y \o (t \o u)
      <4>1. Regroups(y, t, u)
        BY LinesRegroup
      <4> QED BY <4>1 DEF Regroups
    <3>3. t \o u \in Lines
      BY LinesJoin
    <3>4. (x \o y) \o (t \o u) = x \o (y \o (t \o u))
      <4>1. Regroups(x, y, t \o u)
        BY <3>3, LinesRegroup
      <4> QED BY <4>1 DEF Regroups
    <3> QED BY <2>9, <3>1, <3>2, <3>4
  <2>11. disk'[today] = g /\ InStream(today)' = u
    BY <1>1, <2>5, <2>9 DEF FileTypes, InStream
  <2>12. Ends(today, v)'
    BY <1>1, <2>9, <2>10, <2>11 DEF Ends
  <2>13. today \notin mishap => Gap(g, v, i)
    <3>1. today \notin mishap => Large(f, x)
      BY <1>1, <2>2, <2>8 DEF DayHolds, Shape
    <3> QED BY <2>1, <2>3, <2>9, <3>1, LargeIsGap
  <2>14. DayHolds(today, v)'
    BY <1>1, <1>2, <2>6, <2>11, <2>12, <2>13 DEF DayHolds, Shape, At
  <2>15. At("rename")' => writeFile'.i \in 0 .. N - 2 /\ g[writeFile'.i + 1] = <<>>
    BY <2>1, <2>6, <2>7
  <2> QED BY <1>1, <1>2, <2>2, <2>4, <2>5, <2>6, <2>7, <2>14, <2>15, TurnKeeps
<1>3. CASE Refuse /\ mishap' = mishap \cup {today} /\ UNCHANGED disk
  BY <1>1, <1>3, TurnFails
<1> QED BY <1>2, <1>3 DEF ShiftRemove

LEMMA ShiftRenameKeeps == ASSUME FilesInv, ShiftRename PROVE FilesInv'
<1> DEFINE next == IF writeFile.i = 0 THEN [writeFile EXCEPT !.at = "write"] ELSE [writeFile EXCEPT !.i = writeFile.i - 1]
<1>1. /\ UNCHANGED <<today, m_sCurDate, m_ofsOutFile, logged>> /\ At("rename") /\ ~IsOpen /\ FileTypes /\ today \in Days
      /\ writeFile \in Calls /\ writeFile.i \in 0 .. N - 2 /\ disk[today][writeFile.i + 1] = <<>>
  BY DEF ShiftRename, FilesInv, StreamInv, FileTypes, GapEmpty
<1>2. PICK i \in 0 .. N - 2, k \in Numbers : i = writeFile.i /\ k = i + 1 /\ i \in Numbers
  BY <1>1, FileNumbers DEF Numbers, N
<1>3. PICK f \in Files : f = disk[today] /\ f[k] = <<>>
  BY <1>1, <1>2, FilesTypes
<1>4. next \in Calls /\ IF i = 0 THEN next.at = "write" ELSE next.at = "rename" /\ next.i = i - 1 /\ i - 1 \in 0 .. N - 2
  <2>1. CASE i = 0
    <3>1. CallIs([writeFile EXCEPT !.at = "write"], "write", writeFile.lines, writeFile.i)
      BY <1>1, AtSet DEF Places
    <3> QED BY <1>2, <2>1, <3>1 DEF CallIs
  <2>2. CASE i # 0
    <3>1. PICK h \in 0 .. N - 2 : h = i - 1
      <4>1. i - 1 \in 0 .. N - 2
        BY <2>2, FileNumbers
      <4> QED BY <4>1
    <3>2. CallIs([writeFile EXCEPT !.i = h], writeFile.at, writeFile.lines, h)
      BY <1>1, TurnSet
    <3> QED BY <1>1, <1>2, <2>2, <3>1, <3>2 DEF CallIs, At
  <2> QED BY <2>1, <2>2
<1> HIDE DEF next
<1>5. PICK x \in Lines : DayHolds(today, x)
  BY <1>1 DEF FilesInv
<1>6. today \notin mishap => Gap(f, x, i)
  BY <1>1, <1>2, <1>3, <1>5 DEF DayHolds, Shape, At
<1>7. ASSUME NEW g \in Files, disk' = [disk EXCEPT ![today] = g], writeFile' = next, UNCHANGED mishap, Text(g) = Text(f),
             g[i] = <<>>, (\A j \in Numbers : f[j] = <<>>) => \A j \in Numbers : g[j] = <<>>,
             today \notin mishap => Passed(g, x, i)
      PROVE  FilesInv'
  <2>1. disk'[today] = g /\ InStream(today)' = InStream(today)
    BY <1>1, <1>7 DEF FileTypes, InStream
  <2>2. Ends(today, x)'
    BY <1>1, <1>3, <1>5, <1>7, <2>1 DEF DayHolds, Ends
  <2>3. today \notin mishap' => Shape(today, x)'
    BY <1>1, <1>4, <1>7, <2>1 DEF Shape, Passed, At
  <2>4. At("rename")' => writeFile'.i \in 0 .. N - 2 /\ g[writeFile'.i + 1] = <<>>
    BY <1>4, <1>7 DEF At
  <2>5. DayHolds(today, x)'
    BY <1>1, <2>2, <2>3 DEF DayHolds
  <2>6. writeFile' \in Calls
    BY <1>4, <1>7
  <2> QED BY <1>1, <1>3, <1>7, <2>4, <2>5, <2>6, TurnKeeps
<1>8. CASE f[i] = <<>> /\ writeFile' = next /\ UNCHANGED <<disk, mishap>>
  <2>1. disk' = [disk EXCEPT ![today] = f]
    BY <1>1, <1>3, <1>8 DEF FileTypes
  <2>2. today \notin mishap => Passed(f, x, i)
    BY <1>2, <1>3, <1>6, <1>8, GapEmptyPasses
  <2> QED BY <1>7, <1>8, <2>1, <2>2
<1>9. CASE /\ f[i] # <<>> /\ disk' = [disk EXCEPT ![today][i + 1] = disk[today][i], ![today][i] = <<>>]
           /\ writeFile' = next /\ UNCHANGED mishap
  <2>1. PICK g : g = [f EXCEPT ![k] = f[i], ![i] = <<>>]
    OBVIOUS
  <2>2. g \in Files /\ Text(g) = Text(f)
    BY <1>2, <1>3, <2>1, TextRenamed
  <2>3. disk' = [disk EXCEPT ![today] = g]
    BY <1>1, <1>2, <1>3, <1>9, <2>1 DEF FileTypes
  <2>4. g[i] = <<>>
    BY <1>2, <2>1 DEF Files
  <2>5. today \notin mishap => Passed(g, x, i)
    BY <1>2, <1>6, <1>9, <2>1, GapFullPasses
  <2> QED BY <1>2, <1>7, <1>9, <2>2, <2>3, <2>4, <2>5
<1>10. CASE Refuse /\ mishap' = mishap \cup {today} /\ UNCHANGED disk
  BY <1>1, <1>10, TurnFails
<1> QED BY <1>2, <1>3, <1>8, <1>9, <1>10 DEF ShiftRename, next

LEMMA FilesStep == FilesInv /\ [FilesNext]_fileVars => FilesInv'
<1> SUFFICES ASSUME FilesInv, [FilesNext]_fileVars PROVE FilesInv'
  OBVIOUS
<1>1. CASE UNCHANGED fileVars
  <2>1. UNCHANGED <<today, m_sCurDate, m_ofsOutFile, disk, writeFile, logged, mishap>>
    BY <1>1 DEF fileVars
  <2>2. FileTypes' /\ StreamInv' /\ Later' /\ GapEmpty'
    BY <2>1 DEF FilesInv, FileTypes, StreamInv, Later, GapEmpty, IsOpen, At
  <2>3. ASSUME NEW d \in Days, NEW x, DayHolds(d, x) PROVE DayHolds(d, x)'
    BY <2>1, <2>3 DEF DayHolds, Ends, Shape, InStream, At
  <2>4. \A d \in Days : \E x \in Lines : DayHolds(d, x)'
    BY <2>3 DEF FilesInv
  <2> QED BY <2>2, <2>4 DEF FilesInv
<1>2. CASE FilesNext
  BY <1>2, MidnightKeeps, WriteBeginsKeeps, OpenBeforeShiftKeeps, ShiftTestKeeps, ShiftRemoveKeeps, ShiftRenameKeeps,
     WriteRefusedKeeps, WriteThroughKeeps, WriteHeldKeeps DEF FilesNext, ShiftFiles, WriteFile
<1> QED BY <1>1, <1>2

LEMMA FilesSay == FilesInv => LogKeepsNewest
<1> SUFFICES ASSUME FilesInv, NEW d \in Days
             PROVE  /\ IsSuffix(DayAsRead(d), logged[d])
                    /\ DayAsRead(d) # logged[d] /\ d \notin mishap /\ At("idle")
                         => \A k \in Numbers \ {0} : Len(disk[d][k]) >= m_dwLogFileMaxSize
  BY DEF LogKeepsNewest
<1>1. PICK x \in Lines : DayHolds(d, x)
  BY DEF FilesInv
<1>2. DayAsRead(d) = Text(disk[d]) \o InStream(d)
  BY DEF DayAsRead, Text, InStream, N
<1>3. PICK s \in Lines : s = DayAsRead(d)
  BY <1>2, FilesTypes, LinesJoin DEF FilesInv
<1>4. logged[d] = x \o s
  BY <1>1, <1>2, <1>3 DEF DayHolds, Ends
<1>5. IsSuffix(s, logged[d])
  BY <1>4, IsEnd
<1>6. ASSUME s # logged[d], d \notin mishap, At("idle"), NEW k \in Numbers \ {0} PROVE Len(disk[d][k]) >= m_dwLogFileMaxSize
  <2>1. x # <<>>
    BY <1>4, <1>6, LinesJoin
  <2>2. Tidy(disk[d], x)
    BY <1>1, <1>6 DEF DayHolds, Shape, At
  <2>3. k \in 1 .. N - 1
    BY FileNumbers DEF Numbers, N
  <2>4. FullUpTo(disk[d], k, N - 1)
    BY <2>1, <2>2, <2>3 DEF Tidy
  <2> QED BY <2>3, <2>4 DEF FullUpTo, FileFull
<1> QED BY <1>3, <1>5, <1>6

\* Through every rotation, failed call and midnight the files of a day, read from
\* the oldest to the newest with what the stream holds, are the end of what
\* CFileLog or CAsyncLog wrote that day; older lines are missing only when the
\* older files are full, unless a remove or rename failed or midnight fell between.
THEOREM NewestAreKept == FilesSpec => []LogKeepsNewest
<1>1. FilesInit => FilesInv
  BY FilesStart
<1>2. FilesInv /\ [FilesNext]_fileVars => FilesInv'
  BY FilesStep
<1>3. FilesInv => LogKeepsNewest
  BY FilesSay
<1> QED BY <1>1, <1>2, <1>3, PTL DEF FilesSpec
=============================================================================
