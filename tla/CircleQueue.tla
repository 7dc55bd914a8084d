---------------------------- MODULE CircleQueue ----------------------------
(***************************************************************************)
(* CCircleQueue<T>, the lock-free ring that CNetWorkerMgr's accept thread  *)
(* fills and a CNetWorker's thread drains.  One producer calls enque and   *)
(* one consumer calls deque; the only synchronisation is the order of the  *)
(* reads and writes of m_dwFront, m_dwRear and the slots, so each shared   *)
(* access that the other thread can see is a step of its own.              *)
(*                                                                         *)
(* The element is stored before m_dwRear is: in the build the Makefile     *)
(* asks for (g++ -O2, x86-64) the two stores stay in program order, and    *)
(* the machine makes them visible in that order.                           *)
(***************************************************************************)
EXTENDS Naturals, Sequences

CONSTANTS Elems,      (* the elements (client records) that are handed over *)
          InitSize,   (* the argument of init()                             *)
          None        (* what a slot of the new array holds                 *)

ASSUME CircleQueueAssumption ==
    /\ InitSize \in Nat
    /\ None \notin Elems

VARIABLES pData,      (* the array                                          *)
          m_dwFront,  (* written by the consumer only                       *)
          m_dwRear,   (* written by the producer only                       *)
          enquePc, enqueElem,   (* the producer: where it is, its argument  *)
          dequePc, dequeElem,   (* the consumer: where it is, its copy      *)
          answer,     (* what the last enque returned                       *)
          taken       (* what the last deque handed out; None for "empty"   *)

producer == <<enquePc, enqueElem, answer>>
consumer == <<dequePc, dequeElem, taken>>
vars == <<pData, m_dwFront, m_dwRear, enquePc, enqueElem, dequePc, dequeElem,
          answer, taken>>

-----------------------------------------------------------------------------
(* init(dwSize): 0 stands for 1000, and one slot more than asked for is    *)
(* allocated, so that a full ring differs from an empty one.               *)
Capacity == IF InitSize < 1 THEN 1000 ELSE InitSize
m_dwSize_NoSpare == Capacity
m_dwSize == Capacity + 1
Slots == 0 .. m_dwSize - 1

Advance(i) == (i + 1) % m_dwSize
Empty == m_dwFront = m_dwRear
Full_Never == FALSE
Full == Advance(m_dwRear) = m_dwFront

Init ==
    /\ pData = [i \in Slots |-> None]
    /\ m_dwFront = 0 /\ m_dwRear = 0
    /\ enquePc = "idle" /\ enqueElem = None /\ answer = TRUE
    /\ dequePc = "idle" /\ dequeElem = None /\ taken = None

-----------------------------------------------------------------------------
(* enque: the full() test, the store of the element, the store of m_dwRear. *)
EnqueRefused ==
    /\ enquePc = "idle" /\ Full
    /\ answer' = FALSE
    /\ UNCHANGED <<pData, m_dwFront, m_dwRear, enquePc, enqueElem, consumer>>

EnqueBegin(e) ==
    /\ enquePc = "idle" /\ ~Full
    /\ enquePc' = "store" /\ enqueElem' = e
    /\ UNCHANGED <<pData, m_dwFront, m_dwRear, answer, consumer>>

EnqueStore ==
    /\ enquePc = "store"
    /\ pData' = [pData EXCEPT ![m_dwRear] = enqueElem]
    /\ enquePc' = "publish"
    /\ UNCHANGED <<m_dwFront, m_dwRear, enqueElem, answer, consumer>>

EnquePublish ==
    /\ enquePc = "publish"
    /\ m_dwRear' = Advance(m_dwRear)
    /\ enquePc' = "idle" /\ enqueElem' = None /\ answer' = TRUE
    /\ UNCHANGED <<pData, m_dwFront, consumer>>

(* deque: the empty() test, the load of the element, the store of m_dwFront. *)
DequeRefused ==
    /\ dequePc = "idle" /\ Empty
    /\ taken' = None
    /\ UNCHANGED <<pData, m_dwFront, m_dwRear, dequePc, dequeElem, producer>>

DequeBegin ==
    /\ dequePc = "idle" /\ ~Empty
    /\ dequePc' = "load"
    /\ UNCHANGED <<pData, m_dwFront, m_dwRear, dequeElem, taken, producer>>

DequeLoad ==
    /\ dequePc = "load"
    /\ dequeElem' = pData[m_dwFront]
    /\ dequePc' = "release"
    /\ UNCHANGED <<pData, m_dwFront, m_dwRear, taken, producer>>

DequeRelease ==
    /\ dequePc = "release"
    /\ m_dwFront' = Advance(m_dwFront)
    /\ dequePc' = "idle" /\ taken' = dequeElem /\ dequeElem' = None
    /\ UNCHANGED <<pData, m_dwRear, producer>>

Producer == EnqueRefused \/ (\E e \in Elems : EnqueBegin(e)) \/ EnqueStore \/ EnquePublish
Consumer == DequeRefused \/ DequeBegin \/ DequeLoad \/ DequeRelease
Next == Producer \/ Consumer

Spec == Init /\ [][Next]_vars

-----------------------------------------------------------------------------
(* The number of published elements, and the slot of the k-th of them.     *)
Used == IF m_dwFront <= m_dwRear THEN m_dwRear - m_dwFront
                                 ELSE m_dwSize - m_dwFront + m_dwRear
SlotAt(k) == IF m_dwFront + k < m_dwSize THEN m_dwFront + k
                                         ELSE m_dwFront + k - m_dwSize

TypeOK ==
    /\ pData \in [Slots -> Elems \cup {None}]
    /\ m_dwFront \in Slots /\ m_dwRear \in Slots
    /\ enquePc \in {"idle", "store", "publish"}
    /\ enqueElem \in Elems \cup {None}
    /\ dequePc \in {"idle", "load", "release"}
    /\ dequeElem \in Elems \cup {None}
    /\ answer \in BOOLEAN
    /\ taken \in Elems \cup {None}

(* The two threads are never on the same slot: while the producer is       *)
(* storing an element and the consumer is loading one, they work on        *)
(* different slots, although neither holds a lock.                         *)
NoSlotRace ==
    enquePc \in {"store", "publish"} /\ dequePc \in {"load", "release"}
        => m_dwRear # m_dwFront

(* Whatever deque is about to hand out was put there by an enque that      *)
(* completed, and is still in its slot: the consumer never hands out the   *)
(* content of a slot nobody wrote, nor one written again under its feet.   *)
TakesWhatWasPut ==
    dequePc = "release" => dequeElem \in Elems /\ dequeElem = pData[m_dwFront]

(* The ring implements the bounded queue: no element lost, duplicated,     *)
(* reordered or refused while there is room for it.                        *)
Fifo == INSTANCE BoundedFifo
            WITH fifo <- [k \in 1 .. Used |-> pData[SlotAt(k - 1)]]

ImplementsFifo == Fifo!Spec
=============================================================================
