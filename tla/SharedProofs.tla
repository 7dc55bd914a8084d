---------------------------- MODULE SharedProofs ----------------------------
(***************************************************************************)
(* Proofs about memory that processes or threads share.                    *)
(*                                                                         *)
(* ShmArray, for any number of processes and deaths and any sizes: no      *)
(* header promises more nodes than the segment has, and a process is given *)
(* what it asked for while the segment has one maker.                      *)
(*                                                                         *)
(* BlockQueue, for any number of threads and any size of the ring: a       *)
(* thread that holds the mutex finds the counters and the ring in order,   *)
(* as long as no pop goes on after a bare return of its wait, and what the *)
(* threads then do to the queue, clear apart, is what a bounded FIFO does. *)
(*                                                                         *)
(* AsyncLog, for any number of callers of flush and any size of a buffer:  *)
(* until two flushes meet, or a reset meets a write, every line accepted   *)
(* is in the file or in a buffer, whole, once and in its place.            *)
(*                                                                         *)
(* BitMap, for any size and all widths: the groups leave no gap, two cells *)
(* share no bit, and the masks that are too wide reach later cells only,   *)
(* so get returns what set wrote, but for the bits such a mask has taken.  *)
(***************************************************************************)
EXTENDS ShmArray, BlockQueue, AsyncLog, BitMap, SequenceTheorems, FiniteSetTheorems, TLAPS

-----------------------------------------------------------------------------
(* ShmArray.                                                               *)
Places == {"look", "make", "attach", "head", "nodes", "ready"}
Segments == [size : Nat, dwNodeSize : Nat, pNodes : BOOLEAN, made : {1, 2}]
Processing == [at : Places, n : Nat, create : BOOLEAN, readOnly : BOOLEAN,
               m_bCreate : BOOLEAN, m_pNodes : BOOLEAN, early : BOOLEAN]

\* The types of what processes share and of what each has.
TypeOK ==
    /\ segment \in Segments \cup {NoSegment}
    /\ process \in [Processes -> Processing \cup {Out}]

\* A header that is filled in fits the segment; while there is one maker, it is
\* empty or has the whole segment, and has it before the nodes are pointed to.
HeaderFits ==
    Exists =>
        /\ segment.dwNodeSize <= segment.size
        /\ segment.made = 1 /\ segment.pNodes => segment.dwNodeSize = segment.size

\* What p knows once it has an identifier of the segment: that it is large enough,
\* and, when it takes itself for the only maker, that it is just as large.
Attached(p) == process[p].at \in {"attach", "head", "nodes", "ready"}
KnowsSegment(p) ==
    /\ process[p].at \in {"look", "make"} => ~process[p].m_bCreate
    /\ Attached(p) => Exists /\ process[p].n <= segment.size
    /\ Attached(p) /\ process[p].m_bCreate /\ segment.made = 1 => process[p].n = segment.size
    /\ process[p].at = "nodes" =>
         process[p].m_bCreate /\ (segment.made = 1 => segment.dwNodeSize = segment.size)
    /\ process[p].at = "ready" =>
         /\ process[p].m_pNodes \/ process[p].early
         /\ process[p].m_pNodes => segment.pNodes

IInv == TypeOK /\ HeaderFits /\ \A p \in Processes : KnowsSegment(p)

-----------------------------------------------------------------------------
LEMMA InitIInv == ShmInit => IInv
BY DEF ShmInit, IInv, TypeOK, HeaderFits, KnowsSegment, Attached, Exists, NoSegment, Out

LEMMA IInvAsAsked == IInv => ArrayAsAsked
<1>. SUFFICES ASSUME IInv, Exists PROVE ArrayAsAsked
  BY DEF ArrayAsAsked
<1>1. segment \in Segments /\ segment.dwNodeSize <= segment.size
  BY DEF IInv, TypeOK, HeaderFits, Exists
<1>2. ASSUME NEW p \in Processes, process[p].at = "ready"
      PROVE  /\ process[p].m_pNodes \/ process[p].early
             /\ process[p].m_pNodes => segment.pNodes
             /\ process[p].m_pNodes /\ segment.made = 1 => process[p].n <= segment.dwNodeSize
  BY <1>1, <1>2 DEF IInv, HeaderFits, KnowsSegment, Attached, Segments
<1>. QED  BY <1>1, <1>2 DEF ArrayAsAsked

-----------------------------------------------------------------------------
(* A step in which the segment stays and p alone moves: what is left to    *)
(* show is p's new record.                                                 *)
LEMMA OneMoves ==
    ASSUME IInv, NEW p \in Processes, NEW r \in Processing \cup {Out},
           Becomes(p, r), UNCHANGED segment,
           KnowsSegment(p)'
    PROVE  IInv'
<1>1. TypeOK' /\ HeaderFits'
  BY DEF IInv, TypeOK, HeaderFits, Exists, Becomes
<1>2. ASSUME NEW q \in Processes, q # p PROVE KnowsSegment(q)'
  BY <1>2 DEF IInv, TypeOK, KnowsSegment, Attached, Exists, Becomes
<1>. QED  BY <1>1, <1>2 DEF IInv

(* Leaving, by the end of a call, a failed one or death.                   *)
LEMMA Leaving ==
    ASSUME IInv, NEW p \in Processes, Becomes(p, Out), UNCHANGED segment
    PROVE  IInv'
<1>1. process'[p] = Out
  BY DEF IInv, TypeOK, Becomes
<1>2. KnowsSegment(p)'
  BY <1>1 DEF KnowsSegment, Attached, Out
<1>. QED  BY <1>2, OneMoves

(* The steps that leave the segment as it is.                              *)
LEMMA InitFreshStep == ASSUME IInv, NEW p \in Processes, InitFresh(p) PROVE IInv'
<1>1. PICK n \in NodeSizes, create, readOnly \in BOOLEAN :
         Becomes(p, [at |-> "look", n |-> n, create |-> create, readOnly |-> readOnly,
                     m_bCreate |-> FALSE, m_pNodes |-> FALSE, early |-> FALSE])
  BY DEF InitFresh
<1>. DEFINE r == [at |-> "look", n |-> n, create |-> create, readOnly |-> readOnly,
                  m_bCreate |-> FALSE, m_pNodes |-> FALSE, early |-> FALSE]
<1>2. r \in Processing
  BY ShmArrayAssumption DEF Processing, Places
<1>3. process'[p] = r
  BY <1>1 DEF IInv, TypeOK, Becomes
<1>4. KnowsSegment(p)'
  BY <1>3 DEF KnowsSegment, Attached
<1>5. Becomes(p, r) /\ UNCHANGED segment
  BY <1>1 DEF InitFresh
<1>. QED  BY <1>2, <1>4, <1>5, OneMoves

(* p goes on from a place inside init, with a record that differs there.   *)
LEMMA InsideInit ==
    ASSUME IInv, NEW p \in Processes, process[p].at # "out"
    PROVE  process[p] \in Processing /\ KnowsSegment(p)
BY DEF IInv, TypeOK, Out

LEMMA InitAgainStep == ASSUME IInv, NEW p \in Processes, InitAgain(p) PROVE IInv'
<1>1. PICK to \in {"head", "look"} :
         Becomes(p, [process[p] EXCEPT !.at = to, !.m_bCreate = FALSE])
  BY DEF InitAgain
<1>. DEFINE r == [process[p] EXCEPT !.at = to, !.m_bCreate = FALSE]
<1>2. process[p].at = "ready" /\ process[p] \in Processing /\ KnowsSegment(p)
  BY InsideInit DEF InitAgain
<1>3. r \in Processing /\ r.at = to /\ r.m_bCreate = FALSE /\ r.n = process[p].n
  BY <1>2 DEF Processing, Places
<1>4. process'[p] = r /\ UNCHANGED segment
  BY <1>1 DEF IInv, TypeOK, Becomes, InitAgain
<1>5. KnowsSegment(p)'
  BY <1>2, <1>3, <1>4 DEF KnowsSegment, Attached, Exists
<1>. QED  BY <1>1, <1>3, <1>4, <1>5, OneMoves

LEMMA LookStep == ASSUME IInv, NEW p \in Processes, Look(p) PROVE IInv'
<1>. DEFINE to == IF LargeEnough(p) THEN "attach" ELSE "make"
            r == [process[p] EXCEPT !.at = to]
<1>1. Becomes(p, r) /\ UNCHANGED segment
  BY DEF Look, Steps
<1>2. process[p].at = "look" /\ process[p] \in Processing /\ KnowsSegment(p)
  BY InsideInit DEF Look
<1>3. r \in Processing /\ r.at = to /\ r.m_bCreate = FALSE /\ r.n = process[p].n
  BY <1>2 DEF Processing, Places, KnowsSegment
<1>4. process'[p] = r
  BY <1>1 DEF IInv, TypeOK, Becomes
<1>5. to = "attach" => Exists /\ process[p].n <= segment.size
  BY <1>2 DEF LargeEnough, Exists, IInv, TypeOK, Segments, Processing
<1>6. KnowsSegment(p)'
  BY <1>1, <1>3, <1>4, <1>5 DEF KnowsSegment, Attached, Exists
<1>. QED  BY <1>1, <1>3, <1>6, OneMoves

LEMMA AttachStep == ASSUME IInv, NEW p \in Processes, Attach(p) PROVE IInv'
<1>. DEFINE r == [process[p] EXCEPT !.at = "head"]
<1>1. Becomes(p, r) /\ UNCHANGED segment
  BY DEF Attach, Steps
<1>2. process[p].at = "attach" /\ process[p] \in Processing /\ KnowsSegment(p)
  BY InsideInit DEF Attach
<1>3. r \in Processing /\ r.at = "head" /\ r.m_bCreate = process[p].m_bCreate /\ r.n = process[p].n
  BY <1>2 DEF Processing, Places
<1>4. process'[p] = r
  BY <1>1 DEF IInv, TypeOK, Becomes
<1>5. KnowsSegment(p)'
  BY <1>1, <1>2, <1>3, <1>4 DEF KnowsSegment, Attached, Exists
<1>. QED  BY <1>1, <1>3, <1>5, OneMoves

LEMMA ReadHeadStep == ASSUME IInv, NEW p \in Processes, ReadHead(p) PROVE IInv'
<1>. DEFINE r == [process[p] EXCEPT !.at = "ready", !.m_pNodes = segment.pNodes,
                                    !.early = ~segment.pNodes]
<1>1. Becomes(p, r) /\ UNCHANGED segment
  BY DEF ReadHead
<1>2. process[p].at = "head" /\ ~process[p].m_bCreate
      /\ process[p] \in Processing /\ KnowsSegment(p)
  BY InsideInit DEF ReadHead
<1>3. segment \in Segments
  BY <1>2 DEF IInv, TypeOK, KnowsSegment, Attached, Exists
<1>4. /\ r \in Processing /\ r.at = "ready" /\ r.m_bCreate = process[p].m_bCreate
      /\ r.n = process[p].n /\ r.m_pNodes = segment.pNodes /\ r.early = ~segment.pNodes
  BY <1>2, <1>3 DEF Processing, Places, Segments
<1>5. process'[p] = r
  BY <1>1 DEF IInv, TypeOK, Becomes
<1>6. KnowsSegment(p)'
  BY <1>1, <1>2, <1>4, <1>5 DEF KnowsSegment, Attached, Exists
<1>. QED  BY <1>1, <1>4, <1>6, OneMoves

-----------------------------------------------------------------------------
(* The steps of whoever takes itself for the maker: another maker only     *)
(* takes something from what the others know of the segment.               *)
LEMMA MakeStep == ASSUME IInv, NEW p \in Processes, Make(p) PROVE IInv'
<1>1. process[p].at = "make" /\ process[p] \in Processing /\ KnowsSegment(p)
  BY InsideInit DEF Make
<1>2. process[p].n \in Nat
  BY <1>1 DEF Processing
<1>. DEFINE r == [process[p] EXCEPT !.at = "attach", !.m_bCreate = TRUE]
<1>3. /\ r \in Processing /\ r.at = "attach" /\ r.m_bCreate = TRUE /\ r.n = process[p].n
  BY <1>1 DEF Processing, Places
<1>4. CASE (Exists /\ ~LargeEnough(p)) \/ (~Exists /\ ~process[p].create)
  <2>1. Becomes(p, Out) /\ UNCHANGED segment
    BY <1>4 DEF Make, LargeEnough
  <2>. QED  BY <2>1, Leaving
<1>5. CASE ~Exists /\ process[p].create
  <2>1. segment' = [size |-> process[p].n, dwNodeSize |-> 0, pNodes |-> FALSE, made |-> 1]
    BY <1>5 DEF Make
  <2>2. Becomes(p, r)
    BY <1>5 DEF Make
  <2>3. segment' \in Segments /\ segment'.size = process[p].n /\ segment'.dwNodeSize = 0
        /\ segment'.pNodes = FALSE /\ segment'.made = 1
    BY <2>1, <1>2 DEF Segments
  <2>4. TypeOK' /\ HeaderFits'
    BY <2>2, <2>3, <1>2, <1>3 DEF IInv, TypeOK, HeaderFits, Becomes
  <2>5. Exists'
    BY <2>3 DEF Exists, NoSegment
  <2>6. process'[p] = r
    BY <2>2 DEF IInv, TypeOK, Becomes
  <2>7. KnowsSegment(p)'
    BY <2>3, <2>5, <2>6, <1>2, <1>3 DEF KnowsSegment, Attached
  <2>8. ASSUME NEW q \in Processes, q # p PROVE KnowsSegment(q)'
    <3>1. process'[q] = process[q] /\ KnowsSegment(q)
      BY <2>2, <2>8 DEF IInv, TypeOK, Becomes
    <3>2. ~Attached(q)
      BY <3>1, <1>5 DEF KnowsSegment
    <3>. QED  BY <3>1, <3>2 DEF KnowsSegment, Attached
  <2>. QED  BY <2>4, <2>7, <2>8 DEF IInv
<1>6. CASE Exists /\ LargeEnough(p)
  <2>1. segment' = [segment EXCEPT !.made = 2] /\ Becomes(p, r)
    BY <1>6 DEF Make
  <2>2. segment \in Segments
    BY <1>6 DEF IInv, TypeOK, Exists
  <2>3. segment' \in Segments /\ segment'.size = segment.size /\ segment'.dwNodeSize = segment.dwNodeSize
        /\ segment'.pNodes = segment.pNodes /\ segment'.made = 2
    BY <2>1, <2>2 DEF Segments
  <2>4. Exists' /\ process'[p] = r
    BY <2>1, <2>3 DEF Exists, NoSegment, IInv, TypeOK, Becomes
  <2>5. TypeOK' /\ HeaderFits'
    BY <2>1, <2>3, <1>3, <1>6 DEF IInv, TypeOK, HeaderFits, Becomes
  <2>6. process[p].n <= segment.size
    BY <1>2, <1>6, <2>2 DEF LargeEnough, Segments
  <2>7. KnowsSegment(p)'
    BY <2>3, <2>4, <2>6, <1>3 DEF KnowsSegment, Attached
  <2>8. ASSUME NEW q \in Processes, q # p PROVE KnowsSegment(q)'
    <3>1. process'[q] = process[q] /\ KnowsSegment(q)
      BY <2>1, <2>8 DEF IInv, TypeOK, Becomes
    <3>. QED  BY <3>1, <2>3, <2>4 DEF KnowsSegment, Attached
  <2>. QED  BY <2>5, <2>7, <2>8 DEF IInv
<1>. QED  BY <1>4, <1>5, <1>6 DEF LargeEnough

LEMMA FillSizeStep == ASSUME IInv, NEW p \in Processes, FillSize(p) PROVE IInv'
<1>1. /\ process[p].at = "head" /\ process[p].m_bCreate
      /\ process[p] \in Processing /\ KnowsSegment(p)
  BY InsideInit DEF FillSize
<1>2. Exists /\ segment \in Segments /\ process[p].n \in Nat /\ process[p].n <= segment.size
      /\ (segment.made = 1 => process[p].n = segment.size)
  BY <1>1 DEF IInv, TypeOK, KnowsSegment, Attached, Exists, Processing
<1>3. CASE process[p].readOnly
  BY <1>3, Leaving DEF FillSize
<1>4. CASE ~process[p].readOnly
  <2>. DEFINE r == IF process[p].n = 0 THEN Out ELSE [process[p] EXCEPT !.at = "nodes"]
  <2>1. segment' = [segment EXCEPT !.dwNodeSize = process[p].n] /\ Becomes(p, r)
    BY <1>4 DEF FillSize, Steps
  <2>2. segment' \in Segments /\ segment'.size = segment.size /\ segment'.dwNodeSize = process[p].n
        /\ segment'.pNodes = segment.pNodes /\ segment'.made = segment.made
    BY <2>1, <1>2 DEF Segments
  <2>3. [process[p] EXCEPT !.at = "nodes"] \in Processing
    BY <1>1 DEF Processing, Places
  <2>4. Exists' /\ process'[p] = r
    BY <2>1, <2>2 DEF Exists, NoSegment, IInv, TypeOK, Becomes, Segments
  <2>5. TypeOK' /\ HeaderFits'
    BY <2>1, <2>2, <2>3, <1>2 DEF IInv, TypeOK, HeaderFits, Becomes
  <2>6. KnowsSegment(p)'
    <3>1. CASE process[p].n = 0
      BY <3>1, <2>4 DEF KnowsSegment, Attached, Out
    <3>2. CASE process[p].n # 0
      <4>1. process'[p].at = "nodes" /\ process'[p].n = process[p].n
            /\ process'[p].m_bCreate = process[p].m_bCreate
        BY <3>2, <2>4, <1>1 DEF Processing
      <4>. QED  BY <4>1, <2>2, <2>4, <1>1, <1>2 DEF KnowsSegment, Attached
    <3>. QED  BY <3>1, <3>2
  <2>7. ASSUME NEW q \in Processes, q # p PROVE KnowsSegment(q)'
    <3>1. process'[q] = process[q] /\ KnowsSegment(q)
      BY <2>1, <2>7 DEF IInv, TypeOK, Becomes
    <3>. QED  BY <3>1, <2>2, <2>4, <1>2 DEF KnowsSegment, Attached
  <2>. QED  BY <2>5, <2>6, <2>7 DEF IInv
<1>. QED  BY <1>3, <1>4

LEMMA FillNodesStep == ASSUME IInv, NEW p \in Processes, FillNodes(p) PROVE IInv'
<1>. DEFINE r == [process[p] EXCEPT !.at = "ready", !.m_pNodes = TRUE]
<1>1. segment' = [segment EXCEPT !.pNodes = TRUE] /\ Becomes(p, r)
  BY DEF FillNodes
<1>2. process[p].at = "nodes" /\ process[p] \in Processing /\ KnowsSegment(p)
  BY InsideInit DEF FillNodes
<1>3. Exists /\ segment \in Segments
  BY <1>2 DEF IInv, TypeOK, KnowsSegment, Attached, Exists
<1>4. segment' \in Segments /\ segment'.size = segment.size /\ segment'.dwNodeSize = segment.dwNodeSize
      /\ segment'.pNodes = TRUE /\ segment'.made = segment.made
  BY <1>1, <1>3 DEF Segments
<1>5. r \in Processing /\ r.at = "ready" /\ r.m_pNodes = TRUE /\ r.n = process[p].n
      /\ r.m_bCreate = process[p].m_bCreate
  BY <1>2 DEF Processing, Places
<1>6. Exists' /\ process'[p] = r
  BY <1>1, <1>4 DEF Exists, NoSegment, IInv, TypeOK, Becomes, Segments
<1>7. TypeOK' /\ HeaderFits'
  BY <1>1, <1>2, <1>3, <1>4, <1>5 DEF IInv, TypeOK, HeaderFits, Becomes, KnowsSegment
<1>8. KnowsSegment(p)'
  BY <1>2, <1>4, <1>5, <1>6 DEF KnowsSegment, Attached
<1>9. ASSUME NEW q \in Processes, q # p PROVE KnowsSegment(q)'
  <2>1. process'[q] = process[q] /\ KnowsSegment(q)
    BY <1>1, <1>9 DEF IInv, TypeOK, Becomes
  <2>. QED  BY <2>1, <1>4, <1>6 DEF KnowsSegment, Attached
<1>. QED  BY <1>7, <1>8, <1>9 DEF IInv

-----------------------------------------------------------------------------
LEMMA IInvNext == IInv /\ [ShmNext]_shmVars => IInv'
<1>. SUFFICES ASSUME IInv, [ShmNext]_shmVars PROVE IInv'
  OBVIOUS
<1>1. ASSUME NEW p \in Processes, AttachFails(p) \/ Closes(p) \/ Dies(p) PROVE IInv'
  BY <1>1, Leaving DEF AttachFails, Closes, Dies
<1>2. CASE UNCHANGED shmVars
  BY <1>2 DEF shmVars, IInv, TypeOK, HeaderFits, KnowsSegment, Attached, Exists
<1>. QED  BY <1>1, <1>2, InitFreshStep, InitAgainStep, LookStep, MakeStep, AttachStep,
              FillSizeStep, FillNodesStep, ReadHeadStep DEF ShmNext

\* The segment and every process's view of it stay within their types.
THEOREM TypeCorrect == ShmSpec => []TypeOK
<1>1. IInv => TypeOK
  BY DEF IInv
<1>. QED  BY <1>1, InitIInv, IInvNext, PTL DEF ShmSpec

\* Whoever makes, attaches, dies and comes back in whatever order: no header
\* promises more than the segment has, and init gives what it was asked for while
\* one process only takes itself for the maker (CShmArray::init, CShm::create).
THEOREM GivenAsAsked == ShmSpec => []ArrayAsAsked
BY InitIInv, IInvNext, IInvAsAsked, PTL DEF ShmSpec

-----------------------------------------------------------------------------
(* BlockQueue.                                                             *)
Inside(t) == at[t] \in {"test", "returned", "size", "change", "leave"}
ThreadPlaces == {"out", "asleep", "awake", "broadcast", "test", "returned", "size", "change", "leave"}
Left == Len(pushed) - Len(popped)

BlockTypes ==
    /\ at \in [Threads -> ThreadPlaces] /\ read \in [Threads -> Int] /\ m_mutex \in BOOLEAN
    /\ m_dwSize \in Int /\ m_dwFront \in -1 .. m_dwMaxSize - 1 /\ m_dwBack \in -1 .. m_dwMaxSize - 1
    /\ m_pData \in [0 .. m_dwMaxSize - 1 -> Nat]
    /\ pushed \in Seq(Nat) /\ popped \in Seq(Nat) /\ cleared \in Nat

\* The mutex is the one thread's that is inside.
MutexHeld ==
    /\ \A t, u \in Threads : Inside(t) /\ Inside(u) => t = u
    /\ m_mutex <=> \E t \in Threads : Inside(t)

\* The count is right but for the thread that is about to change it.
Counted ==
    /\ 0 <= Left /\ Left <= m_dwMaxSize
    /\ (\A t \in Threads : at[t] \notin {"size", "change"}) => m_dwSize = Left
    /\ \A t \in Threads : at[t] \in {"size", "change"} =>
           /\ m_dwSize = IF t \in Pushers THEN Left - 1 ELSE Left + 1
           /\ at[t] = "change" => read[t] = m_dwSize

\* What lies between the two ends is what was pushed and not yet popped.
RingHolds ==
    /\ PoppedInOrder
    /\ m_dwBack = Slot(m_dwFront, Left)
    /\ \A i \in 1 .. Left : m_pData[Slot(m_dwFront, i)] = Len(popped) + i

RoomIsTold ==
    (\E t \in Pushers : at[t] = "asleep") =>
        \/ m_dwSize >= m_dwMaxSize \/ cleared > 0
        \/ \E t \in Threads : at[t] \in {"size", "change", "leave", "broadcast"}

BlockInv == ~bare => BlockTypes /\ MutexHeld /\ Counted /\ RingHolds /\ RoomIsTold

LEMMA InitBlockInv == BlockInit => BlockInv
<1> SUFFICES ASSUME BlockInit PROVE BlockInv
  OBVIOUS
<1>0. m_dwMaxSize \in Nat \ {0} /\ Len(pushed) = 0 /\ Len(popped) = 0 /\ pushed \in Seq(Nat) /\ popped \in Seq(Nat)
  BY BlockQueueAssumption DEF BlockInit
<1>1. BlockTypes
  <2>1. at \in [Threads -> ThreadPlaces] /\ read \in [Threads -> Int] /\ m_pData \in [0 .. m_dwMaxSize - 1 -> Nat]
    BY DEF BlockInit, ThreadPlaces
  <2>2. m_mutex \in BOOLEAN
    BY DEF BlockInit
  <2>3. m_dwSize \in Int /\ m_dwFront \in -1 .. m_dwMaxSize - 1 /\ m_dwBack \in -1 .. m_dwMaxSize - 1
        /\ cleared \in Nat
    BY <1>0 DEF BlockInit
  <2> QED BY <1>0, <2>1, <2>2, <2>3 DEF BlockTypes
<1>2. MutexHeld /\ Counted /\ RingHolds /\ RoomIsTold
  BY <1>0, BlockQueueAssumption DEF BlockInit, MutexHeld, Inside, Counted, RingHolds, PoppedInOrder, Slot,
       RoomIsTold, Left, Threads
<1> QED BY <1>1, <1>2 DEF BlockInv

LEMMA Moved ==
    ASSUME BlockTypes, NEW t \in Threads, NEW from, NEW to \in ThreadPlaces, ThreadGoes(t, from, to)
    PROVE  at[t] = from /\ at' \in [Threads -> ThreadPlaces] /\ at'[t] = to /\ \A u \in Threads \ {t} : at'[u] = at[u]
BY DEF ThreadGoes, BlockTypes

\* In, out, and about inside.
LEMMA Enters ==
    ASSUME MutexHeld, ~m_mutex, m_mutex' = TRUE, NEW t \in Threads, Inside(t)',
           \A u \in Threads \ {t} : at'[u] = at[u]
    PROVE  MutexHeld'
BY DEF MutexHeld, Inside

LEMMA Leaves ==
    ASSUME MutexHeld, m_mutex' = FALSE, NEW t \in Threads, Inside(t), ~Inside(t)',
           \A u \in Threads \ {t} : at'[u] = at[u]
    PROVE  MutexHeld'
BY DEF MutexHeld, Inside

LEMMA StaysInside ==
    ASSUME MutexHeld, m_mutex' = m_mutex, NEW t \in Threads, Inside(t), Inside(t)',
           \A u \in Threads \ {t} : at'[u] = at[u]
    PROVE  MutexHeld'
BY DEF MutexHeld, Inside

\* A step that leaves the queue alone keeps the count, if whoever changes it stays where it is.
LEMMA QueueStays ==
    ASSUME Counted, RingHolds, UNCHANGED queueVars, UNCHANGED read,
           \A u \in Threads : at'[u] \in {"size", "change"} <=> at[u] \in {"size", "change"},
           \A u \in Threads : at'[u] = "change" => at[u] = "change"
    PROVE  Counted' /\ RingHolds'
<1>1. Left' = Left /\ m_dwSize' = m_dwSize /\ m_dwFront' = m_dwFront /\ m_dwBack' = m_dwBack
      /\ m_pData' = m_pData /\ popped' = popped /\ read' = read
  BY DEF Left, queueVars
<1>2. RingHolds'
  BY <1>1 DEF RingHolds, PoppedInOrder, Slot
<1>3. Counted'
  BY <1>1 DEF Counted
<1> QED BY <1>2, <1>3

\* The same for who waits for room.
LEMMA StillTold ==
    ASSUME RoomIsTold, UNCHANGED queueVars,
           \A u \in Threads : at'[u] = "asleep" /\ u \in Pushers =>
               at[u] = "asleep" \/ m_dwSize >= m_dwMaxSize,
           \A u \in Threads : at[u] \in {"size", "change", "leave", "broadcast"} =>
               at'[u] \in {"size", "change", "leave", "broadcast"}
    PROVE  RoomIsTold'
BY DEF RoomIsTold, queueVars, Threads

LEMMA SlotIn ==
    ASSUME NEW f \in -1 .. m_dwMaxSize - 1, NEW i \in 0 .. m_dwMaxSize
    PROVE  /\ Slot(f, i) \in -1 .. m_dwMaxSize - 1 /\ (i > 0 => Slot(f, i) \in 0 .. m_dwMaxSize - 1)
           /\ Slot(f, 0) = f
           /\ i < m_dwMaxSize => (Slot(f, i) + 1) % m_dwMaxSize = Slot(f, i + 1)
           /\ i < m_dwMaxSize => Slot(Slot(f, 1), i) = Slot(f, i + 1)
           /\ \A j \in 1 .. m_dwMaxSize : j # i /\ i > 0 => Slot(f, i) # Slot(f, j)
<1>0. m_dwMaxSize \in Nat /\ m_dwMaxSize > 0
  BY BlockQueueAssumption
<1>1. \A k \in -1 .. m_dwMaxSize - 1 : (k + 1) % m_dwMaxSize = IF k + 1 < m_dwMaxSize THEN k + 1 ELSE 0
  BY <1>0
<1>2. Slot(f, i) \in -1 .. m_dwMaxSize - 1 /\ (i > 0 => Slot(f, i) \in 0 .. m_dwMaxSize - 1) /\ Slot(f, 0) = f
  BY <1>0 DEF Slot
<1>3. i < m_dwMaxSize => (Slot(f, i) + 1) % m_dwMaxSize = Slot(f, i + 1)
  <2>1. i < m_dwMaxSize => Slot(f, i + 1) = IF Slot(f, i) + 1 < m_dwMaxSize THEN Slot(f, i) + 1 ELSE 0
    BY <1>0 DEF Slot
  <2> QED BY <1>1, <1>2, <2>1
<1>4. i < m_dwMaxSize => Slot(Slot(f, 1), i) = Slot(f, i + 1)
  BY <1>0 DEF Slot
<1>5. \A j \in 1 .. m_dwMaxSize : j # i /\ i > 0 => Slot(f, i) # Slot(f, j)
  BY <1>0 DEF Slot
<1> QED BY <1>2, <1>3, <1>4, <1>5

Good == BlockTypes /\ MutexHeld /\ Counted /\ RingHolds /\ RoomIsTold

\* A step of t alone from one place to another that leaves the queue alone.
LEMMA QuietStep ==
    ASSUME Good, NEW t \in Threads, NEW from, NEW to \in ThreadPlaces, ThreadGoes(t, from, to),
           m_mutex' \in BOOLEAN, MutexHeld', UNCHANGED read, UNCHANGED queueVars,
           {from, to} \cap {"size", "change", "broadcast"} = {}, from # "leave",
           to = "asleep" /\ t \in Pushers => m_dwSize >= m_dwMaxSize
    PROVE  Good'
<1>1. at[t] = from /\ at' \in [Threads -> ThreadPlaces] /\ at'[t] = to /\ \A u \in Threads \ {t} : at'[u] = at[u]
  BY Moved DEF Good
<1>2. BlockTypes'
  BY <1>1 DEF Good, BlockTypes, queueVars
<1>3. Counted' /\ RingHolds'
  BY <1>1, QueueStays DEF Good
<1>4. RoomIsTold'
  BY <1>1, StillTold DEF Good
<1> QED BY <1>2, <1>3, <1>4 DEF Good

LEMMA LockStep == ASSUME Good, NEW t \in Threads, Lock(t) PROVE Good'
<1>1. ThreadGoes(t, "out", "test") /\ "test" \in ThreadPlaces /\ ~m_mutex /\ m_mutex' = TRUE /\ UNCHANGED <<read, queueVars>>
  BY DEF Lock, ThreadPlaces
<1>2. at'[t] = "test" /\ \A u \in Threads \ {t} : at'[u] = at[u]
  BY <1>1, Moved DEF Good
<1>3. MutexHeld'
  BY <1>1, <1>2, Enters DEF Good, Inside
<1> QED BY <1>1, <1>3, QuietStep

LEMMA SleepStep ==
    ASSUME Good, NEW t \in Threads, Sleep(t), t \in Pushers => m_dwSize >= m_dwMaxSize PROVE Good'
<1>1. ThreadGoes(t, "test", "asleep") /\ "asleep" \in ThreadPlaces /\ m_mutex' = FALSE /\ UNCHANGED <<read, queueVars>>
  BY DEF Sleep, ThreadPlaces
<1>2. at[t] = "test" /\ at'[t] = "asleep" /\ \A u \in Threads \ {t} : at'[u] = at[u]
  BY <1>1, Moved DEF Good
<1>3. MutexHeld'
  BY <1>1, <1>2, Leaves DEF Good, Inside
<1> QED BY <1>1, <1>3, QuietStep

LEMMA AwakesStep == ASSUME Good, NEW t \in Threads, Awakes(t) PROVE Good'
<1>1. PICK from \in {"asleep", "awake"} : ThreadGoes(t, from, "returned")
  BY DEF Awakes, ThreadGoes
<1>2. "returned" \in ThreadPlaces /\ ~m_mutex /\ m_mutex' = TRUE /\ UNCHANGED <<read, queueVars>>
  BY DEF Awakes, ThreadPlaces
<1>3. at'[t] = "returned" /\ \A u \in Threads \ {t} : at'[u] = at[u]
  BY <1>1, <1>2, Moved DEF Good
<1>4. MutexHeld'
  BY <1>2, <1>3, Enters DEF Good, Inside
<1> QED BY <1>1, <1>2, <1>4, QuietStep

LEMMA GoesOutStep ==
    ASSUME Good, NEW t \in Threads, ThreadGoes(t, "returned", "out"), m_mutex' = FALSE, UNCHANGED <<read, queueVars>>
    PROVE  Good'
<1>1. "out" \in ThreadPlaces
  BY DEF ThreadPlaces
<1>2. at[t] = "returned" /\ at'[t] = "out" /\ \A u \in Threads \ {t} : at'[u] = at[u]
  BY <1>1, Moved DEF Good
<1>3. MutexHeld'
  BY <1>2, Leaves DEF Good, Inside
<1> QED BY <1>1, <1>3, QuietStep

LEMMA TimedLooksStep == ASSUME Good, NEW t \in Threads, TimedLooks(t) PROVE Good'
<1>1. ThreadGoes(t, "returned", "test") /\ "test" \in ThreadPlaces /\ m_mutex' = m_mutex /\ UNCHANGED <<read, queueVars>>
  BY DEF TimedLooks, ThreadPlaces
<1>2. at[t] = "returned" /\ at'[t] = "test" /\ \A u \in Threads \ {t} : at'[u] = at[u]
  BY <1>1, Moved DEF Good
<1>3. MutexHeld'
  BY <1>1, <1>2, StaysInside DEF Good, Inside
<1>4. m_mutex' \in BOOLEAN
  BY <1>1 DEF Good, BlockTypes
<1> QED BY <1>1, <1>3, <1>4, QuietStep

LEMMA UnlockStep == ASSUME Good, NEW t \in Threads, Unlock(t) PROVE Good'
<1>0. ThreadGoes(t, "leave", "broadcast") /\ "broadcast" \in ThreadPlaces /\ m_mutex' = FALSE /\ UNCHANGED <<read, queueVars>>
  BY DEF Unlock, ThreadPlaces
<1>1. /\ at[t] = "leave" /\ at' \in [Threads -> ThreadPlaces] /\ at'[t] = "broadcast"
      /\ \A u \in Threads \ {t} : at'[u] = at[u]
  BY <1>0, Moved DEF Good
<1>2. BlockTypes'
  BY <1>0, <1>1 DEF Good, BlockTypes, queueVars
<1>3. Counted' /\ RingHolds'
  BY <1>0, <1>1, QueueStays DEF Good
<1>4. RoomIsTold'
  BY <1>0, <1>1, StillTold DEF Good
<1>5. MutexHeld'
  BY <1>0, <1>1, Leaves DEF Good, Inside
<1> QED BY <1>2, <1>3, <1>4, <1>5 DEF Good

LEMMA BroadcastStep == ASSUME Good, NEW t \in Threads, Broadcast(t) PROVE Good'
<1>0. at[t] = "broadcast" /\ UNCHANGED <<m_mutex, read, queueVars>> /\ at \in [Threads -> ThreadPlaces]
  BY DEF Broadcast, Good, BlockTypes
<1>1. /\ at'[t] = "out" /\ at' \in [Threads -> ThreadPlaces]
      /\ \A u \in Threads \ {t} : at'[u] = IF at[u] = "asleep" THEN "awake" ELSE at[u]
  BY <1>0 DEF Broadcast, ThreadPlaces
<1>2. BlockTypes'
  BY <1>0, <1>1 DEF Good, BlockTypes, queueVars
<1>3. Counted' /\ RingHolds'
  BY <1>0, <1>1, QueueStays DEF Good
<1>4. \A u \in Threads : (Inside(u)' <=> Inside(u)) /\ at'[u] # "asleep"
  BY <1>0, <1>1 DEF Inside
<1>5. MutexHeld'
  BY <1>0, <1>4 DEF Good, MutexHeld
<1>6. RoomIsTold'
  BY <1>4 DEF RoomIsTold, Threads
<1> QED BY <1>2, <1>3, <1>5, <1>6 DEF Good

\* Nobody else is about to change the count while t is inside.
LEMMA Alone ==
    ASSUME Good, NEW t \in Threads, Inside(t)
    PROVE  \A u \in Threads \ {t} : at[u] \notin {"test", "returned", "size", "change", "leave"}
BY DEF Good, MutexHeld, Inside

\* t goes about inside with the mutex, and is still to tell the others.
LEMMA InsideStep ==
    ASSUME Good, NEW t \in Threads, NEW from \in {"test", "size", "change"},
           NEW to \in {"size", "change", "leave"}, ThreadGoes(t, from, to), UNCHANGED m_mutex
    PROVE  /\ at[t] = from /\ at' \in [Threads -> ThreadPlaces] /\ at'[t] = to
           /\ \A u \in Threads \ {t} : at'[u] = at[u] /\ at'[u] \notin {"size", "change"}
           /\ MutexHeld' /\ m_mutex' \in BOOLEAN /\ RoomIsTold'
<1>0. to \in ThreadPlaces
  BY DEF ThreadPlaces
<1>1. at[t] = from /\ at' \in [Threads -> ThreadPlaces] /\ at'[t] = to /\ \A u \in Threads \ {t} : at'[u] = at[u]
  BY <1>0, Moved DEF Good
<1>2. MutexHeld'
  BY <1>1, StaysInside DEF Good, Inside
<1>3. \A u \in Threads \ {t} : at'[u] \notin {"size", "change"}
  BY <1>1, Alone DEF Inside
<1>4. RoomIsTold'
  BY <1>1 DEF RoomIsTold
<1>5. m_mutex' \in BOOLEAN
  BY DEF Good, BlockTypes
<1> QED BY <1>1, <1>2, <1>3, <1>4, <1>5

LEMMA LoadSizeStep == ASSUME Good, NEW t \in Threads, LoadSize(t) PROVE Good'
<1>0. /\ ThreadGoes(t, "size", "change") /\ UNCHANGED <<m_mutex, queueVars>>
      /\ read' = [read EXCEPT ![t] = m_dwSize] /\ read \in [Threads -> Int] /\ m_dwSize \in Int
  BY DEF LoadSize, Good, BlockTypes
<1>1. /\ at[t] = "size" /\ at' \in [Threads -> ThreadPlaces] /\ at'[t] = "change"
      /\ \A u \in Threads \ {t} : at'[u] = at[u] /\ at'[u] \notin {"size", "change"}
      /\ MutexHeld' /\ m_mutex' \in BOOLEAN /\ RoomIsTold'
  BY <1>0, InsideStep
<1>2. BlockTypes'
  BY <1>0, <1>1 DEF Good, BlockTypes, queueVars
<1>3. Left' = Left /\ UNCHANGED <<m_dwSize, m_dwFront, m_dwBack, m_pData, popped>>
  BY <1>0 DEF Left, queueVars
<1>4. Counted'
  BY <1>0, <1>1, <1>3 DEF Good, Counted
<1>5. RingHolds'
  BY <1>3 DEF Good, RingHolds, PoppedInOrder, Slot
<1> QED BY <1>1, <1>2, <1>4, <1>5 DEF Good

LEMMA StoreSizeStep == ASSUME Good, NEW t \in Threads, StoreSize(t) PROVE Good'
<1>0. /\ ThreadGoes(t, "change", "leave") /\ UNCHANGED <<m_mutex, m_pData, m_dwFront, m_dwBack, read, pushed, popped, cleared>>
      /\ m_dwSize' = IF t \in Pushers THEN read[t] + 1 ELSE read[t] - 1
      /\ m_dwSize \in Int /\ Left \in Int
  BY LenProperties DEF StoreSize, Good, BlockTypes, Left
<1>1. /\ at[t] = "change" /\ at' \in [Threads -> ThreadPlaces] /\ at'[t] = "leave"
      /\ \A u \in Threads \ {t} : at'[u] = at[u] /\ at'[u] \notin {"size", "change"}
      /\ MutexHeld' /\ m_mutex' \in BOOLEAN /\ RoomIsTold'
  BY <1>0, InsideStep
<1>2. Left' = Left
  BY <1>0 DEF Left
<1>3. m_dwSize' = Left
  BY <1>0, <1>1 DEF Good, Counted
<1>4. BlockTypes'
  BY <1>0, <1>1, <1>3 DEF Good, BlockTypes
<1>5. Counted'
  BY <1>0, <1>1, <1>2, <1>3 DEF Good, Counted
<1>6. RingHolds'
  BY <1>0, <1>2 DEF Good, RingHolds, PoppedInOrder, Slot
<1> QED BY <1>1, <1>4, <1>5, <1>6 DEF Good

LEMMA PushStoreStep == ASSUME Good, NEW t \in Threads, PushStore(t) PROVE Good'
<1> DEFINE new == Len(pushed) + 1
<1>0. /\ t \in Pushers /\ m_dwSize < m_dwMaxSize /\ ThreadGoes(t, "test", "size")
      /\ m_dwBack' = (m_dwBack + 1) % m_dwMaxSize /\ m_pData' = [m_pData EXCEPT ![m_dwBack'] = new]
      /\ pushed' = Append(pushed, new)
      /\ UNCHANGED <<m_mutex, m_dwSize, m_dwFront, read, popped, cleared>>
  BY DEF PushStore
<1>1. /\ at[t] = "test" /\ at' \in [Threads -> ThreadPlaces] /\ at'[t] = "size"
      /\ \A u \in Threads \ {t} : at'[u] = at[u] /\ at'[u] \notin {"size", "change"}
      /\ MutexHeld' /\ m_mutex' \in BOOLEAN /\ RoomIsTold'
  BY <1>0, InsideStep
<1>2. /\ m_dwMaxSize \in Nat /\ Len(pushed) \in Nat /\ Len(popped) \in Nat /\ new \in Nat /\ pushed \in Seq(Nat)
      /\ m_dwFront \in -1 .. m_dwMaxSize - 1 /\ m_pData \in [0 .. m_dwMaxSize - 1 -> Nat]
      /\ Left \in 0 .. m_dwMaxSize /\ new = Len(popped) + (Left + 1)
  BY BlockQueueAssumption, LenProperties DEF Good, BlockTypes, Counted, Left
<1>3. m_dwSize = Left /\ Left < m_dwMaxSize
  <2>1. \A u \in Threads : at[u] \notin {"size", "change"}
    BY <1>1
  <2> QED BY <1>0, <2>1 DEF Good, Counted
<1>4. pushed' \in Seq(Nat) /\ Len(pushed') = new
  BY <1>0, <1>2, AppendProperties
<1>5. Left' = Left + 1
  BY <1>0, <1>2, <1>4 DEF Left
<1>6. m_dwBack = Slot(m_dwFront, Left)
  BY DEF Good, RingHolds
<1>7. m_dwBack' = Slot(m_dwFront, Left + 1) /\ m_dwBack' \in 0 .. m_dwMaxSize - 1
  <2>1. m_dwBack' = Slot(m_dwFront, Left + 1)
    BY <1>0, <1>2, <1>3, <1>6, SlotIn
  <2>2. Left + 1 \in 0 .. m_dwMaxSize /\ Left + 1 > 0
    BY <1>2, <1>3
  <2> QED BY <1>2, <2>1, <2>2, SlotIn
<1>8. m_pData' \in [0 .. m_dwMaxSize - 1 -> Nat] /\ m_pData'[Slot(m_dwFront, Left + 1)] = new
      /\ \A k \in 0 .. m_dwMaxSize - 1 : k # Slot(m_dwFront, Left + 1) => m_pData'[k] = m_pData[k]
  <2> HIDE DEF new
  <2> QED BY <1>0, <1>2, <1>7
<1>9. ASSUME NEW i \in 1 .. Left + 1 PROVE m_pData'[Slot(m_dwFront, i)] = Len(popped) + i
  <2>1. CASE i = Left + 1
    BY <1>2, <1>8, <2>1
  <2>2. CASE i # Left + 1
    <3>1. i \in 1 .. Left /\ i \in 0 .. m_dwMaxSize /\ i > 0 /\ Left + 1 \in 1 .. m_dwMaxSize
      BY <1>2, <1>3, <2>2
    <3>2. Slot(m_dwFront, i) \in 0 .. m_dwMaxSize - 1 /\ Slot(m_dwFront, i) # Slot(m_dwFront, Left + 1)
      BY <1>2, <2>2, <3>1, SlotIn, ZenonT(30)
    <3>3. m_pData[Slot(m_dwFront, i)] = Len(popped) + i
      BY <3>1 DEF Good, RingHolds
    <3> QED BY <1>8, <3>2, <3>3
  <2> QED BY <2>1, <2>2
<1>10. RingHolds'
  <2>1. PoppedInOrder' /\ m_dwBack' = Slot(m_dwFront, Left')
    BY <1>0, <1>5, <1>7 DEF Good, RingHolds, PoppedInOrder
  <2> QED BY <1>0, <1>5, <1>9, <2>1 DEF RingHolds, Slot
<1>11. Counted'
  BY <1>0, <1>1, <1>2, <1>3, <1>5 DEF Counted
<1>12. BlockTypes'
  BY <1>0, <1>1, <1>2, <1>4, <1>7, <1>8, SMTT(30) DEF Good, BlockTypes
<1> QED BY <1>1, <1>10, <1>11, <1>12 DEF Good

LEMMA PopTakeStep == ASSUME Good, NEW t \in Poppers, PopTake(t) PROVE Good'
<1>0. /\ m_dwSize > 0 /\ ThreadGoes(t, "test", "size") /\ t \in Threads /\ t \notin Pushers
      /\ m_dwFront' = (m_dwFront + 1) % m_dwMaxSize /\ popped' = Append(popped, m_pData[m_dwFront'])
      /\ UNCHANGED <<m_mutex, m_pData, m_dwSize, m_dwBack, read, pushed, cleared>>
  BY BlockQueueAssumption DEF PopTake, Threads
<1>1. /\ at[t] = "test" /\ at' \in [Threads -> ThreadPlaces] /\ at'[t] = "size"
      /\ \A u \in Threads \ {t} : at'[u] = at[u] /\ at'[u] \notin {"size", "change"}
      /\ MutexHeld' /\ m_mutex' \in BOOLEAN /\ RoomIsTold'
  BY <1>0, InsideStep
<1>2. /\ m_dwMaxSize \in Nat /\ m_dwMaxSize > 0 /\ Len(pushed) \in Nat /\ Len(popped) \in Nat /\ popped \in Seq(Nat)
      /\ m_dwFront \in -1 .. m_dwMaxSize - 1 /\ m_pData \in [0 .. m_dwMaxSize - 1 -> Nat]
      /\ Left \in 0 .. m_dwMaxSize
  BY BlockQueueAssumption, LenProperties DEF Good, BlockTypes, Counted, Left
<1>3. m_dwSize = Left /\ Left > 0
  <2>1. \A u \in Threads : at[u] \notin {"size", "change"}
    BY <1>1
  <2> QED BY <1>0, <2>1 DEF Good, Counted
<1>4. m_dwFront' = Slot(m_dwFront, 1) /\ m_dwFront' \in 0 .. m_dwMaxSize - 1
  <2>1. (m_dwFront + 1) % m_dwMaxSize = Slot(m_dwFront, 1)
    <3>1. PICK i \in 0 .. m_dwMaxSize : i = 0
      BY <1>2
    <3>2. Slot(m_dwFront, i) = m_dwFront
      BY <1>2, <3>1 DEF Slot
    <3>3. (Slot(m_dwFront, i) + 1) % m_dwMaxSize = Slot(m_dwFront, i + 1)
      BY <1>2, <3>1, SlotIn
    <3> QED BY <3>1, <3>2, <3>3
  <2>2. Slot(m_dwFront, 1) \in 0 .. m_dwMaxSize - 1
    BY <1>2 DEF Slot
  <2> QED BY <1>0, <2>1, <2>2
<1>5. m_pData[m_dwFront'] = Len(popped) + 1 /\ Len(popped) + 1 \in Nat
  BY <1>2, <1>3, <1>4 DEF Good, RingHolds
<1>6. /\ popped' \in Seq(Nat) /\ Len(popped') = Len(popped) + 1
      /\ \A i \in 1 .. Len(popped) : popped'[i] = popped[i]
      /\ popped'[Len(popped) + 1] = Len(popped) + 1
  BY <1>0, <1>2, <1>5, AppendProperties
<1>7. Left' = Left - 1
  BY <1>0, <1>2, <1>6 DEF Left
<1>8. \A i \in 0 .. Left - 1 : Slot(m_dwFront', i) = Slot(m_dwFront, i + 1)
  <2> SUFFICES ASSUME NEW i \in 0 .. Left - 1 PROVE Slot(m_dwFront', i) = Slot(m_dwFront, i + 1)
    OBVIOUS
  <2>1. i \in 0 .. m_dwMaxSize /\ i < m_dwMaxSize
    BY <1>2
  <2>2. Slot(Slot(m_dwFront, 1), i) = Slot(m_dwFront, i + 1)
    BY <1>2, <2>1, SlotIn
  <2> QED BY <1>4, <2>2
<1>9. RingHolds'
  <2>1. PoppedInOrder'
    <3>1. \A i \in 1 .. Len(popped) : popped'[i] = i
      BY <1>2, <1>6 DEF Good, RingHolds, PoppedInOrder
    <3>2. \A i \in 1 .. Len(popped) + 1 : popped'[i] = i
      BY <1>2, <1>6, <3>1
    <3> QED BY <1>6, <3>2 DEF PoppedInOrder
  <2>2. m_dwBack' = Slot(m_dwFront', Left')
    <3>1. Left - 1 \in 0 .. Left - 1 /\ Left - 1 + 1 = Left
      BY <1>2, <1>3
    <3>2. Slot(m_dwFront', Left - 1) = Slot(m_dwFront, Left)
      BY <1>8, <3>1
    <3> QED BY <1>0, <1>7, <3>2 DEF Good, RingHolds
  <2>3. ASSUME NEW i \in 1 .. Left - 1 PROVE m_pData'[Slot(m_dwFront', i)] = Len(popped') + i
    <3>1. i \in 0 .. Left - 1 /\ i + 1 \in 1 .. Left
      BY <1>2
    <3>2. m_pData[Slot(m_dwFront, i + 1)] = Len(popped) + (i + 1)
      BY <3>1 DEF Good, RingHolds
    <3>3. m_pData'[Slot(m_dwFront', i)] = Len(popped) + (i + 1)
      BY <1>0, <1>8, <3>1, <3>2
    <3> QED BY <1>2, <1>6, <3>3
  <2> QED BY <1>7, <2>1, <2>2, <2>3 DEF RingHolds, Slot
<1>10. Counted'
  BY <1>0, <1>1, <1>2, <1>3, <1>7 DEF Counted
<1>11. BlockTypes'
  BY <1>0, <1>1, <1>2, <1>4, <1>6 DEF Good, BlockTypes
<1> QED BY <1>1, <1>9, <1>10, <1>11 DEF Good

LEMMA ClearStep == ASSUME Good, NEW t \in Threads, Clear(t) PROVE Good'
<1>0. /\ ~m_mutex /\ cleared' = cleared + 1 /\ m_dwSize' = 0 /\ m_dwFront' = -1 /\ m_dwBack' = -1
      /\ popped' = [i \in 1 .. Len(pushed) |-> i] /\ UNCHANGED <<m_mutex, m_pData, at, read, pushed>>
      /\ Len(pushed) \in Nat /\ m_dwMaxSize \in Nat /\ m_dwMaxSize > 0 /\ cleared \in Nat
  BY BlockQueueAssumption, LenProperties DEF Clear, Good, BlockTypes
<1>1. popped' \in Seq(Nat) /\ Len(popped') = Len(pushed) /\ \A i \in 1 .. Len(popped') : popped'[i] = i
  BY <1>0
<1>2. Left' = 0
  BY <1>0, <1>1 DEF Left
<1>3. BlockTypes'
  BY <1>0, <1>1 DEF Good, BlockTypes
<1>4. \A u \in Threads : at[u] \notin {"size", "change"}
  BY <1>0 DEF Good, MutexHeld, Inside
<1>5. Counted'
  BY <1>0, <1>2, <1>4 DEF Counted
<1>6. RingHolds'
  BY <1>0, <1>1, <1>2 DEF RingHolds, PoppedInOrder, Slot
<1>7. MutexHeld' /\ RoomIsTold'
  BY <1>0 DEF Good, MutexHeld, Inside, RoomIsTold
<1> QED BY <1>3, <1>5, <1>6, <1>7 DEF Good

LEMMA BlockInvNext == BlockInv /\ [BlockNext]_blockVars => BlockInv'
<1> SUFFICES ASSUME BlockInv, [BlockNext]_blockVars, ~bare' PROVE BlockInv'
  BY DEF BlockInv
<1>1. CASE UNCHANGED blockVars
  BY <1>1 DEF blockVars, BlockInv, BlockTypes, MutexHeld, Inside, Counted, Left, RingHolds, PoppedInOrder, Slot,
              RoomIsTold
<1>2. ASSUME NEW t \in Threads, BlockStep(t) PROVE BlockInv'
  <2>1. Good
    BY <1>2 DEF BlockStep, Lock, Awakes, Unlock, Broadcast, Clear, PushWaits, Sleep, PushAgain, PushStore,
                LoadSize, StoreSize, PopTakes, PopTake, PopWaits, PopAgain, TimedTakes, TimedWaits, TimedLooks,
                TimedFails, BlockInv, Good
  <2>2. CASE Lock(t) \/ Awakes(t) \/ Unlock(t) \/ Broadcast(t) \/ Clear(t)
    BY <2>1, <2>2, LockStep, AwakesStep, UnlockStep, BroadcastStep, ClearStep DEF Good, BlockInv
  <2>3. CASE PushWaits(t)
    BY <2>1, <2>3, SleepStep DEF PushWaits, Good, BlockInv
  <2>4. CASE PushAgain(t) \/ TimedFails(t)
    BY <2>1, <2>4, GoesOutStep DEF PushAgain, TimedFails, Good, BlockInv
  <2>5. CASE PushStore(t) \/ LoadSize(t) \/ StoreSize(t)
    BY <2>1, <2>5, PushStoreStep, LoadSizeStep, StoreSizeStep DEF Good, BlockInv
  <2>6. CASE PopTakes(t) \/ TimedTakes(t)
    <3>1. t \in Poppers /\ PopTake(t)
      BY <2>6, BlockQueueAssumption DEF PopTakes, TimedTakes
    <3> QED BY <2>1, <3>1, PopTakeStep DEF Good, BlockInv
  <2>7. CASE PopWaits(t) \/ TimedWaits(t)
    <3>1. t \notin Pushers /\ Sleep(t)
      BY <2>7, BlockQueueAssumption DEF PopWaits, TimedWaits
    <3> QED BY <2>1, <3>1, SleepStep DEF Good, BlockInv
  <2>8. CASE PopAgain(t)
    BY <2>8 DEF PopAgain
  <2>9. CASE TimedLooks(t)
    BY <2>1, <2>9, TimedLooksStep DEF Good, BlockInv
  <2> QED BY <1>2, <2>2, <2>3, <2>4, <2>5, <2>6, <2>7, <2>8, <2>9 DEF BlockStep
<1> QED BY <1>1, <1>2 DEF BlockNext

\* While every pop without a time limit has found an item at once, items come
\* out once and in the order in which they went in, and no thread sleeps through
\* room, for any number of threads and any size (CBlockQueue::push and pop).
THEOREM MutexKeepsOrder == BlockSpec => []InOrderWithMutex
<1>1. BlockInv => InOrderWithMutex
  BY DEF BlockInv, InOrderWithMutex, RingHolds, RoomIsTold
<1> QED BY <1>1, InitBlockInv, BlockInvNext, PTL DEF BlockSpec

-----------------------------------------------------------------------------
(* BlockQueue implements BoundedFifo.                                      *)
LastPopped == IF popped = <<>> THEN 0 ELSE popped[Len(popped)]
\* A thread that is about to push has room left under the bound.
MayPush == \A t \in Pushers : at[t] = "test" => Len(pushed) < MaxPushes
FifoInv == ~bare => Good /\ MayPush

LEMMA FifoIs ==
    /\ ItemFifo!vars = <<Waiting, TRUE, LastPopped>>
    /\ \A e : ItemFifo!Put(e) <=> /\ Len(Waiting) < m_dwMaxSize /\ Waiting' = Append(Waiting, e)
                                  /\ TRUE' = TRUE /\ LastPopped' = LastPopped
    /\ ItemFifo!Take <=> Waiting # <<>> /\ LastPopped' = Head(Waiting) /\ Waiting' = Tail(Waiting) /\ TRUE' = TRUE
BY DEF ItemFifo!vars, ItemFifo!Put, ItemFifo!Take, LastPopped

LEMMA WaitingIs ==
    ASSUME Good
    PROVE  /\ Left \in 0 .. m_dwMaxSize /\ m_dwMaxSize \in Nat /\ Len(popped) \in Nat
           /\ Waiting = [i \in 1 .. Left |-> Len(popped) + i] /\ Waiting \in Seq(Nat) /\ Len(Waiting) = Left
<1>1. Left \in 0 .. m_dwMaxSize /\ m_dwMaxSize \in Nat /\ Len(popped) \in Nat
  BY BlockQueueAssumption, LenProperties DEF Good, BlockTypes, Counted, Left
<1>2. \A i \in 1 .. Left : m_pData[Slot(m_dwFront, i)] = Len(popped) + i
  BY DEF Good, RingHolds
<1>3. Waiting = [i \in 1 .. Left |-> m_pData[Slot(m_dwFront, i)]]
  BY DEF Waiting, Left
<1>4. Waiting = [i \in 1 .. Left |-> Len(popped) + i]
  BY <1>2, <1>3
<1>5. PICK n \in Nat : n = Left
  BY <1>1
<1>6. Waiting \in [1 .. n -> Nat]
  BY <1>1, <1>4, <1>5
<1>7. Waiting \in Seq(Nat) /\ Len(Waiting) = n
  BY <1>6, LenProperties
<1> QED BY <1>1, <1>4, <1>5, <1>7

WaitsInOrder ==
    /\ Left \in 0 .. m_dwMaxSize /\ m_dwMaxSize \in Nat /\ Len(popped) \in Nat
    /\ Waiting = [i \in 1 .. Left |-> Len(popped) + i] /\ Waiting \in Seq(Nat) /\ Len(Waiting) = Left
LEMMA WaitingBefore == Good => WaitsInOrder
BY WaitingIs DEF WaitsInOrder
LEMMA WaitingAfter == Good' => WaitsInOrder'
BY WaitingBefore, PTL

LEMMA WaitingStays ==
    ASSUME Good, Good', Left' = Left, popped' = popped
    PROVE  ItemFifo!vars' = ItemFifo!vars
<1>1. Waiting' = Waiting
  <2>1. Waiting = [i \in 1 .. Left |-> Len(popped) + i]
    BY WaitingBefore, Zenon DEF WaitsInOrder
  <2>2. Waiting' = [i \in 1 .. Left' |-> Len(popped') + i]
    BY WaitingAfter, Zenon DEF WaitsInOrder
  <2> QED BY <2>1, <2>2
<1>2. LastPopped' = LastPopped
  BY DEF LastPopped
<1> QED BY <1>1, <1>2 DEF ItemFifo!vars, LastPopped

\* push.
LEMMA PushPuts ==
    ASSUME Good, Good', MayPush, MaxPushes \in Nat, NEW t \in Threads, PushStore(t)
    PROVE  \E e \in 1 .. MaxPushes : ItemFifo!Put(e)
<1> DEFINE new == Len(pushed) + 1
<1>0. /\ t \in Pushers /\ m_dwSize < m_dwMaxSize /\ at[t] = "test"
      /\ pushed' = Append(pushed, new) /\ popped' = popped
  BY DEF PushStore, ThreadGoes
<1>1. Len(pushed) \in Nat /\ pushed \in Seq(Nat) /\ Len(popped) \in Nat
  BY LenProperties DEF Good, BlockTypes
<1>2. new \in 1 .. MaxPushes
  BY <1>0, <1>1 DEF MayPush
<1>3. m_dwSize = Left
  <2>1. \A u \in Threads : at[u] \notin {"size", "change"}
    <3>1. at[t] \notin {"size", "change"} /\ Inside(t)
      BY <1>0 DEF Inside
    <3>2. \A u \in Threads : Inside(u) => u = t
      BY <3>1 DEF Good, MutexHeld
    <3> QED BY <3>1, <3>2 DEF Inside
  <2> QED BY <2>1 DEF Good, Counted
<1>4. Len(pushed') = Len(pushed) + 1
  BY <1>0, <1>1, AppendProperties
<1>5. Left' = Left + 1 /\ new = Len(popped) + (Left + 1)
  BY <1>0, <1>1, <1>4 DEF Left
<1>6. WaitsInOrder /\ WaitsInOrder'
  BY WaitingBefore, WaitingAfter
<1> HIDE DEF new
<1>7. Waiting' = Append(Waiting, new)
  <2> DEFINE w == Append(Waiting, new)
  <2>1. /\ Waiting \in Seq(Nat) /\ Len(Waiting) = Left /\ Left \in Nat
        /\ \A i \in 1 .. Left : Waiting[i] = Len(popped) + i
    BY <1>6 DEF WaitsInOrder
  <2>2. /\ Waiting' \in Seq(Nat) /\ Len(Waiting') = Left + 1
        /\ \A i \in 1 .. Left + 1 : Waiting'[i] = Len(popped) + i
    BY <1>0, <1>5, <1>6 DEF WaitsInOrder
  <2>3. new \in Nat
    BY <1>2
  <2>4. /\ w \in Seq(Nat) /\ Len(w) = Left + 1 /\ w[Left + 1] = new
        /\ \A i \in 1 .. Left : w[i] = Waiting[i]
    BY <2>1, <2>3, AppendProperties
  <2> HIDE DEF w
  <2>5. \A i \in 1 .. Left + 1 : Waiting'[i] = w[i]
    BY <1>5, <2>1, <2>2, <2>4
  <2>6. Waiting' = w
    BY <2>1, <2>2, <2>4, <2>5, SeqEqual
  <2> QED BY <2>6 DEF w
<1>8. Len(Waiting) < m_dwMaxSize
  BY <1>0, <1>3, <1>6 DEF WaitsInOrder
<1>9. LastPopped' = LastPopped
  BY <1>0 DEF LastPopped
<1>10. ItemFifo!Put(new)
  BY <1>7, <1>8, <1>9, FifoIs
<1> QED BY <1>2, <1>10

\* The way out of both pops.
LEMMA PopTakesOldest ==
    ASSUME Good, Good', NEW t \in Poppers, PopTake(t)
    PROVE  ItemFifo!Take
<1>0. /\ m_dwSize > 0 /\ at[t] = "test" /\ t \in Threads /\ pushed' = pushed
      /\ \E x : popped' = Append(popped, x)
  BY DEF PopTake, ThreadGoes, Threads
<1>1. Len(pushed) \in Nat /\ Len(popped) \in Nat /\ popped \in Seq(Nat) /\ popped' \in Seq(Nat)
  BY LenProperties DEF Good, BlockTypes
<1>2. m_dwSize = Left
  <2>1. \A u \in Threads : at[u] \notin {"size", "change"}
    <3>1. at[t] \notin {"size", "change"} /\ Inside(t)
      BY <1>0 DEF Inside
    <3>2. \A u \in Threads : Inside(u) => u = t
      BY <1>0, <3>1 DEF Good, MutexHeld
    <3> QED BY <3>1, <3>2 DEF Inside
  <2> QED BY <2>1 DEF Good, Counted
<1>3. Len(popped') = Len(popped) + 1
  BY <1>0, <1>1, AppendProperties
<1>4. Left' = Left - 1
  BY <1>0, <1>1, <1>3 DEF Left
<1>5. WaitsInOrder /\ WaitsInOrder'
  BY WaitingBefore, WaitingAfter
<1>6. /\ Waiting \in Seq(Nat) /\ Len(Waiting) = Left /\ Left \in Nat /\ Left > 0
      /\ \A i \in 1 .. Left : Waiting[i] = Len(popped) + i
  BY <1>0, <1>2, <1>5 DEF WaitsInOrder
<1>7. /\ Waiting' \in Seq(Nat) /\ Len(Waiting') = Left - 1
      /\ \A i \in 1 .. Left - 1 : Waiting'[i] = Len(popped) + 1 + i
  BY <1>3, <1>4, <1>5 DEF WaitsInOrder
<1>8. Waiting # <<>>
  BY <1>6
<1>9. /\ Head(Waiting) = Waiting[1] /\ Tail(Waiting) \in Seq(Nat) /\ Len(Tail(Waiting)) = Left - 1
      /\ \A i \in 1 .. Left - 1 : Tail(Waiting)[i] = Waiting[i + 1]
  BY <1>6, <1>8, HeadTailProperties
<1>10. Waiting' = Tail(Waiting)
  <2>1. ASSUME NEW i \in 1 .. Left - 1 PROVE Waiting'[i] = Tail(Waiting)[i]
    <3>1. i + 1 \in 1 .. Left
      BY <1>6
    <3>2. Tail(Waiting)[i] = Len(popped) + (i + 1)
      BY <1>6, <1>9, <3>1
    <3>3. Waiting'[i] = Len(popped) + 1 + i /\ Len(popped) \in Int /\ i \in Int
      BY <1>1, <1>6, <1>7
    <3>4. Len(popped) + 1 + i = Len(popped) + (i + 1)
      BY <3>3
    <3> QED BY <3>2, <3>3, <3>4
  <2> QED BY <1>6, <1>7, <1>9, <2>1, SeqEqual
<1>11. LastPopped' = Head(Waiting)
  <2>1. popped' # <<>> /\ Len(popped') \in 1 .. Len(popped')
    BY <1>1, <1>3
  <2>2. popped'[Len(popped')] = Len(popped')
    BY <2>1 DEF Good, RingHolds, PoppedInOrder
  <2>3. LastPopped' = Len(popped')
    BY <2>1, <2>2 DEF LastPopped
  <2>4. Head(Waiting) = Len(popped) + 1
    BY <1>6, <1>9
  <2> QED BY <1>3, <2>3, <2>4
<1> QED BY <1>8, <1>10, <1>11, FifoIs

LEMMA FifoStep ==
    ASSUME Good, Good', MayPush, MaxPushes \in Nat, NEW t \in Threads, BlockStep(t), ~bare', cleared' = cleared
    PROVE  [ItemFifo!Next]_(ItemFifo!vars)
<1>1. CASE PushStore(t)
  BY <1>1, PushPuts DEF ItemFifo!Next
<1>2. CASE PopTakes(t) \/ TimedTakes(t)
  <2>1. t \in Poppers /\ PopTake(t)
    BY <1>2, BlockQueueAssumption DEF PopTakes, TimedTakes
  <2> QED BY <2>1, PopTakesOldest DEF ItemFifo!Next
<1>3. CASE Clear(t)
  BY <1>3 DEF Clear, Good, BlockTypes
<1>4. CASE ~PushStore(t) /\ ~PopTakes(t) /\ ~TimedTakes(t) /\ ~Clear(t)
  <2>1. UNCHANGED <<pushed, popped>>
    BY <1>4 DEF BlockStep, Lock, Awakes, Unlock, Broadcast, PushWaits, Sleep, PushAgain, LoadSize, StoreSize,
                PopWaits, PopAgain, TimedWaits, TimedLooks, TimedFails, queueVars
  <2>2. Left' = Left /\ popped' = popped
    BY <2>1 DEF Left
  <2> QED BY <2>2, WaitingStays
<1> QED BY <1>1, <1>2, <1>3, <1>4

\* Only lock brings a thread that pushes to its test, and nobody pushes meanwhile.
LEMMA MayPushKept ==
    ASSUME Good, MayPush, NEW u \in Threads, BlockStep(u), ~bare'
    PROVE  MayPush'
<1> SUFFICES ASSUME NEW t \in Pushers, at'[t] = "test" PROVE Len(pushed') < MaxPushes
  BY DEF MayPush
<1>0. t \in Threads /\ t \notin Poppers /\ t \notin Timed /\ at \in [Threads -> ThreadPlaces]
  BY BlockQueueAssumption DEF Threads, Good, BlockTypes
<1>1. CASE Lock(u)
  <2>1. pushed' = pushed
    BY <1>1 DEF Lock, queueVars
  <2>2. CASE t = u
    BY <1>1, <2>1, <2>2 DEF Lock
  <2>3. CASE t # u
    <3>1. at[t] = "test"
      BY <1>0, <1>1, <2>3 DEF Lock, ThreadGoes
    <3> QED BY <2>1, <3>1 DEF MayPush
  <2> QED BY <2>2, <2>3
<1>2. CASE PushStore(u)
  <2>1. at[u] = "test" /\ at'[u] = "size" /\ \A v \in Threads \ {u} : at'[v] = at[v]
    BY <1>0, <1>2 DEF PushStore, ThreadGoes
  <2>2. t # u /\ at[t] = "test"
    BY <1>0, <2>1
  <2> QED BY <1>0, <2>1, <2>2 DEF Good, MutexHeld, Inside
<1>3. CASE ~Lock(u) /\ ~PushStore(u)
  <2>1. pushed' = pushed
    BY <1>3 DEF BlockStep, Awakes, Unlock, Broadcast, Clear, PushWaits, Sleep, PushAgain, LoadSize, StoreSize,
                PopTakes, PopTake, PopWaits, PopAgain, TimedTakes, TimedWaits, TimedLooks, TimedFails, queueVars
  <2>2. at[t] = "test"
    <3>1. CASE t = u
      BY <1>0, <1>3, <3>1 DEF BlockStep, Awakes, Unlock, Broadcast, Clear, PushWaits, Sleep, PushAgain, LoadSize,
                StoreSize, PopTakes, PopTake, PopWaits, PopAgain, TimedTakes, TimedWaits, TimedLooks, TimedFails,
                ThreadGoes
    <3>2. CASE t # u
      BY <1>0, <1>3, <3>2 DEF BlockStep, Awakes, Unlock, Broadcast, Clear, PushWaits, Sleep, PushAgain, LoadSize,
                StoreSize, PopTakes, PopTake, PopWaits, PopAgain, TimedTakes, TimedWaits, TimedLooks, TimedFails,
                ThreadGoes
    <3> QED BY <3>1, <3>2
  <2> QED BY <2>1, <2>2 DEF MayPush
<1> QED BY <1>1, <1>2, <1>3

LEMMA StillBare == ASSUME NEW t \in Threads, BlockStep(t), ~bare' PROVE ~bare
BY DEF BlockStep, Lock, Awakes, Unlock, Broadcast, Clear, PushWaits, Sleep, PushAgain, PushStore,
       LoadSize, StoreSize, PopTakes, PopTake, PopWaits, PopAgain, TimedTakes, TimedWaits, TimedLooks, TimedFails

LEMMA FifoInvNext ==
    ASSUME FifoInv, [BlockNext]_blockVars, BlockInv'
    PROVE  FifoInv' /\ (~bare' /\ cleared' = cleared => [ItemFifo!Next]_(ItemFifo!vars))
<1>1. CASE UNCHANGED blockVars
  <2>1. UNCHANGED <<pushed, popped, at, bare, cleared, m_pData, m_dwFront>>
    BY <1>1 DEF blockVars
  <2>2. ItemFifo!vars' = ItemFifo!vars
    BY <2>1 DEF ItemFifo!vars, Waiting, Slot
  <2>3. FifoInv'
    BY <2>1 DEF FifoInv, MayPush, BlockInv, Good
  <2> QED BY <2>2, <2>3
<1>2. ASSUME NEW t \in Threads, BlockStep(t), ~bare'
      PROVE  FifoInv' /\ (cleared' = cleared => [ItemFifo!Next]_(ItemFifo!vars))
  <2>1. Good /\ MayPush
    BY <1>2, StillBare DEF FifoInv
  <2>2. Good'
    BY <1>2 DEF BlockInv, Good
  <2>3. MayPush'
    BY <1>2, <2>1, MayPushKept
  <2>4. MaxPushes \in Nat
    BY BlockQueueAssumption
  <2>5. cleared' = cleared => [ItemFifo!Next]_(ItemFifo!vars)
    BY <1>2, <2>1, <2>2, <2>4, FifoStep
  <2> QED BY <2>2, <2>3, <2>5 DEF FifoInv
<1>3. CASE bare'
  BY <1>3 DEF FifoInv
<1> QED BY <1>1, <1>2, <1>3 DEF BlockNext

\* As long as every pop without a time limit has found an item at once, what any
\* number of threads do to the queue, but for clear, are steps of BoundedFifo: an
\* item is put only where there is room, behind the others, and the oldest is
\* taken (CBlockQueue::push and pop).
THEOREM QueueImplementsFifo == BlockSpec => FifoWithMutex
<1>1. BlockInit => BlockInv /\ FifoInv
  <2>1. BlockInit => MayPush
    BY DEF BlockInit, MayPush, Threads
  <2> QED BY <2>1, InitBlockInv DEF FifoInv, BlockInv, Good
<1>2. BlockInv /\ FifoInv /\ [BlockNext]_blockVars =>
          /\ BlockInv' /\ FifoInv'
          /\ [~bare' /\ cleared' = cleared => [ItemFifo!Next]_(ItemFifo!vars)]_blockVars
  BY BlockInvNext, FifoInvNext
<1> QED BY <1>1, <1>2, PTL DEF BlockSpec, FifoWithMutex
-----------------------------------------------------------------------------
(* AsyncLog.                                                               *)
(* Cells in sequences: how often, and in which order.                      *)
LEMMA CellsCounted ==
    ASSUME NEW s \in Seq(Nat), NEW l
    PROVE  IsFiniteSet({i \in DOMAIN s : s[i] = l}) /\ CellsOf(l, s) \in Nat
<1>0. Len(s) \in Nat /\ DOMAIN s = 1 .. Len(s)
  BY LenProperties
<1>1. IsFiniteSet(1 .. Len(s))
  BY <1>0, FS_Interval
<1>2. {i \in DOMAIN s : s[i] = l} \in SUBSET (1 .. Len(s))
  BY <1>0
<1>3. IsFiniteSet({i \in DOMAIN s : s[i] = l})
  BY <1>1, <1>2, FS_Subset
<1> QED BY <1>3, FS_CardinalityType DEF CellsOf

LEMMA CellsAbsent ==
    ASSUME NEW s \in Seq(Nat), NEW l, \A i \in 1 .. Len(s) : s[i] # l
    PROVE  CellsOf(l, s) = 0
<1>1. {i \in DOMAIN s : s[i] = l} = {}
  BY LenProperties
<1> QED BY <1>1, FS_EmptySet DEF CellsOf

LEMMA Behind ==
    ASSUME NEW s \in Seq(Nat), NEW t \in Seq(Nat)
    PROVE  /\ s \o t \in Seq(Nat) /\ Len(s \o t) = Len(s) + Len(t) /\ Len(s) \in Nat /\ Len(t) \in Nat
           /\ \A i \in 1 .. Len(s) : (s \o t)[i] = s[i]
           /\ \A i \in 1 .. Len(t) : (s \o t)[Len(s) + i] = t[i]
           /\ \A i \in 1 .. Len(s \o t) : i \in 1 .. Len(s) \/ \E j \in 1 .. Len(t) : i = Len(s) + j
<1> DEFINE u == s \o t
<1>0. Len(s) \in Nat /\ Len(t) \in Nat
  BY LenProperties
<1>1. u \in Seq(Nat) /\ Len(u) = Len(s) + Len(t)
      /\ \A i \in 1 .. Len(s) + Len(t) : u[i] = IF i <= Len(s) THEN s[i] ELSE t[i - Len(s)]
  BY ConcatProperties
<1> HIDE DEF u
<1>2. ASSUME NEW i \in 1 .. Len(t) PROVE u[Len(s) + i] = t[i]
  <2>1. Len(s) + i \in 1 .. Len(s) + Len(t) /\ ~(Len(s) + i <= Len(s)) /\ Len(s) + i - Len(s) = i
    BY <1>0
  <2>2. PICK k : k = Len(s) + i
    OBVIOUS
  <2>3. u[k] = IF k <= Len(s) THEN s[k] ELSE t[k - Len(s)]
    BY <1>1, <2>1, <2>2
  <2> QED BY <2>1, <2>2, <2>3
<1>3. \A i \in 1 .. Len(s) : u[i] = s[i]
  BY <1>0, <1>1
<1>4. ASSUME NEW i \in 1 .. Len(u), i \notin 1 .. Len(s) PROVE \E j \in 1 .. Len(t) : i = Len(s) + j
  <2>1. i - Len(s) \in 1 .. Len(t) /\ i = Len(s) + (i - Len(s))
    BY <1>0, <1>1, <1>4
  <2> QED BY <2>1
<1> QED BY <1>0, <1>1, <1>2, <1>3, <1>4 DEF u

LEMMA OneOfBoth ==
    ASSUME NEW s \in Seq(Nat), NEW t \in Seq(Nat), NEW i \in 1 .. Len(s \o t)
    PROVE  (i \in 1 .. Len(s) /\ (s \o t)[i] = s[i]) \/ \E j \in 1 .. Len(t) : (s \o t)[i] = t[j]
<1> DEFINE u == s \o t
<1>1. /\ u \in Seq(Nat) /\ Len(u) = Len(s) + Len(t) /\ Len(s) \in Nat /\ Len(t) \in Nat
      /\ \A a \in 1 .. Len(s) : u[a] = s[a]
      /\ \A a \in 1 .. Len(t) : u[Len(s) + a] = t[a]
      /\ \A a \in 1 .. Len(u) : a \in 1 .. Len(s) \/ \E j \in 1 .. Len(t) : a = Len(s) + j
  BY Behind
<1>2. i \in 1 .. Len(u)
  OBVIOUS
<1> HIDE DEF u
<1>3. (i \in 1 .. Len(s) /\ u[i] = s[i]) \/ \E j \in 1 .. Len(t) : u[i] = t[j]
  BY <1>1, <1>2
<1> QED BY <1>3 DEF u

LEMMA Regrouped ==
    ASSUME NEW s \in Seq(Nat), NEW t \in Seq(Nat), NEW u \in Seq(Nat)
    PROVE  (s \o t) \o u = s \o (t \o u)
BY ConcatAssociative, SMTT(30)

LEMMA CellsJoined ==
    ASSUME NEW s \in Seq(Nat), NEW t \in Seq(Nat), NEW l
    PROVE  CellsOf(l, s \o t) = CellsOf(l, s) + CellsOf(l, t)
<1> DEFINE P == {i \in DOMAIN s : s[i] = l}
           Q == {i \in DOMAIN t : t[i] = l}
           R == {i \in DOMAIN (s \o t) : (s \o t)[i] = l}
           Over == {Len(s) + i : i \in Q}
           Shift == [i \in Q |-> Len(s) + i]
<1>0. /\ s \o t \in Seq(Nat) /\ Len(s \o t) = Len(s) + Len(t) /\ Len(s) \in Nat /\ Len(t) \in Nat
      /\ \A i \in 1 .. Len(s) : (s \o t)[i] = s[i]
      /\ \A i \in 1 .. Len(t) : (s \o t)[Len(s) + i] = t[i]
      /\ \A i \in 1 .. Len(s \o t) : i \in 1 .. Len(s) \/ \E j \in 1 .. Len(t) : i = Len(s) + j
  BY Behind
<1>1. DOMAIN s = 1 .. Len(s) /\ DOMAIN t = 1 .. Len(t) /\ DOMAIN (s \o t) = 1 .. Len(s) + Len(t)
  BY <1>0, LenProperties
<1>2. IsFiniteSet(P) /\ IsFiniteSet(Q)
  BY CellsCounted
<1>3. Shift \in Bijection(Q, Over)
  <2>0. Q \subseteq Nat
    BY <1>0, <1>1
  <2>1. Shift \in [Q -> Over]
    OBVIOUS
  <2>2. \A i, j \in Q : Shift[i] = Shift[j] => i = j
    <3>1. \A i \in Q : Shift[i] = Len(s) + i /\ i \in Nat
      BY <2>0
    <3> HIDE DEF Q, Shift
    <3> QED BY <1>0, <3>1
  <2>3. \A k \in Over : \E i \in Q : Shift[i] = k
    OBVIOUS
  <2> HIDE DEF Q, Over, Shift
  <2> QED BY <2>1, <2>2, <2>3 DEF Bijection, Injection, Surjection, IsInjective
<1>4. IsFiniteSet(Over) /\ Cardinality(Over) = Cardinality(Q)
  <2>1. ExistsBijection(Q, Over)
    BY <1>3 DEF ExistsBijection
  <2> QED BY <1>2, <2>1, FS_Bijection
<1>5. R = P \cup Over
  <2>1. ASSUME NEW i \in R PROVE i \in P \cup Over
    <3>1. CASE i \in 1 .. Len(s)
      BY <1>0, <1>1, <3>1
    <3>2. CASE i \notin 1 .. Len(s)
      <4>1. PICK j \in 1 .. Len(t) : i = Len(s) + j
        BY <1>0, <1>1, <3>2
      <4>2. t[j] = l
        BY <1>0, <4>1
      <4> QED BY <1>1, <4>1, <4>2
    <3> QED BY <3>1, <3>2
  <2>2. \A i \in P : i \in R
    BY <1>0, <1>1
  <2>3. \A i \in Q : Len(s) + i \in R
    BY <1>0, <1>1
  <2> QED BY <2>1, <2>2, <2>3
<1>6. P \cap Over = {}
  BY <1>0, <1>1
<1>7. Cardinality(P \cup Over) = Cardinality(P) + Cardinality(Over) - Cardinality(P \cap Over)
  BY <1>2, <1>4, FS_Union
<1>8. Cardinality(P) \in Nat /\ Cardinality(Q) \in Nat
  BY CellsCounted DEF CellsOf
<1>9. Cardinality(R) = Cardinality(P) + Cardinality(Q)
  <2> HIDE DEF P, Q, R, Over
  <2>1. Cardinality(P \cap Over) = 0
    BY <1>6, FS_EmptySet
  <2> QED BY <1>4, <1>5, <1>7, <1>8, <2>1
<1> QED BY <1>9 DEF CellsOf

\* Cells of lines that fell back, in fb, and line ends may be anywhere.
Told(c, fb) == c # 0 /\ c \notin fb
Before(s, t, fb) ==
    \A i \in 1 .. Len(s), j \in 1 .. Len(t) : Told(s[i], fb) /\ Told(t[j], fb) => s[i] <= t[j]
Sorted(s, fb) == \A i, j \in 1 .. Len(s) : i < j /\ Told(s[i], fb) /\ Told(s[j], fb) => s[i] <= s[j]
Known(s, n) == \A i \in 1 .. Len(s) : s[i] <= n

LEMMA SortedJoined ==
    ASSUME NEW s \in Seq(Nat), NEW t \in Seq(Nat), NEW fb, Sorted(s, fb), Sorted(t, fb), Before(s, t, fb)
    PROVE  Sorted(s \o t, fb)
<1> DEFINE u == s \o t
<1>0. /\ Len(u) = Len(s) + Len(t) /\ Len(s) \in Nat /\ Len(t) \in Nat
      /\ \A i \in 1 .. Len(s) : u[i] = s[i]
      /\ \A i \in 1 .. Len(t) : u[Len(s) + i] = t[i]
      /\ \A i \in 1 .. Len(u) : i \in 1 .. Len(s) \/ \E j \in 1 .. Len(t) : i = Len(s) + j
  BY Behind
<1> HIDE DEF u
<1> SUFFICES ASSUME NEW i \in 1 .. Len(u), NEW j \in 1 .. Len(u), i < j, Told(u[i], fb), Told(u[j], fb) PROVE u[i] <= u[j]
  BY DEF Sorted, u
<1>1. CASE i \in 1 .. Len(s) /\ j \in 1 .. Len(s)
  BY <1>0, <1>1 DEF Sorted
<1>2. CASE i \in 1 .. Len(s) /\ j \notin 1 .. Len(s)
  BY <1>0, <1>2 DEF Before
<1>3. CASE i \notin 1 .. Len(s)
  <2>1. PICK a \in 1 .. Len(t) : i = Len(s) + a
    BY <1>0, <1>3
  <2>2. j \notin 1 .. Len(s)
    BY <1>0, <2>1
  <2>3. PICK b \in 1 .. Len(t) : j = Len(s) + b
    BY <1>0, <2>2
  <2>4. a < b
    BY <1>0, <2>1, <2>3
  <2>5. u[i] = t[a] /\ u[j] = t[b]
    BY <1>0, <2>1, <2>3
  <2> QED BY <2>4, <2>5 DEF Sorted
<1> QED BY <1>1, <1>2, <1>3

LEMMA BeforeJoined ==
    ASSUME NEW r \in Seq(Nat), NEW s \in Seq(Nat), NEW t \in Seq(Nat), NEW fb
    PROVE  /\ Before(r, s, fb) /\ Before(r, t, fb) => Before(r, s \o t, fb)
           /\ Before(r, t, fb) /\ Before(s, t, fb) => Before(r \o s, t, fb)
<1>1. \A i \in 1 .. Len(s \o t) :
         \/ i \in 1 .. Len(s) /\ (s \o t)[i] = s[i]
         \/ \E j \in 1 .. Len(t) : (s \o t)[i] = t[j]
  BY OneOfBoth
<1>2. \A i \in 1 .. Len(r \o s) :
         \/ i \in 1 .. Len(r) /\ (r \o s)[i] = r[i]
         \/ \E j \in 1 .. Len(s) : (r \o s)[i] = s[j]
  BY OneOfBoth
<1> QED BY <1>1, <1>2 DEF Before

-----------------------------------------------------------------------------
\* What is in the file, in the buffer that is not current and in the current one,
\* with the lines T, of which those in fb fell back and those in lost are lost.
Kept(L, A, B, T, fb, lost) ==
    /\ L \in Seq(Nat) /\ A \in Seq(Nat) /\ B \in Seq(Nat) /\ T \in Seq(Nat)
    /\ Known(L, Len(T)) /\ Known(A, Len(T)) /\ Known(B, Len(T))
    /\ Sorted(L, fb) /\ Sorted(A, fb) /\ Sorted(B, fb)
    /\ Before(L, A, fb) /\ Before(L, B, fb) /\ Before(A, B, fb)
    /\ \A l \in 1 .. Len(T) : l \notin lost => CellsOf(l, L) + CellsOf(l, A) + CellsOf(l, B) = T[l]
NewLine(X, n, l) == X \in Seq(Nat) /\ (\A i \in 1 .. Len(X) : X[i] \in {0, l}) /\ CellsOf(l, X) = n

LEMMA Emptied == <<>> \in Seq(Nat) /\ Len(<<>>) = 0 /\ (\A n : Known(<<>>, n)) /\ (\A l : CellsOf(l, <<>>) = 0)
    /\ \A fb : Sorted(<<>>, fb) /\ (\A s : Before(s, <<>>, fb) /\ Before(<<>>, s, fb))
<1>1. <<>> \in Seq(Nat) /\ Len(<<>>) = 0
  OBVIOUS
<1>2. ASSUME NEW l PROVE CellsOf(l, <<>>) = 0
  <2>1. {i \in DOMAIN <<>> : <<>>[i] = l} = {}
    OBVIOUS
  <2> QED BY <2>1, FS_EmptySet DEF CellsOf
<1> QED BY <1>1, <1>2 DEF Known, Sorted, Before

LEMMA KnownJoined ==
    ASSUME NEW s \in Seq(Nat), NEW t \in Seq(Nat), NEW n, Known(s, n), Known(t, n)
    PROVE  Known(s \o t, n)
<1>1. \A i \in 1 .. Len(s \o t) :
         \/ i \in 1 .. Len(s) /\ (s \o t)[i] = s[i]
         \/ \E j \in 1 .. Len(t) : (s \o t)[i] = t[j]
  BY OneOfBoth
<1> QED BY <1>1 DEF Known

\* A new line appended: nobody else has its number.
LEMMA LongerLines ==
    ASSUME NEW T \in Seq(Nat), NEW n \in Nat, NEW X, NewLine(X, n, Len(T) + 1)
    PROVE  /\ Append(T, n) \in Seq(Nat) /\ Len(Append(T, n)) = Len(T) + 1 /\ Len(T) \in Nat
           /\ Append(T, n)[Len(T) + 1] = n /\ \A l \in 1 .. Len(T) : Append(T, n)[l] = T[l]
           /\ \A s \in Seq(Nat) : Known(s, Len(T)) => Known(s, Len(T) + 1) /\ CellsOf(Len(T) + 1, s) = 0
           /\ Known(X, Len(T) + 1) /\ X \in Seq(Nat) /\ CellsOf(Len(T) + 1, X) = n
           /\ \A l \in 1 .. Len(T) : CellsOf(l, X) = 0
           /\ \A fb : Sorted(X, fb)
<1>0. Len(T) \in Nat
  BY LenProperties
<1>1. Append(T, n) \in Seq(Nat) /\ Len(Append(T, n)) = Len(T) + 1
      /\ Append(T, n)[Len(T) + 1] = n /\ \A l \in 1 .. Len(T) : Append(T, n)[l] = T[l]
  BY AppendProperties
<1>2. ASSUME NEW s \in Seq(Nat), Known(s, Len(T)) PROVE Known(s, Len(T) + 1) /\ CellsOf(Len(T) + 1, s) = 0
  <2>0. \A i \in 1 .. Len(s) : s[i] \in Nat /\ s[i] <= Len(T)
    BY <1>2, ElementOfSeq DEF Known
  <2>1. \A i \in 1 .. Len(s) : s[i] <= Len(T) + 1 /\ s[i] # Len(T) + 1
    BY <1>0, <2>0
  <2>2. Known(s, Len(T) + 1)
    BY <2>1 DEF Known
  <2>3. PICK l : l = Len(T) + 1
    OBVIOUS
  <2>4. CellsOf(l, s) = 0
    BY <2>1, <2>3, CellsAbsent
  <2> QED BY <2>2, <2>3, <2>4
<1>3. X \in Seq(Nat) /\ CellsOf(Len(T) + 1, X) = n /\ \A i \in 1 .. Len(X) : X[i] \in {0, Len(T) + 1}
  BY DEF NewLine
<1>4. Known(X, Len(T) + 1)
  BY <1>0, <1>3 DEF Known
<1>5. ASSUME NEW l \in 1 .. Len(T) PROVE CellsOf(l, X) = 0
  <2>1. \A i \in 1 .. Len(X) : X[i] # l
    BY <1>0, <1>3
  <2> QED BY <1>3, <2>1, CellsAbsent
<1>6. \A fb : Sorted(X, fb)
  BY <1>0, <1>3 DEF Sorted, Told
<1> QED BY <1>0, <1>1, <1>2, <1>3, <1>4, <1>5, <1>6

LEMMA NewLineIsLast ==
    ASSUME NEW n \in Nat, NEW l \in Nat, NEW X, NewLine(X, n, l + 1), NEW fb
    PROVE  \A s \in Seq(Nat) : Known(s, l) => Before(s, X, fb)
<1> SUFFICES ASSUME NEW s \in Seq(Nat), Known(s, l), NEW i \in 1 .. Len(s), NEW j \in 1 .. Len(X),
                    Told(X[j], fb)
             PROVE  s[i] <= X[j]
  BY DEF Before
<1>1. s[i] \in Nat /\ s[i] <= l
  BY ElementOfSeq DEF Known
<1>2. X[j] = l + 1
  BY DEF NewLine, Told
<1> QED BY <1>1, <1>2

LEMMA AppendsCurrent ==
    ASSUME NEW L, NEW A, NEW B, NEW T, NEW fb, NEW lost, Kept(L, A, B, T, fb, lost),
           NEW n \in Nat, NEW X, NewLine(X, n, Len(T) + 1)
    PROVE  Kept(L, A, B \o X, Append(T, n), fb, lost)
<1> DEFINE N == Len(T)
           U == Append(T, n)
           C == B \o X
<1>0. /\ L \in Seq(Nat) /\ A \in Seq(Nat) /\ B \in Seq(Nat) /\ T \in Seq(Nat)
      /\ Known(L, N) /\ Known(A, N) /\ Known(B, N)
      /\ Sorted(L, fb) /\ Sorted(A, fb) /\ Sorted(B, fb)
      /\ Before(L, A, fb) /\ Before(L, B, fb) /\ Before(A, B, fb)
  BY DEF Kept
<1>1. /\ U \in Seq(Nat) /\ Len(U) = N + 1 /\ N \in Nat
      /\ U[N + 1] = n /\ \A l \in 1 .. N : U[l] = T[l]
      /\ \A s \in Seq(Nat) : Known(s, N) => Known(s, N + 1) /\ CellsOf(N + 1, s) = 0
      /\ Known(X, N + 1) /\ X \in Seq(Nat) /\ CellsOf(N + 1, X) = n
      /\ \A l \in 1 .. N : CellsOf(l, X) = 0
      /\ \A f : Sorted(X, f)
  BY <1>0, LongerLines
<1>2. Before(L, X, fb) /\ Before(A, X, fb) /\ Before(B, X, fb)
  BY <1>0, <1>1, NewLineIsLast
<1>3. C \in Seq(Nat) /\ \A l : CellsOf(l, C) = CellsOf(l, B) + CellsOf(l, X)
  BY <1>0, <1>1, Behind, CellsJoined
<1>4. Known(L, N + 1) /\ Known(A, N + 1) /\ Known(B, N + 1)
  BY <1>0, <1>1
<1>5. Known(C, N + 1)
  BY <1>0, <1>1, <1>4, KnownJoined
<1>6. Sorted(C, fb)
  BY <1>0, <1>1, <1>2, SortedJoined
<1>7. Before(L, C, fb) /\ Before(A, C, fb)
  BY <1>0, <1>1, <1>2, BeforeJoined
<1>8. ASSUME NEW l \in 1 .. N + 1, l \notin lost
      PROVE  CellsOf(l, L) + CellsOf(l, A) + CellsOf(l, C) = U[l]
  <2>0. CellsOf(l, B) \in Nat /\ CellsOf(l, C) = CellsOf(l, B) + CellsOf(l, X)
    BY <1>0, <1>3, CellsCounted
  <2>1. CASE l \in 1 .. N
    <3>1. CellsOf(l, L) + CellsOf(l, A) + CellsOf(l, B) = T[l]
      BY <1>8, <2>1 DEF Kept
    <3> QED BY <1>1, <2>0, <2>1, <3>1
  <2>2. CASE l \notin 1 .. N
    <3>1. l = N + 1
      BY <1>1, <2>2
    <3>2. CellsOf(l, L) = 0 /\ CellsOf(l, A) = 0 /\ CellsOf(l, B) = 0
      BY <1>0, <1>1, <3>1
    <3> QED BY <1>1, <2>0, <3>1, <3>2
  <2> QED BY <2>1, <2>2
<1> HIDE DEF N, U, C
<1>9. Kept(L, A, C, U, fb, lost)
  BY <1>0, <1>1, <1>3, <1>4, <1>5, <1>6, <1>7, <1>8 DEF Kept
<1> QED BY <1>9 DEF C, U

\* A line in fb is told of no more, so that order asks less.
LEMMA MoreFellBack ==
    ASSUME NEW s, NEW t, NEW fb, NEW more, fb \subseteq more
    PROVE  (Sorted(s, fb) => Sorted(s, more)) /\ (Before(s, t, fb) => Before(s, t, more))
BY DEF Sorted, Before, Told

LEMMA AppendsOther ==
    ASSUME NEW L, NEW A, NEW B, NEW T, NEW fb, NEW lost, Kept(L, A, B, T, fb, lost),
           NEW n \in Nat, NEW X, NewLine(X, n, Len(T) + 1)
    PROVE  Kept(L, A \o X, B, Append(T, n), fb \cup {Len(T) + 1}, lost)
<1> DEFINE N == Len(T)
           U == Append(T, n)
           C == A \o X
           more == fb \cup {Len(T) + 1}
<1>0. /\ L \in Seq(Nat) /\ A \in Seq(Nat) /\ B \in Seq(Nat) /\ T \in Seq(Nat)
      /\ Known(L, N) /\ Known(A, N) /\ Known(B, N)
      /\ Sorted(L, fb) /\ Sorted(A, fb) /\ Sorted(B, fb)
      /\ Before(L, A, fb) /\ Before(L, B, fb) /\ Before(A, B, fb)
  BY DEF Kept
<1>1. /\ U \in Seq(Nat) /\ Len(U) = N + 1 /\ N \in Nat
      /\ U[N + 1] = n /\ \A l \in 1 .. N : U[l] = T[l]
      /\ \A s \in Seq(Nat) : Known(s, N) => Known(s, N + 1) /\ CellsOf(N + 1, s) = 0
      /\ Known(X, N + 1) /\ X \in Seq(Nat) /\ CellsOf(N + 1, X) = n
      /\ \A l \in 1 .. N : CellsOf(l, X) = 0
      /\ \A f : Sorted(X, f)
  BY <1>0, LongerLines
<1>a. /\ Sorted(L, more) /\ Sorted(A, more) /\ Sorted(B, more)
      /\ Before(L, A, more) /\ Before(L, B, more) /\ Before(A, B, more)
  <2>1. fb \subseteq more
    OBVIOUS
  <2> HIDE DEF more
  <2> QED BY <1>0, <2>1, MoreFellBack
<1>2. Before(L, X, more) /\ Before(A, X, more) /\ Before(X, B, more)
  <2>1. \A j \in 1 .. Len(X) : ~Told(X[j], more)
    BY DEF NewLine, Told
  <2> QED BY <2>1 DEF Before
<1>3. C \in Seq(Nat) /\ \A l : CellsOf(l, C) = CellsOf(l, A) + CellsOf(l, X)
  BY <1>0, <1>1, Behind, CellsJoined
<1>4. Known(L, N + 1) /\ Known(A, N + 1) /\ Known(B, N + 1)
  BY <1>0, <1>1
<1>5. Known(C, N + 1)
  BY <1>0, <1>1, <1>4, KnownJoined
<1>6. Sorted(C, more)
  BY <1>0, <1>1, <1>2, <1>a, SortedJoined
<1>7. Before(L, C, more) /\ Before(C, B, more)
  BY <1>0, <1>1, <1>2, <1>a, BeforeJoined
<1>8. ASSUME NEW l \in 1 .. N + 1, l \notin lost
      PROVE  CellsOf(l, L) + CellsOf(l, C) + CellsOf(l, B) = U[l]
  <2>0. CellsOf(l, A) \in Nat /\ CellsOf(l, L) \in Nat /\ CellsOf(l, B) \in Nat
        /\ CellsOf(l, C) = CellsOf(l, A) + CellsOf(l, X)
    BY <1>0, <1>3, CellsCounted
  <2>1. CASE l \in 1 .. N
    <3>1. CellsOf(l, L) + CellsOf(l, A) + CellsOf(l, B) = T[l]
      BY <1>8, <2>1 DEF Kept
    <3> QED BY <1>1, <2>0, <2>1, <3>1
  <2>2. CASE l \notin 1 .. N
    <3>1. l = N + 1
      BY <1>1, <2>2
    <3>2. CellsOf(l, L) = 0 /\ CellsOf(l, A) = 0 /\ CellsOf(l, B) = 0
      BY <1>0, <1>1, <3>1
    <3> QED BY <1>1, <2>0, <3>1, <3>2
  <2> QED BY <2>1, <2>2
<1> HIDE DEF N, U, C, more
<1>9. Kept(L, C, B, U, more, lost)
  BY <1>0, <1>1, <1>3, <1>4, <1>5, <1>6, <1>7, <1>8, <1>a DEF Kept
<1> QED BY <1>9 DEF C, U, N, more

LEMMA StraysOff ==
    ASSUME NEW L, NEW A, NEW B, NEW T, NEW fb, NEW lost, Kept(L, A, B, T, fb, lost),
           NEW n \in Nat, NEW X, NewLine(X, n, Len(T) + 1)
    PROVE  Kept(L, A, B, Append(T, n), fb \cup {Len(T) + 1}, lost \cup {Len(T) + 1})
<1> DEFINE N == Len(T)
           U == Append(T, n)
           more == fb \cup {Len(T) + 1}
           gone == lost \cup {Len(T) + 1}
<1>0. /\ L \in Seq(Nat) /\ A \in Seq(Nat) /\ B \in Seq(Nat) /\ T \in Seq(Nat)
      /\ Known(L, N) /\ Known(A, N) /\ Known(B, N)
      /\ Sorted(L, fb) /\ Sorted(A, fb) /\ Sorted(B, fb)
      /\ Before(L, A, fb) /\ Before(L, B, fb) /\ Before(A, B, fb)
  BY DEF Kept
<1>1. /\ U \in Seq(Nat) /\ Len(U) = N + 1 /\ N \in Nat
      /\ U[N + 1] = n /\ \A l \in 1 .. N : U[l] = T[l]
      /\ \A s \in Seq(Nat) : Known(s, N) => Known(s, N + 1) /\ CellsOf(N + 1, s) = 0
      /\ Known(X, N + 1) /\ X \in Seq(Nat) /\ CellsOf(N + 1, X) = n
      /\ \A l \in 1 .. N : CellsOf(l, X) = 0
      /\ \A f : Sorted(X, f)
  BY <1>0, LongerLines
<1>2. /\ Sorted(L, more) /\ Sorted(A, more) /\ Sorted(B, more)
      /\ Before(L, A, more) /\ Before(L, B, more) /\ Before(A, B, more)
  <2>1. fb \subseteq more
    OBVIOUS
  <2> HIDE DEF more
  <2> QED BY <1>0, <2>1, MoreFellBack
<1>3. Known(L, N + 1) /\ Known(A, N + 1) /\ Known(B, N + 1)
  BY <1>0, <1>1
<1>4. ASSUME NEW l \in 1 .. N + 1, l \notin gone
      PROVE  CellsOf(l, L) + CellsOf(l, A) + CellsOf(l, B) = U[l]
  <2>1. l \in 1 .. N /\ l \notin lost
    BY <1>1, <1>4
  <2> QED BY <1>1, <2>1 DEF Kept
<1> HIDE DEF N, U, more, gone
<1>5. Kept(L, A, B, U, more, gone)
  BY <1>0, <1>1, <1>2, <1>3, <1>4 DEF Kept
<1> QED BY <1>5 DEF U, more, gone

\* The buffers change places, when nothing in the other has to come first.
LEMMA Swaps ==
    ASSUME NEW L, NEW A, NEW B, NEW T, NEW fb, NEW lost, Kept(L, A, B, T, fb, lost),
           \A i \in 1 .. Len(A) : ~Told(A[i], fb)
    PROVE  Kept(L, B, A, T, fb, lost)
<1>1. /\ L \in Seq(Nat) /\ A \in Seq(Nat) /\ B \in Seq(Nat) /\ T \in Seq(Nat)
      /\ Known(L, Len(T)) /\ Known(A, Len(T)) /\ Known(B, Len(T))
      /\ Sorted(L, fb) /\ Sorted(A, fb) /\ Sorted(B, fb)
      /\ Before(L, A, fb) /\ Before(L, B, fb)
  BY DEF Kept
<1>2. Before(B, A, fb)
  BY DEF Before
<1>3. ASSUME NEW l \in 1 .. Len(T), l \notin lost
      PROVE  CellsOf(l, L) + CellsOf(l, B) + CellsOf(l, A) = T[l]
  <2>1. CellsOf(l, L) + CellsOf(l, A) + CellsOf(l, B) = T[l]
    BY <1>3 DEF Kept
  <2>2. CellsOf(l, L) \in Nat /\ CellsOf(l, A) \in Nat /\ CellsOf(l, B) \in Nat
    BY <1>1, CellsCounted
  <2> QED BY <2>1, <2>2
<1> QED BY <1>1, <1>2, <1>3 DEF Kept

LEMMA WritesOut ==
    ASSUME NEW L, NEW A, NEW B, NEW T, NEW fb, NEW lost, Kept(L, A, B, T, fb, lost)
    PROVE  /\ Kept(L \o A, <<>>, B, T, fb, lost)
           /\ Kept(L, <<>>, B, T, fb, lost \cup ({A[i] : i \in DOMAIN A} \ {0}))
<1> DEFINE M == L \o A
<1>1. /\ L \in Seq(Nat) /\ A \in Seq(Nat) /\ B \in Seq(Nat) /\ T \in Seq(Nat)
      /\ Known(L, Len(T)) /\ Known(A, Len(T)) /\ Known(B, Len(T))
      /\ Sorted(L, fb) /\ Sorted(A, fb) /\ Sorted(B, fb)
      /\ Before(L, A, fb) /\ Before(L, B, fb) /\ Before(A, B, fb)
  BY DEF Kept
<1>2. M \in Seq(Nat) /\ \A l : CellsOf(l, M) = CellsOf(l, L) + CellsOf(l, A)
  BY <1>1, Behind, CellsJoined
<1>3. Known(M, Len(T))
  BY <1>1, KnownJoined
<1>4. Sorted(M, fb)
  BY <1>1, SortedJoined
<1>5. Before(M, B, fb)
  BY <1>1, BeforeJoined
<1>6. /\ <<>> \in Seq(Nat) /\ Known(<<>>, Len(T)) /\ Sorted(<<>>, fb)
      /\ \A s : Before(s, <<>>, fb) /\ Before(<<>>, s, fb)
      /\ \A l : CellsOf(l, <<>>) = 0
  BY Emptied
<1>7. ASSUME NEW l \in 1 .. Len(T), l \notin lost
      PROVE  CellsOf(l, L) + CellsOf(l, A) + CellsOf(l, B) = T[l]
             /\ CellsOf(l, L) \in Nat /\ CellsOf(l, A) \in Nat /\ CellsOf(l, B) \in Nat
  BY <1>1, <1>7, CellsCounted DEF Kept
<1>8. ASSUME NEW l \in 1 .. Len(T), l \notin lost
      PROVE  CellsOf(l, M) + CellsOf(l, <<>>) + CellsOf(l, B) = T[l]
  <2> HIDE DEF M
  <2> QED BY <1>2, <1>6, <1>7, <1>8
<1>9. ASSUME NEW l \in 1 .. Len(T), l \notin lost \cup ({A[i] : i \in DOMAIN A} \ {0})
      PROVE  CellsOf(l, L) + CellsOf(l, <<>>) + CellsOf(l, B) = T[l]
  <2>1. l # 0 /\ DOMAIN A = 1 .. Len(A)
    BY <1>1, LenProperties
  <2>2. \A i \in 1 .. Len(A) : A[i] # l
    BY <1>9, <2>1
  <2>3. CellsOf(l, A) = 0
    BY <1>1, <2>2, CellsAbsent
  <2> QED BY <1>6, <1>7, <1>9, <2>3
<1>10. Kept(L, <<>>, B, T, fb, lost \cup ({A[i] : i \in DOMAIN A} \ {0}))
  BY <1>1, <1>6, <1>9 DEF Kept
<1>11. Kept(M, <<>>, B, T, fb, lost)
  <2> HIDE DEF M
  <2> QED BY <1>1, <1>2, <1>3, <1>4, <1>5, <1>6, <1>8 DEF Kept
<1> QED BY <1>10, <1>11

LEMMA KeptSays ==
    ASSUME NEW L, NEW A, NEW B, NEW T, NEW fb, NEW lost, Kept(L, A, B, T, fb, lost)
    PROVE  /\ L \o A \o B \in Seq(Nat) /\ Sorted(L \o A \o B, fb)
           /\ \A l \in 1 .. Len(T) : l \notin lost => CellsOf(l, L \o A \o B) = T[l]
<1> DEFINE M == L \o A
<1>1. /\ L \in Seq(Nat) /\ A \in Seq(Nat) /\ B \in Seq(Nat)
      /\ Sorted(L, fb) /\ Sorted(A, fb) /\ Sorted(B, fb)
      /\ Before(L, A, fb) /\ Before(L, B, fb) /\ Before(A, B, fb)
  BY DEF Kept
<1>2. M \in Seq(Nat) /\ \A l : CellsOf(l, M) = CellsOf(l, L) + CellsOf(l, A)
  BY <1>1, Behind, CellsJoined
<1>3. Sorted(M, fb)
  BY <1>1, SortedJoined
<1>4. Before(M, B, fb)
  BY <1>1, BeforeJoined
<1> HIDE DEF M
<1>5. M \o B \in Seq(Nat) /\ Sorted(M \o B, fb)
  BY <1>1, <1>2, <1>3, <1>4, Behind, SortedJoined
<1>6. \A l : CellsOf(l, M \o B) = CellsOf(l, M) + CellsOf(l, B)
  BY <1>1, <1>2, CellsJoined
<1>7. ASSUME NEW l \in 1 .. Len(T), l \notin lost PROVE CellsOf(l, M \o B) = T[l]
  <2>1. CellsOf(l, L) + CellsOf(l, A) + CellsOf(l, B) = T[l]
    BY <1>7 DEF Kept
  <2> QED BY <1>2, <1>6, <2>1
<1> QED BY <1>5, <1>7 DEF M

-----------------------------------------------------------------------------
Bufs == [data: Seq(Nat), m_bFull: BOOLEAN]

\* A line goes behind what is in the buffer, with its line end or without.
LEMMA LineDoes ==
    ASSUME NEW b \in Bufs, NEW n \in Nat \ {0}, texts \in Seq(Nat)
    PROVE  \E X : NewLine(X, n, Len(texts) + 1) /\ WithLine(b, n) \in Bufs /\ WithLine(b, n).data = b.data \o X
<1> DEFINE l == Len(texts) + 1
           End == <<0>>
           W == Text(n)
           Y == W \o End
<1>0. l \in Nat /\ l # 0
  BY LenProperties
<1>1. W = [c \in 1 .. n |-> l]
  BY DEF Text
<1>2. W \in Seq(Nat) /\ Len(W) = n /\ DOMAIN W = 1 .. n /\ \A i \in 1 .. n : W[i] = l
  <2> HIDE DEF l
  <2>1. W \in [1 .. n -> Nat] /\ \A i \in 1 .. n : W[i] = l
    BY <1>0, <1>1
  <2> HIDE DEF W
  <2>2. n \in Nat
    OBVIOUS
  <2>3. W \in Seq(Nat)
    BY <2>1, <2>2, SeqDef
  <2>4. Len(W) = n /\ DOMAIN W = 1 .. n
    BY <2>1, <2>2, <2>3, LenProperties
  <2> QED BY <2>1, <2>3, <2>4
<1> HIDE DEF l, W
<1>3. CellsOf(l, W) = n
  <2>1. {i \in DOMAIN W : W[i] = l} = 1 .. n
    BY <1>2
  <2>2. Cardinality(1 .. n) = n
    <3>1. Cardinality(1 .. n) = IF 1 > n THEN 0 ELSE n - 1 + 1
      BY FS_Interval
    <3> QED BY <3>1
  <2> QED BY <2>1, <2>2 DEF CellsOf
<1>4. End \in Seq(Nat) /\ Len(End) = 1 /\ End[1] = 0
  OBVIOUS
<1> HIDE DEF End
<1>5. CellsOf(l, End) = 0
  <2>1. \A i \in 1 .. Len(End) : End[i] # l
    BY <1>0, <1>4
  <2> QED BY <1>4, <2>1, CellsAbsent
<1>6. Y \in Seq(Nat) /\ \A i \in 1 .. Len(Y) : (i \in 1 .. Len(W) /\ Y[i] = W[i]) \/ \E j \in 1 .. Len(End) : Y[i] = End[j]
  <2>1. /\ Y \in Seq(Nat) /\ Len(Y) = Len(W) + Len(End) /\ Len(W) \in Nat /\ Len(End) \in Nat
        /\ \A i \in 1 .. Len(W) : Y[i] = W[i]
        /\ \A i \in 1 .. Len(End) : Y[Len(W) + i] = End[i]
        /\ \A i \in 1 .. Len(Y) : i \in 1 .. Len(W) \/ \E j \in 1 .. Len(End) : i = Len(W) + j
    BY <1>2, <1>4, Behind
  <2> HIDE DEF Y
  <2> QED BY <2>1
<1>7. CellsOf(l, Y) = n
  <2>1. CellsOf(l, Y) = CellsOf(l, W) + CellsOf(l, End)
    BY <1>2, <1>4, CellsJoined
  <2> QED BY <1>3, <1>5, <2>1
<1>8. NewLine(W, n, l)
  BY <1>2, <1>3 DEF NewLine
<1>9. NewLine(Y, n, l)
  <2> HIDE DEF Y
  <2> QED BY <1>2, <1>4, <1>6, <1>7 DEF NewLine
<1>10. b.data \in Seq(Nat) /\ b.m_bFull \in BOOLEAN /\ b = [data |-> b.data, m_bFull |-> b.m_bFull]
  BY DEF Bufs
<1>11. (b.data \o W) \o End = b.data \o Y
  <2>1. PICK d \in Seq(Nat) : d = b.data
    BY <1>10
  <2>2. (d \o W) \o End = d \o (W \o End)
    <3> HIDE DEF Y
    <3> QED BY <1>2, <1>4, Regrouped, Zenon
  <2> QED BY <2>1, <2>2
<1>12. b.data \o W \in Seq(Nat) /\ b.data \o Y \in Seq(Nat)
  BY <1>2, <1>6, <1>10, ConcatProperties
<1>13. CASE Len(b.data) + n < dwBufSize
  <2> DEFINE v == [b EXCEPT !.data = b.data \o Y]
  <2>1. WithLine(b, n) = v
    BY <1>11, <1>13 DEF WithLine, W, End
  <2>2. v.data = b.data \o Y /\ v \in Bufs
    <3>1. \A d \in Seq(Nat) : [b EXCEPT !.data = d].data = d /\ [b EXCEPT !.data = d] \in Bufs
      BY DEF Bufs
    <3> QED BY <1>12, <3>1
  <2> QED BY <1>9, <2>1, <2>2 DEF l
<1>14. CASE ~(Len(b.data) + n < dwBufSize)
  <2> DEFINE v == [b EXCEPT !.data = b.data \o W, !.m_bFull = TRUE]
  <2>1. WithLine(b, n) = v
    BY <1>14 DEF WithLine, W
  <2>2. v.data = b.data \o W /\ v \in Bufs
    <3>1. \A d \in Seq(Nat) : [b EXCEPT !.data = d, !.m_bFull = TRUE].data = d
                              /\ [b EXCEPT !.data = d, !.m_bFull = TRUE] \in Bufs
      BY DEF Bufs
    <3> QED BY <1>12, <3>1
  <2> QED BY <1>8, <2>1, <2>2 DEF l
<1> QED BY <1>13, <1>14

-----------------------------------------------------------------------------
Calls == [at: {"idle", "read", "switch", "write", "reset", "flag"}, k: 0 .. 2]
USE DEF Calls
Busy(f) == flush[f].k # 0
LogTypes ==
    /\ buffer \in [1 .. 2 -> Bufs]
    /\ flush \in [Flushers -> Calls]
    /\ m_poCurWirteBuffer \in 1 .. 2 /\ m_iCurWriteBufferFlag \in 1 .. 2
    /\ raced = FALSE
\* At most one call has a buffer: the current one until it has switched, and the
\* other from then on.
OneFlush ==
    /\ \A f \in Flushers : Busy(f) <=> flush[f].at \in {"switch", "write", "reset", "flag"}
    /\ \A f, g \in Flushers : Busy(f) /\ Busy(g) => f = g
    /\ \A f \in Flushers : Busy(f) =>
           /\ flush[f].k = m_iCurWriteBufferFlag
           /\ flush[f].at = "switch" => m_poCurWirteBuffer = m_iCurWriteBufferFlag
           /\ flush[f].at # "switch" => m_poCurWirteBuffer = Other(m_iCurWriteBufferFlag)
    /\ (\A f \in Flushers : ~Busy(f)) => m_poCurWirteBuffer = m_iCurWriteBufferFlag
\* No buffer is on its way to the file.
NoneOut == \A f \in Flushers : flush[f].at \notin {"write", "reset"}
\* Then only lines that fell back are in the buffer that is not current.
Between ==
    NoneOut => LET d == buffer[Other(m_poCurWirteBuffer)].data
               IN \A i \in 1 .. Len(d) : ~Told(d[i], fellBack)
LinesPlaced == Kept(logFile, StillIn(Other(m_poCurWirteBuffer)), StillIn(m_poCurWirteBuffer),
               texts, fellBack, stray \cup unwritten)
LogInv == LogTypes /\ OneFlush /\ Between /\ LinesPlaced
LogIInv == raced \/ LogInv

LEMMA LogStart == LogInit => LogIInv
<1> SUFFICES ASSUME LogInit PROVE LogInv
  BY DEF LogIInv
<1>1. \A f \in Flushers : flush[f] = NotFlushing
  BY DEF LogInit
<1>2. \A f \in Flushers : ~Busy(f) /\ flush[f].at = "idle"
  BY <1>1 DEF NotFlushing, Busy
<1>3. LogTypes
  BY DEF LogInit, LogTypes, Bufs, EmptyBuffer, NotFlushing
<1>4. OneFlush
  BY <1>2 DEF OneFlush, LogInit
<1>5. \A k \in 1 .. 2 : buffer[k].data = <<>> /\ StillIn(k) = <<>>
  BY DEF LogInit, EmptyBuffer, StillIn
<1>6. m_poCurWirteBuffer = 1 /\ m_iCurWriteBufferFlag = 1 /\ Other(1) = 2
  BY DEF LogInit, Other
<1>7. Between
  BY <1>5, <1>6 DEF Between
<1>8. LinesPlaced
  <2>1. logFile = <<>> /\ texts = <<>> /\ stray \cup unwritten = {}
    BY DEF LogInit
  <2>2. Kept(<<>>, <<>>, <<>>, <<>>, fellBack, {})
    BY Emptied DEF Kept
  <2>3. StillIn(m_poCurWirteBuffer) = <<>> /\ StillIn(Other(m_poCurWirteBuffer)) = <<>>
    BY <1>5, <1>6
  <2>4. Kept(logFile, <<>>, <<>>, texts, fellBack, stray \cup unwritten)
    BY <2>1, <2>2
  <2> QED BY <2>3, <2>4 DEF LinesPlaced
<1> QED BY <1>3, <1>4, <1>7, <1>8 DEF LogInv

\* Which buffer is being reset.
LEMMA CurrentIsIn ==
    ASSUME LogTypes, OneFlush
    PROVE  /\ Other(m_poCurWirteBuffer) \in 1 .. 2 /\ Other(m_poCurWirteBuffer) # m_poCurWirteBuffer
           /\ Other(Other(m_poCurWirteBuffer)) = m_poCurWirteBuffer
           /\ StillIn(m_poCurWirteBuffer) = buffer[m_poCurWirteBuffer].data
           /\ \A k \in 1 .. 2 : buffer[k] \in Bufs /\ buffer[k].data \in Seq(Nat)
<1>1. /\ Other(m_poCurWirteBuffer) \in 1 .. 2 /\ Other(m_poCurWirteBuffer) # m_poCurWirteBuffer
      /\ Other(Other(m_poCurWirteBuffer)) = m_poCurWirteBuffer
  BY DEF LogTypes, Other
<1>2. ~Resetting(m_poCurWirteBuffer)
  <2> SUFFICES ASSUME NEW f \in Flushers, flush[f] = [at |-> "reset", k |-> m_poCurWirteBuffer] PROVE FALSE
    BY DEF Resetting
  <2>1. Busy(f) /\ flush[f].k = m_poCurWirteBuffer
    BY DEF OneFlush
  <2> QED BY <2>1 DEF OneFlush, LogTypes, Other
<1> QED BY <1>1, <1>2 DEF LogTypes, Bufs, StillIn

LEMMA SameFlush ==
    ASSUME OneFlush, UNCHANGED <<flush, m_poCurWirteBuffer, m_iCurWriteBufferFlag>>
    PROVE  OneFlush' /\ (NoneOut' <=> NoneOut) /\ \A k : Resetting(k)' <=> Resetting(k)
BY DEF OneFlush, NoneOut, Busy, Resetting, Other

\* A line written into buffer k with no change of roles.
LEMMA WritesOne ==
    ASSUME LogInv, NEW n \in TextLens, NEW k \in 1 .. 2,
           buffer'[k] = WithLine(buffer[k], n), buffer'[Other(k)].data = buffer[Other(k)].data,
           buffer' \in [1 .. 2 -> Bufs], texts' = Append(texts, n),
           UNCHANGED <<flush, m_poCurWirteBuffer, m_iCurWriteBufferFlag, logFile, unwritten, raced>>,
           \/ k = m_poCurWirteBuffer /\ UNCHANGED <<fellBack, stray>>
           \/ /\ k = Other(m_poCurWirteBuffer) /\ fellBack' = fellBack \cup {Len(texts) + 1}
              /\ stray' = IF Resetting(k) THEN stray \cup {Len(texts) + 1} ELSE stray
    PROVE  LogInv'
<1> DEFINE c == m_poCurWirteBuffer
           o == Other(m_poCurWirteBuffer)
<1>0. n \in Nat \ {0} /\ n \in Nat
  BY AsyncLogAssumption
<1>1. LogTypes /\ OneFlush /\ Between /\ LinesPlaced
  BY DEF LogInv
<1>2. /\ o \in 1 .. 2 /\ o # c /\ Other(o) = c /\ StillIn(c) = buffer[c].data
      /\ \A j \in 1 .. 2 : buffer[j] \in Bufs /\ buffer[j].data \in Seq(Nat)
  BY <1>1, CurrentIsIn
<1>3. Kept(logFile, StillIn(o), StillIn(c), texts, fellBack, stray \cup unwritten)
  BY <1>1 DEF LinesPlaced
<1>4. texts \in Seq(Nat)
  BY <1>3 DEF Kept
<1>5. PICK X : NewLine(X, n, Len(texts) + 1) /\ WithLine(buffer[k], n).data = buffer[k].data \o X
  BY <1>0, <1>2, <1>4, LineDoes
<1>6. buffer'[k].data = buffer[k].data \o X
  BY <1>5
<1>7. OneFlush' /\ (NoneOut' <=> NoneOut) /\ \A j : Resetting(j)' <=> Resetting(j)
  BY <1>1, SameFlush
<1>8. LogTypes'
  BY <1>1 DEF LogTypes
<1>9. c' = c /\ o' = o /\ StillIn(c)' = buffer'[c].data
      /\ StillIn(o)' = IF Resetting(o) THEN <<>> ELSE buffer'[o].data
  <2>1. c' = c /\ o' = o
    BY DEF Other
  <2>2. ~Resetting(c) \/ buffer[c].data = <<>>
    BY <1>2 DEF StillIn
  <2>3. ~Resetting(c)
    <3> SUFFICES ASSUME NEW f \in Flushers, flush[f] = [at |-> "reset", k |-> c] PROVE FALSE
      BY DEF Resetting
    <3>1. Busy(f) /\ flush[f].k = c
      BY <1>1 DEF OneFlush
    <3> QED BY <1>1, <3>1 DEF OneFlush, LogTypes, Other
  <2> QED BY <1>7, <2>1, <2>3 DEF StillIn
<1>10. CASE k = c /\ UNCHANGED <<fellBack, stray>>
  <2>1. buffer'[o].data = buffer[o].data /\ StillIn(o)' = StillIn(o)
    BY <1>9, <1>10 DEF StillIn
  <2>2. StillIn(c)' = StillIn(c) \o X
    BY <1>2, <1>6, <1>9, <1>10
  <2>3. Kept(logFile, StillIn(o), StillIn(c) \o X, Append(texts, n), fellBack, stray \cup unwritten)
    BY <1>0, <1>3, <1>5, AppendsCurrent
  <2>4. LinesPlaced'
    <3>1. logFile' = logFile /\ texts' = Append(texts, n) /\ fellBack' = fellBack
          /\ (stray \cup unwritten)' = stray \cup unwritten
      BY <1>10
    <3> QED BY <2>1, <2>2, <2>3, <3>1 DEF LinesPlaced
  <2>5. Between'
    BY <1>1, <1>7, <1>9, <1>10, <2>1 DEF Between
  <2> QED BY <1>7, <1>8, <2>4, <2>5 DEF LogInv
<1>11. CASE /\ k = o /\ fellBack' = fellBack \cup {Len(texts) + 1}
            /\ stray' = IF Resetting(k) THEN stray \cup {Len(texts) + 1} ELSE stray
  <2>1. StillIn(c)' = StillIn(c)
    BY <1>2, <1>9, <1>11
  <2>2. LinesPlaced'
    <3>0. logFile' = logFile /\ texts' = Append(texts, n) /\ unwritten' = unwritten
      OBVIOUS
    <3>1. CASE Resetting(o)
      <4>1. StillIn(o)' = StillIn(o)
        BY <1>9, <3>1 DEF StillIn
      <4>2. Kept(logFile, StillIn(o), StillIn(c), Append(texts, n), fellBack \cup {Len(texts) + 1},
                 (stray \cup unwritten) \cup {Len(texts) + 1})
        BY <1>0, <1>3, <1>5, StraysOff
      <4>3. (stray \cup unwritten)' = (stray \cup unwritten) \cup {Len(texts) + 1}
        BY <1>11, <3>0, <3>1
      <4> QED BY <1>11, <2>1, <3>0, <4>1, <4>2, <4>3 DEF LinesPlaced
    <3>2. CASE ~Resetting(o)
      <4>1. StillIn(o)' = StillIn(o) \o X
        BY <1>6, <1>9, <1>11, <3>2 DEF StillIn
      <4>2. Kept(logFile, StillIn(o) \o X, StillIn(c), Append(texts, n), fellBack \cup {Len(texts) + 1},
                 stray \cup unwritten)
        BY <1>0, <1>3, <1>5, AppendsOther
      <4>3. (stray \cup unwritten)' = stray \cup unwritten
        BY <1>11, <3>0, <3>2
      <4> QED BY <1>11, <2>1, <3>0, <4>1, <4>2, <4>3 DEF LinesPlaced
    <3> QED BY <3>1, <3>2
  <2>3. Between'
    <3> SUFFICES ASSUME NoneOut PROVE \A i \in 1 .. Len(buffer'[o].data) : ~Told(buffer'[o].data[i], fellBack')
      BY <1>7, <1>9 DEF Between
    <3>1. \A i \in 1 .. Len(buffer[o].data) : ~Told(buffer[o].data[i], fellBack)
      BY <1>1 DEF Between
    <3>2. X \in Seq(Nat) /\ \A i \in 1 .. Len(X) : X[i] \in {0, Len(texts) + 1}
      BY <1>5 DEF NewLine
    <3>3. buffer'[o].data = buffer[o].data \o X
      BY <1>6, <1>11
    <3>4. ASSUME NEW i \in 1 .. Len(buffer[o].data \o X)
          PROVE  ~Told((buffer[o].data \o X)[i], fellBack')
      <4>1. \/ i \in 1 .. Len(buffer[o].data) /\ (buffer[o].data \o X)[i] = buffer[o].data[i]
            \/ \E j \in 1 .. Len(X) : (buffer[o].data \o X)[i] = X[j]
        BY <1>2, <3>2, OneOfBoth
      <4> QED BY <1>11, <3>1, <3>2, <4>1 DEF Told
    <3> QED BY <3>1, <3>3, <3>4
  <2> QED BY <1>7, <1>8, <2>2, <2>3 DEF LogInv
<1> QED BY <1>10, <1>11

\* Buffers and roles as they are.
LEMMA NothingMoves ==
    ASSUME LogInv, buffer' \in [1 .. 2 -> Bufs], \A k \in 1 .. 2 : buffer'[k].data = buffer[k].data,
           flush' \in [Flushers -> Calls],
           \A f \in Flushers :
              flush'[f] = flush[f] \/ ({flush[f].at, flush'[f].at} \subseteq {"idle", "read"} /\ flush'[f].k = flush[f].k),
           UNCHANGED <<m_poCurWirteBuffer, m_iCurWriteBufferFlag, logFile, texts, fellBack, stray, unwritten, raced>>
    PROVE  LogInv'
<1>1. LogTypes /\ OneFlush /\ Between /\ LinesPlaced
  BY DEF LogInv
<1>2. LogTypes'
  BY <1>1 DEF LogTypes
<1>3. \A f \in Flushers :
        /\ flush'[f].k = flush[f].k /\ (Busy(f)' <=> Busy(f))
        /\ flush'[f].at = flush[f].at \/ {flush[f].at, flush'[f].at} \subseteq {"idle", "read"}
  BY DEF Busy
<1>4. OneFlush' /\ (NoneOut' <=> NoneOut)
  <2>1. \A f \in Flushers : \A a \in {"switch", "write", "reset", "flag"} : flush'[f].at = a <=> flush[f].at = a
    BY <1>3
  <2>2. NoneOut' <=> NoneOut
    BY <2>1 DEF NoneOut
  <2>3. Other(m_iCurWriteBufferFlag)' = Other(m_iCurWriteBufferFlag)
    BY DEF Other
  <2>4. \A f \in Flushers : flush'[f].at \in {"switch", "write", "reset", "flag"}
                             <=> flush[f].at \in {"switch", "write", "reset", "flag"}
    BY <2>1
  <2> QED BY <1>1, <1>3, <2>1, <2>2, <2>3, <2>4 DEF OneFlush
<1>5. ASSUME NEW k PROVE Resetting(k)' <=> Resetting(k)
  BY DEF Resetting
<1>6. \A k \in 1 .. 2 : StillIn(k)' = StillIn(k)
  BY <1>5 DEF StillIn
<1>7. m_poCurWirteBuffer \in 1 .. 2 /\ Other(m_poCurWirteBuffer) \in 1 .. 2
      /\ m_poCurWirteBuffer' = m_poCurWirteBuffer /\ Other(m_poCurWirteBuffer)' = Other(m_poCurWirteBuffer)
  BY <1>1 DEF LogTypes, Other
<1>8. Between'
  BY <1>1, <1>4, <1>7 DEF Between
<1>9. LinesPlaced'
  BY <1>1, <1>6, <1>7 DEF LinesPlaced
<1> QED BY <1>2, <1>4, <1>8, <1>9 DEF LogInv

LEMMA Writes == ASSUME LogInv, ~raced, NEW n \in TextLens, WriteBuffer(n) PROVE LogInv'
<1> DEFINE c == m_poCurWirteBuffer
           o == Other(m_poCurWirteBuffer)
<1>0. n \in Nat \ {0} /\ LogTypes /\ OneFlush
  BY AsyncLogAssumption DEF LogInv
<1>1. /\ o \in 1 .. 2 /\ o # c /\ Other(o) = c /\ c \in 1 .. 2
      /\ \A j \in 1 .. 2 : buffer[j] \in Bufs /\ buffer[j].data \in Seq(Nat)
  BY <1>0, CurrentIsIn DEF LogTypes
<1>2. buffer \in [1 .. 2 -> Bufs] /\ texts \in Seq(Nat)
  BY <1>0 DEF LogTypes, LogInv, LinesPlaced, Kept
<1>3. \A j \in 1 .. 2 : WithLine(buffer[j], n) \in Bufs
  BY <1>0, <1>1, <1>2, LineDoes
<1>4. UNCHANGED <<m_poCurWirteBuffer, m_iCurWriteBufferFlag, due, flush, logFile, unwritten, raced>>
  BY DEF WriteBuffer
<1>5. \A b \in Bufs : [b EXCEPT !.m_bFull = TRUE] \in Bufs /\ [b EXCEPT !.m_bFull = TRUE].data = b.data
  BY DEF Bufs
<1>6. CASE WriteCurrent(n)
  <2>1. buffer' = [buffer EXCEPT ![c] = WithLine(buffer[c], n)] /\ texts' = Append(texts, n)
        /\ UNCHANGED <<fellBack, stray>>
    BY <1>6 DEF WriteCurrent
  <2>2. buffer' \in [1 .. 2 -> Bufs] /\ buffer'[c] = WithLine(buffer[c], n) /\ buffer'[o].data = buffer[o].data
    BY <1>1, <1>2, <1>3, <2>1
  <2> QED BY <1>1, <1>4, <2>1, <2>2, WritesOne
<1>7. CASE WriteOther(n)
  <2>1. /\ buffer' = [buffer EXCEPT ![c].m_bFull = TRUE, ![o] = WithLine(@, n)] /\ texts' = Append(texts, n)
        /\ fellBack' = fellBack \cup {Len(texts) + 1}
        /\ stray' = IF Resetting(o) THEN stray \cup {Len(texts) + 1} ELSE stray
    BY <1>7 DEF WriteOther
  <2>2. buffer' = [buffer EXCEPT ![c] = [buffer[c] EXCEPT !.m_bFull = TRUE], ![o] = WithLine(buffer[o], n)]
    BY <1>1, <1>2, <2>1
  <2>3. buffer' \in [1 .. 2 -> Bufs] /\ buffer'[o] = WithLine(buffer[o], n)
        /\ buffer'[c] = [buffer[c] EXCEPT !.m_bFull = TRUE]
    BY <1>1, <1>2, <1>3, <1>5, <2>2
  <2>4. buffer'[Other(o)].data = buffer[Other(o)].data
    BY <1>1, <1>5, <2>3
  <2>5. o = Other(m_poCurWirteBuffer)
    OBVIOUS
  <2> HIDE DEF o
  <2> QED BY <1>1, <1>4, <2>1, <2>3, <2>4, <2>5, WritesOne
<1>8. CASE WriteRefusedByBoth(n)
  <2>1. buffer' = [k \in 1 .. 2 |-> [buffer[k] EXCEPT !.m_bFull = TRUE]] /\ UNCHANGED <<texts, fellBack, stray>>
    BY <1>8 DEF WriteRefusedByBoth
  <2>2. buffer' \in [1 .. 2 -> Bufs] /\ \A k \in 1 .. 2 : buffer'[k].data = buffer[k].data
    BY <1>1, <1>5, <2>1
  <2>3. flush' \in [Flushers -> Calls]
        /\ \A f \in Flushers : flush'[f] = flush[f]
    BY <1>0, <1>4 DEF LogTypes
  <2> QED BY <1>4, <2>1, <2>2, <2>3, NothingMoves
<1> QED BY <1>6, <1>7, <1>8 DEF WriteBuffer

LEMMA Begins ==
    ASSUME LogInv, NEW g \in Flushers, flush[g].at = "idle", flush' = [flush EXCEPT ![g].at = "read"],
           UNCHANGED <<buffer, m_poCurWirteBuffer, m_iCurWriteBufferFlag, logFile, texts, fellBack,
                       stray, unwritten, raced>>
    PROVE  LogInv'
<1>1. LogTypes
  BY DEF LogInv
<1>2. buffer' \in [1 .. 2 -> Bufs] /\ \A k \in 1 .. 2 : buffer'[k].data = buffer[k].data
  BY <1>1 DEF LogTypes
<1>3. flush \in [Flushers -> Calls]
  BY <1>1 DEF LogTypes
<1>4. flush' \in [Flushers -> Calls]
  BY <1>3
<1>5. ASSUME NEW f \in Flushers
      PROVE  flush'[f] = flush[f] \/ ({flush[f].at, flush'[f].at} \subseteq {"idle", "read"} /\ flush'[f].k = flush[f].k)
  <2>1. CASE f = g
    <3>1. flush'[g] = [flush[g] EXCEPT !.at = "read"]
      BY <1>3
    <3>2. flush'[g].at = "read" /\ flush'[g].k = flush[g].k
      BY <1>3, <3>1
    <3> QED BY <2>1, <3>2
  <2>2. CASE f # g
    BY <1>3, <2>2
  <2> QED BY <2>1, <2>2
<1> QED BY <1>2, <1>4, <1>5, NothingMoves

\* f reads the flag while no other call has a buffer: it gets the current one.
LEMMA ReadKeeps == ASSUME LogInv, ~raced, NEW f \in Flushers, FlushRead(f) PROVE LogIInv'
<1> DEFINE c == m_poCurWirteBuffer
           o == Other(m_poCurWirteBuffer)
<1> SUFFICES ASSUME ~raced' PROVE LogInv'
  BY DEF LogIInv
<1>0. LogTypes /\ OneFlush /\ Between /\ LinesPlaced
  BY DEF LogInv
<1>1. o \in 1 .. 2 /\ c \in 1 .. 2
  BY <1>0, CurrentIsIn DEF LogTypes
<1>2. flush \in [Flushers -> Calls] /\ flush[f].at = "read" /\ m_iCurWriteBufferFlag \in 1 .. 2
  BY <1>0 DEF LogTypes, FlushRead
<1>3. UNCHANGED <<buffer, m_poCurWirteBuffer, m_iCurWriteBufferFlag, logFile, texts, fellBack, stray, unwritten>>
  BY DEF FlushRead
<1>4. \A g \in Flushers : ~Busy(g) /\ flush[g].at \notin {"switch", "write", "reset", "flag"}
  <2>1. raced' = \E g \in Flushers \ {f} : flush[g].k # 0
    BY DEF FlushRead
  <2>2. ~Busy(f)
    BY <1>0, <1>2 DEF OneFlush
  <2>3. \A g \in Flushers : ~Busy(g)
    BY <2>1, <2>2 DEF Busy
  <2> QED BY <1>0, <2>3 DEF OneFlush
<1>5. c = m_iCurWriteBufferFlag
  BY <1>0, <1>4 DEF OneFlush
<1>6. flush' = [flush EXCEPT ![f] = [at |-> "switch", k |-> c]]
  BY <1>5 DEF FlushRead
<1>7. flush'[f].at = "switch" /\ flush'[f].k = c /\ (\A g \in Flushers \ {f} : flush'[g] = flush[g])
      /\ flush' \in [Flushers -> Calls]
  BY <1>1, <1>2, <1>6
<1>8. LogTypes'
  BY <1>0, <1>3, <1>7 DEF LogTypes
<1>9. \A g \in Flushers : (Busy(g)' <=> g = f) /\ (flush'[g].at \in {"switch", "write", "reset", "flag"} <=> g = f)
  <2>1. Busy(f)'
    BY <1>1, <1>7 DEF Busy
  <2>2. \A g \in Flushers \ {f} : ~Busy(g)' /\ flush'[g].at \notin {"switch", "write", "reset", "flag"}
    BY <1>4, <1>7 DEF Busy
  <2> QED BY <1>7, <2>1, <2>2
<1>10. OneFlush'
  BY <1>3, <1>5, <1>7, <1>9 DEF OneFlush
<1>11. Other(m_poCurWirteBuffer)' = o
  BY <1>3 DEF Other
<1>12. Between'
  <2>1. NoneOut
    BY <1>4 DEF NoneOut
  <2> QED BY <1>0, <1>3, <1>11, <2>1 DEF Between
<1>13. \A k : ~Resetting(k) /\ ~Resetting(k)'
  <2>1. ASSUME NEW g \in Flushers PROVE flush[g].at # "reset" /\ flush'[g].at # "reset"
    BY <1>4, <1>7
  <2> QED BY <2>1 DEF Resetting
<1>14. LinesPlaced'
  <2>1. StillIn(c)' = StillIn(c) /\ StillIn(o)' = StillIn(o)
    BY <1>3, <1>11, <1>13 DEF StillIn
  <2> QED BY <1>0, <1>3, <1>11, <2>1 DEF LinesPlaced
<1> QED BY <1>8, <1>10, <1>12, <1>14 DEF LogInv

\* What f has before it has switched is the current buffer, and only f has one.
LEMMA HasCurrent ==
    ASSUME LogInv, NEW f \in Flushers, flush[f].at = "switch"
    PROVE  /\ flush[f].k = m_poCurWirteBuffer /\ flush[f].k = m_iCurWriteBufferFlag
           /\ Busy(f) /\ \A g \in Flushers \ {f} : ~Busy(g) /\ flush[g].at \notin {"switch", "write", "reset", "flag"}
<1>0. OneFlush
  BY DEF LogInv
<1>1. Busy(f) /\ \A g \in Flushers \ {f} : ~Busy(g)
  BY <1>0 DEF OneFlush
<1> QED BY <1>0, <1>1 DEF OneFlush

\* f goes from switch to write, and the two buffers change their roles.
LEMMA SwapKeeps == ASSUME LogInv, NEW f \in Flushers, FlushSwap(f) PROVE LogInv'
<1> DEFINE c == m_poCurWirteBuffer
           o == Other(m_poCurWirteBuffer)
<1>0. LogTypes /\ OneFlush /\ Between /\ LinesPlaced
  BY DEF LogInv
<1>1. /\ o \in 1 .. 2 /\ o # c /\ Other(o) = c /\ c \in 1 .. 2
      /\ \A j \in 1 .. 2 : buffer[j] \in Bufs /\ buffer[j].data \in Seq(Nat)
      /\ StillIn(c) = buffer[c].data
  BY <1>0, CurrentIsIn DEF LogTypes
<1>2. flush \in [Flushers -> Calls] /\ flush[f].at = "switch"
  BY <1>0 DEF LogTypes, FlushSwap
<1>3. UNCHANGED <<buffer, m_iCurWriteBufferFlag, logFile, texts, fellBack, stray, unwritten, raced>>
  BY DEF FlushSwap
<1>4. /\ flush[f].k = c /\ c = m_iCurWriteBufferFlag /\ Busy(f)
      /\ \A g \in Flushers \ {f} : ~Busy(g) /\ flush[g].at \notin {"switch", "write", "reset", "flag"}
  BY <1>2, HasCurrent
<1>5. \A i \in 1 .. Len(buffer[o].data) : ~Told(buffer[o].data[i], fellBack)
  <2>1. NoneOut
    BY <1>2, <1>4 DEF NoneOut
  <2> QED BY <1>0, <2>1 DEF Between
<1>6. flush' = [flush EXCEPT ![f].at = "write"] /\ c' = o
  BY <1>4 DEF FlushSwap
<1>7. flush'[f].at = "write" /\ flush'[f].k = c /\ (\A g \in Flushers \ {f} : flush'[g] = flush[g])
      /\ flush' \in [Flushers -> Calls]
  <2>1. flush'[f] = [flush[f] EXCEPT !.at = "write"] /\ (\A g \in Flushers \ {f} : flush'[g] = flush[g])
        /\ flush' \in [Flushers -> Calls]
    BY <1>2, <1>6
  <2> QED BY <1>2, <1>4, <2>1
<1>8. LogTypes'
  BY <1>0, <1>1, <1>3, <1>6, <1>7 DEF LogTypes
<1>9. \A g \in Flushers : (Busy(g)' <=> g = f) /\ (flush'[g].at \in {"switch", "write", "reset", "flag"} <=> g = f)
  <2>1. Busy(f)'
    BY <1>1, <1>7 DEF Busy
  <2>2. \A g \in Flushers \ {f} : ~Busy(g)' /\ flush'[g].at \notin {"switch", "write", "reset", "flag"}
    BY <1>4, <1>7 DEF Busy
  <2> QED BY <1>7, <2>1, <2>2
<1>10. OneFlush'
  <2>1. flush'[f].k = m_iCurWriteBufferFlag' /\ c' = Other(m_iCurWriteBufferFlag)'
    BY <1>3, <1>4, <1>6, <1>7 DEF Other
  <2> QED BY <1>7, <1>9, <2>1 DEF OneFlush
<1>11. Between'
  BY <1>7 DEF Between, NoneOut
<1>12. \A k : ~Resetting(k) /\ ~Resetting(k)'
  <2>1. ASSUME NEW g \in Flushers PROVE flush[g].at # "reset" /\ flush'[g].at # "reset"
    BY <1>2, <1>4, <1>7
  <2> QED BY <2>1 DEF Resetting
<1>13. LinesPlaced'
  <2>1. StillIn(c) = buffer[c].data /\ StillIn(o) = buffer[o].data
    BY <1>12 DEF StillIn
  <2>2. StillIn(c)' = buffer[o].data /\ StillIn(o)' = buffer[c].data
    <3>1. o' = c
      BY <1>1, <1>6 DEF Other
    <3> QED BY <1>3, <1>6, <1>12, <2>1, <3>1 DEF StillIn
  <2>3. Kept(logFile, buffer[o].data, buffer[c].data, texts, fellBack, stray \cup unwritten)
    BY <1>0, <2>1 DEF LinesPlaced
  <2>4. Kept(logFile, buffer[c].data, buffer[o].data, texts, fellBack, stray \cup unwritten)
    BY <1>5, <2>3, Swaps
  <2>5. (stray \cup unwritten)' = stray \cup unwritten /\ logFile' = logFile /\ texts' = texts /\ fellBack' = fellBack
    BY <1>3
  <2> QED BY <2>2, <2>4, <2>5 DEF LinesPlaced
<1> QED BY <1>8, <1>10, <1>11, <1>13 DEF LogInv

\* What f has is the buffer that is not current, and only f has one.
LEMMA HasOther ==
    ASSUME LogInv, NEW f \in Flushers, flush[f].at \in {"write", "reset", "flag"}
    PROVE  /\ flush[f].k = Other(m_poCurWirteBuffer) /\ flush[f].k = m_iCurWriteBufferFlag
           /\ Busy(f) /\ (\A g \in Flushers : Busy(g) => g = f)
           /\ (Resetting(Other(m_poCurWirteBuffer)) <=> flush[f].at = "reset")
<1>0. LogTypes /\ OneFlush
  BY DEF LogInv
<1>1. Busy(f) /\ \A g \in Flushers : Busy(g) => g = f
  BY <1>0 DEF OneFlush
<1>2. flush[f].k = m_iCurWriteBufferFlag /\ m_poCurWirteBuffer = Other(m_iCurWriteBufferFlag)
  BY <1>0, <1>1 DEF OneFlush
<1>3. flush[f].k = Other(m_poCurWirteBuffer)
  BY <1>0, <1>2 DEF LogTypes, Other
<1>4. flush[f] = [at |-> flush[f].at, k |-> flush[f].k]
  BY <1>0 DEF LogTypes
<1>5. ASSUME NEW g \in Flushers, flush[g] = [at |-> "reset", k |-> Other(m_poCurWirteBuffer)]
      PROVE  flush[f].at = "reset"
  <2>1. flush[g].at = "reset"
    BY <1>5
  <2>2. Busy(g)
    BY <1>0, <2>1 DEF OneFlush
  <2> QED BY <1>1, <2>1, <2>2
<1>6. Resetting(Other(m_poCurWirteBuffer)) <=> flush[f].at = "reset"
  BY <1>3, <1>4, <1>5 DEF Resetting
<1> QED BY <1>1, <1>2, <1>3, <1>6

LEMMA WriteKeeps == ASSUME LogInv, NEW f \in Flushers, FlushWrite(f) PROVE LogInv'
<1> DEFINE c == m_poCurWirteBuffer
           o == Other(m_poCurWirteBuffer)
           taken == buffer[flush[f].k].data
<1>0. LogTypes /\ OneFlush /\ Between /\ LinesPlaced
  BY DEF LogInv
<1>1. /\ o \in 1 .. 2 /\ o # c /\ Other(o) = c /\ c \in 1 .. 2
      /\ \A j \in 1 .. 2 : buffer[j] \in Bufs /\ buffer[j].data \in Seq(Nat)
      /\ StillIn(c) = buffer[c].data
  BY <1>0, CurrentIsIn DEF LogTypes
<1>2. flush \in [Flushers -> Calls] /\ flush[f].at = "write"
  BY <1>0 DEF LogTypes, FlushWrite
<1>3. UNCHANGED <<buffer, m_poCurWirteBuffer, m_iCurWriteBufferFlag, texts, fellBack, stray, raced>>
  BY DEF FlushWrite
<1>4. /\ flush[f].k = o /\ flush[f].k = m_iCurWriteBufferFlag
      /\ Busy(f) /\ (\A g \in Flushers : Busy(g) => g = f) /\ (Resetting(o) <=> flush[f].at = "reset")
  BY <1>2, HasOther
<1>5. flush'[f] = [flush[f] EXCEPT !.at = "reset"] /\ (\A g \in Flushers \ {f} : flush'[g] = flush[g])
      /\ flush' \in [Flushers -> Calls]
  BY <1>2 DEF FlushWrite
<1>6. flush'[f].at = "reset" /\ flush'[f].k = flush[f].k /\ flush'[f] = [at |-> "reset", k |-> o]
  BY <1>2, <1>4, <1>5
<1>7. LogTypes'
  BY <1>0, <1>3, <1>5 DEF LogTypes
<1>8. \A g \in Flushers :
        /\ (Busy(g)' <=> Busy(g)) /\ flush'[g].k = flush[g].k
        /\ (flush'[g].at \in {"switch", "write", "reset", "flag"} <=> flush[g].at \in {"switch", "write", "reset", "flag"})
        /\ (flush'[g].at = "switch" <=> flush[g].at = "switch")
  BY <1>2, <1>5, <1>6 DEF Busy
<1>9. OneFlush'
  BY <1>0, <1>3, <1>8 DEF OneFlush, Other
<1>10. Between'
  BY <1>6 DEF Between, NoneOut
<1>11. Resetting(o)' /\ ~Resetting(o)
  <2>1. o' = o
    BY <1>3 DEF Other
  <2> QED BY <1>2, <1>4, <1>6, <2>1 DEF Resetting
<1>12. StillIn(o)' = <<>> /\ StillIn(o) = taken /\ StillIn(c)' = StillIn(c)
  <2>1. LogTypes' /\ OneFlush'
    BY <1>7, <1>9
  <2>2. ~Resetting(c)'
    <3> SUFFICES ASSUME NEW g \in Flushers, flush'[g] = [at |-> "reset", k |-> c] PROVE FALSE
      BY <1>3 DEF Resetting
    <3>1. flush'[g].k = c /\ flush[g].k = c
      BY <1>8
    <3>2. Busy(g)
      BY <1>1, <3>1 DEF Busy
    <3> QED BY <1>1, <1>4, <3>1, <3>2
  <2>3. c' = c /\ o' = o
    BY <1>3 DEF Other
  <2> QED BY <1>1, <1>3, <1>4, <1>11, <2>2, <2>3 DEF StillIn
<1>13. Kept(logFile, taken, StillIn(c), texts, fellBack, stray \cup unwritten)
  BY <1>0, <1>12 DEF LinesPlaced
<1>14. /\ Kept(logFile \o taken, <<>>, StillIn(c), texts, fellBack, stray \cup unwritten)
       /\ Kept(logFile, <<>>, StillIn(c), texts, fellBack, (stray \cup unwritten) \cup ({taken[i] : i \in DOMAIN taken} \ {0}))
  <2> HIDE DEF taken
  <2> QED BY <1>13, WritesOut
<1>15. LinesPlaced'
  <2>0. texts' = texts /\ fellBack' = fellBack /\ stray' = stray
    BY <1>3
  <2>1. CASE logFile' = logFile \o taken /\ UNCHANGED unwritten
    <3>1. (stray \cup unwritten)' = stray \cup unwritten
      BY <2>0, <2>1
    <3> QED BY <1>12, <1>14, <2>0, <2>1, <3>1 DEF LinesPlaced
  <2>2. CASE unwritten' = unwritten \cup ({taken[i] : i \in DOMAIN taken} \ {0}) /\ UNCHANGED logFile
    <3>1. (stray \cup unwritten)' = (stray \cup unwritten) \cup ({taken[i] : i \in DOMAIN taken} \ {0})
      BY <2>0, <2>2
    <3> QED BY <1>12, <1>14, <2>0, <2>2, <3>1 DEF LinesPlaced
  <2> QED BY <2>1, <2>2 DEF FlushWrite
<1> QED BY <1>7, <1>9, <1>10, <1>15 DEF LogInv

LEMMA ResetKeeps == ASSUME LogInv, NEW f \in Flushers, FlushReset(f) PROVE LogInv'
<1> DEFINE c == m_poCurWirteBuffer
           o == Other(m_poCurWirteBuffer)
<1>0. LogTypes /\ OneFlush /\ Between /\ LinesPlaced
  BY DEF LogInv
<1>1. /\ o \in 1 .. 2 /\ o # c /\ Other(o) = c /\ c \in 1 .. 2
      /\ \A j \in 1 .. 2 : buffer[j] \in Bufs /\ buffer[j].data \in Seq(Nat)
      /\ StillIn(c) = buffer[c].data
  BY <1>0, CurrentIsIn DEF LogTypes
<1>2. flush \in [Flushers -> Calls] /\ flush[f].at = "reset"
      /\ buffer \in [1 .. 2 -> Bufs]
  BY <1>0 DEF LogTypes, FlushReset
<1>3. UNCHANGED <<m_poCurWirteBuffer, m_iCurWriteBufferFlag, logFile, texts, fellBack, stray, unwritten, raced>>
  BY DEF FlushReset
<1>4. /\ flush[f].k = o /\ flush[f].k = m_iCurWriteBufferFlag
      /\ Busy(f) /\ (\A g \in Flushers : Busy(g) => g = f) /\ (Resetting(o) <=> flush[f].at = "reset")
  BY <1>2, HasOther
<1>5. buffer' = [buffer EXCEPT ![o] = EmptyBuffer] /\ flush' = [flush EXCEPT ![f].at = "flag"]
  BY <1>4 DEF FlushReset
<1>6. EmptyBuffer \in Bufs /\ EmptyBuffer.data = <<>>
  BY DEF EmptyBuffer, Bufs
<1>7. /\ flush' \in [Flushers -> Calls] /\ flush'[f].at = "flag" /\ flush'[f].k = flush[f].k
      /\ \A g \in Flushers \ {f} : flush'[g] = flush[g]
  <2>1. flush'[f] = [flush[f] EXCEPT !.at = "flag"] /\ (\A g \in Flushers \ {f} : flush'[g] = flush[g])
        /\ flush' \in [Flushers -> Calls]
    BY <1>2, <1>5
  <2> QED BY <1>2, <2>1
<1>8. buffer' \in [1 .. 2 -> Bufs] /\ buffer'[o].data = <<>> /\ buffer'[c] = buffer[c]
  BY <1>1, <1>2, <1>5, <1>6
<1>9. LogTypes'
  BY <1>0, <1>1, <1>3, <1>5, <1>7, <1>8 DEF LogTypes
<1>10. \A g \in Flushers :
        /\ (Busy(g)' <=> Busy(g)) /\ flush'[g].k = flush[g].k
        /\ (flush'[g].at \in {"switch", "write", "reset", "flag"} <=> flush[g].at \in {"switch", "write", "reset", "flag"})
        /\ (flush'[g].at = "switch" <=> flush[g].at = "switch")
  BY <1>2, <1>7 DEF Busy
<1>11. OneFlush'
  BY <1>0, <1>3, <1>10 DEF OneFlush, Other
<1>12. c' = c /\ o' = o
  BY <1>3 DEF Other
<1>13. Between'
  <2>1. \A i \in 1 .. Len(buffer'[o].data) : ~Told(buffer'[o].data[i], fellBack')
    BY <1>8
  <2> QED BY <1>3, <1>12, <2>1 DEF Between
<1>14. \A k : ~Resetting(k)'
  <2>1. ASSUME NEW g \in Flushers PROVE flush'[g].at # "reset"
    <3>1. CASE g = f
      BY <1>7, <3>1
    <3>2. CASE g # f
      <4>1. ~Busy(g) /\ flush'[g] = flush[g]
        BY <1>4, <1>7, <3>2
      <4> QED BY <1>0, <4>1 DEF OneFlush
    <3> QED BY <3>1, <3>2
  <2> QED BY <2>1 DEF Resetting
<1>15. LinesPlaced'
  <2>1. StillIn(o)' = <<>> /\ StillIn(c)' = buffer[c].data
    BY <1>8, <1>12, <1>14 DEF StillIn
  <2>2. StillIn(o) = <<>>
    BY <1>2, <1>4 DEF StillIn
  <2>3. (stray \cup unwritten)' = stray \cup unwritten /\ logFile' = logFile /\ texts' = texts /\ fellBack' = fellBack
    BY <1>3
  <2>4. Kept(logFile, <<>>, buffer[c].data, texts, fellBack, stray \cup unwritten)
    BY <1>0, <1>1, <2>2 DEF LinesPlaced
  <2> QED BY <2>1, <2>3, <2>4 DEF LinesPlaced
<1> QED BY <1>9, <1>11, <1>13, <1>15 DEF LogInv

\* The flag follows the buffer that is current since the switch.
LEMMA FlagKeeps == ASSUME LogInv, NEW f \in Flushers, FlushFlag(f) PROVE LogInv'
<1> DEFINE c == m_poCurWirteBuffer
           o == Other(m_poCurWirteBuffer)
<1>0. LogTypes /\ OneFlush /\ Between /\ LinesPlaced
  BY DEF LogInv
<1>1. o \in 1 .. 2 /\ Other(o) = c /\ c \in 1 .. 2
  BY <1>0, CurrentIsIn DEF LogTypes
<1>2. flush \in [Flushers -> Calls] /\ flush[f].at = "flag"
  BY <1>0 DEF LogTypes, FlushFlag
<1>3. UNCHANGED <<buffer, m_poCurWirteBuffer, logFile, texts, fellBack, stray, unwritten, raced>>
  BY DEF FlushFlag
<1>4. flush[f].k = o /\ Busy(f) /\ (\A g \in Flushers : Busy(g) => g = f)
  BY <1>2, HasOther
<1>5. flush' = [flush EXCEPT ![f] = NotFlushing] /\ m_iCurWriteBufferFlag' = c
  BY <1>1, <1>4 DEF FlushFlag
<1>6. NotFlushing \in Calls /\ NotFlushing.k = 0 /\ NotFlushing.at = "idle"
  BY DEF NotFlushing
<1>7. /\ flush' \in [Flushers -> Calls] /\ flush'[f] = NotFlushing
      /\ \A g \in Flushers \ {f} : flush'[g] = flush[g]
  BY <1>2, <1>5, <1>6
<1>8. LogTypes'
  BY <1>0, <1>1, <1>3, <1>5, <1>7 DEF LogTypes
<1>9. \A g \in Flushers \ {f} : ~Busy(g) /\ flush[g].at \notin {"switch", "write", "reset", "flag"}
  BY <1>0, <1>4 DEF OneFlush
<1>10. \A g \in Flushers : ~Busy(g)' /\ flush'[g].at \notin {"switch", "write", "reset", "flag"}
  <2>1. ASSUME NEW g \in Flushers \ {f} PROVE flush'[g].k = 0 /\ flush'[g].at \notin {"switch", "write", "reset", "flag"}
    BY <1>7, <1>9 DEF Busy
  <2>2. flush'[f].k = 0 /\ flush'[f].at \notin {"switch", "write", "reset", "flag"}
    BY <1>6, <1>7
  <2> QED BY <2>1, <2>2 DEF Busy
<1>11. OneFlush'
  BY <1>3, <1>5, <1>10 DEF OneFlush
<1>12. Other(m_poCurWirteBuffer)' = o
  BY <1>3 DEF Other
<1>13. Between'
  <2>1. NoneOut
    BY <1>2, <1>9 DEF NoneOut
  <2> QED BY <1>0, <1>3, <1>12, <2>1 DEF Between
<1>14. \A k : ~Resetting(k) /\ ~Resetting(k)'
  <2>1. ASSUME NEW g \in Flushers PROVE flush[g].at # "reset" /\ flush'[g].at # "reset"
    BY <1>2, <1>9, <1>10
  <2> QED BY <2>1 DEF Resetting
<1>15. LinesPlaced'
  <2>1. StillIn(c)' = StillIn(c) /\ StillIn(o)' = StillIn(o)
    BY <1>3, <1>12, <1>14 DEF StillIn
  <2> QED BY <1>0, <1>3, <1>12, <2>1 DEF LinesPlaced
<1> QED BY <1>8, <1>11, <1>13, <1>15 DEF LogInv

LEMMA LogStep == LogIInv /\ [LogNext]_logVars => LogIInv'
<1> SUFFICES ASSUME LogIInv, [LogNext]_logVars PROVE LogIInv'
  OBVIOUS
<1>1. CASE UNCHANGED logVars
  BY <1>1 DEF LogIInv, LogInv, LogTypes, OneFlush, Between, LinesPlaced, NoneOut, Busy, Resetting, StillIn, Other, logVars
<1>2. CASE LogNext
  <2>0. LogInv /\ ~raced
    BY <1>2 DEF LogNext, LogIInv
  <2>1. ASSUME NEW n \in TextLens, WriteBuffer(n) PROVE LogIInv'
    BY <2>0, <2>1, Writes DEF LogIInv
  <2>2. CASE SecondsPass
    <3>1. UNCHANGED <<buffer, m_poCurWirteBuffer, m_iCurWriteBufferFlag, flush, logFile, texts, fellBack,
                      stray, unwritten, raced>>
      BY <2>2 DEF SecondsPass
    <3> QED BY <2>0, <3>1 DEF LogIInv, LogInv, LogTypes, OneFlush, Between, LinesPlaced, NoneOut, Busy, Resetting, StillIn, Other
  <2>3. CASE RunTest
    <3>1. Run \in Flushers /\ flush[Run].at = "idle" /\ flush' = [flush EXCEPT ![Run].at = "read"]
          /\ UNCHANGED <<buffer, m_poCurWirteBuffer, m_iCurWriteBufferFlag, logFile, texts, fellBack,
                         stray, unwritten, raced>>
      BY <2>3, AsyncLogAssumption DEF RunTest
    <3>2. LogInv'
      BY <2>0, <3>1, Begins
    <3> QED BY <3>2 DEF LogIInv
  <2>4. ASSUME NEW f \in Flushers, CallFlush(f) PROVE LogIInv'
    <3>1. flush[f].at = "idle" /\ flush' = [flush EXCEPT ![f].at = "read"]
          /\ UNCHANGED <<buffer, m_poCurWirteBuffer, m_iCurWriteBufferFlag, logFile, texts, fellBack,
                         stray, unwritten, raced>>
      BY <2>4 DEF CallFlush
    <3>2. LogInv'
      BY <2>0, <3>1, Begins
    <3> QED BY <3>2 DEF LogIInv
  <2>5. ASSUME NEW f \in Flushers, FlushStep(f) PROVE LogIInv'
    BY <2>0, <2>5, ReadKeeps, SwapKeeps, WriteKeeps, ResetKeeps, FlagKeeps DEF FlushStep, LogIInv
  <2>6. ASSUME NEW f \in Flushers, NEW n \in TextLens, FlushResetOverwritten(f, n) PROVE LogIInv'
    <3>1. raced' = TRUE
      BY <2>6 DEF FlushResetOverwritten
    <3> QED BY <3>1 DEF LogIInv
  <2> QED BY <1>2, <2>1, <2>2, <2>3, <2>4, <2>5, <2>6 DEF LogNext
<1> QED BY <1>1, <1>2

LEMMA LogSays == LogIInv => AcceptedLinesKept
<1> SUFFICES ASSUME LogInv PROVE AcceptedLinesKept
  BY DEF LogIInv, AcceptedLinesKept
<1> DEFINE L == logFile
           A == StillIn(Other(m_poCurWirteBuffer))
           B == StillIn(m_poCurWirteBuffer)
           S == L \o A \o B
<1>1. Kept(L, A, B, texts, fellBack, stray \cup unwritten)
  BY DEF LogInv, LinesPlaced
<1>2. S \in Seq(Nat) /\ Sorted(S, fellBack)
      /\ \A l \in 1 .. Len(texts) : l \notin stray \cup unwritten => CellsOf(l, S) = texts[l]
  <2> HIDE DEF L, A, B
  <2> QED BY <1>1, KeptSays
<1>3. LinesNow = S
  BY DEF LinesNow
<1> HIDE DEF S
<1>4. DOMAIN S = 1 .. Len(S) /\ DOMAIN texts = 1 .. Len(texts)
  <2>1. texts \in Seq(Nat)
    BY <1>1 DEF Kept
  <2> QED BY <1>2, <2>1, LenProperties
<1>5. \A l \in DOMAIN texts \ (stray \cup unwritten) : CellsOf(l, S) = texts[l]
  BY <1>2, <1>4
<1>6. \A i, j \in DOMAIN S : i < j /\ Direct(S[i]) /\ Direct(S[j]) => S[i] <= S[j]
  BY <1>2, <1>4 DEF Sorted, Told, Direct
<1> QED BY <1>3, <1>5, <1>6 DEF AcceptedLinesKept

\* Every line that write accepted is in the file or in a buffer, whole and once, and
\* in the order of the calls unless it fell back: CAsyncLog::write, flush and run.
THEOREM LinesAreKept == LogSpec => []AcceptedLinesKept
<1>1. LogInit => LogIInv
  BY LogStart
<1>2. LogIInv /\ [LogNext]_logVars => LogIInv'
  BY LogStep
<1>3. LogIInv => AcceptedLinesKept
  BY LogSays
<1> QED BY <1>1, <1>2, <1>3, PTL DEF LogSpec

HIDE DEF Calls

-----------------------------------------------------------------------------
(* BitMap.  The bits of a number below 256.                                *)
AllWidths == {1, 2, 3, 4, 5, 6, 8}
BitOf(n, k) == (n \div 2 ^ k) % 2

LEMMA Powers ==
    /\ 2 ^ 0 = 1 /\ 2 ^ 1 = 2 /\ 2 ^ 2 = 4 /\ 2 ^ 3 = 8 /\ 2 ^ 4 = 16
    /\ 2 ^ 5 = 32 /\ 2 ^ 6 = 64 /\ 2 ^ 7 = 128 /\ 2 ^ 8 = 256
BY SMT

Power(k) ==
    CASE k = 0 -> 1 [] k = 1 -> 2 [] k = 2 -> 4 [] k = 3 -> 8 [] k = 4 -> 16
      [] k = 5 -> 32 [] k = 6 -> 64 [] k = 7 -> 128 [] OTHER -> 256

LEMMA PowersTable == \A k \in 0 .. 8 : 2 ^ k = Power(k)
<1> TAKE k \in 0 .. 8
<1>0. CASE k = 0
  BY <1>0, Powers DEF Power
<1>1. CASE k = 1
  BY <1>1, Powers DEF Power
<1>2. CASE k = 2
  BY <1>2, Powers DEF Power
<1>3. CASE k = 3
  BY <1>3, Powers DEF Power
<1>4. CASE k = 4
  BY <1>4, Powers DEF Power
<1>5. CASE k = 5
  BY <1>5, Powers DEF Power
<1>6. CASE k = 6
  BY <1>6, Powers DEF Power
<1>7. CASE k = 7
  BY <1>7, Powers DEF Power
<1>8. CASE k = 8
  BY <1>8, Powers DEF Power
<1> QED BY <1>0, <1>1, <1>2, <1>3, <1>4, <1>5, <1>6, <1>7, <1>8

LEMMA PowersRise ==
    /\ \A k \in 0 .. 8 : 2 ^ k \in Nat /\ 2 ^ k > 0 /\ 2 ^ k <= 256
    /\ \A w \in AllWidths : \A k \in 0 .. 7 : k >= w => 2 ^ w <= 2 ^ k
<1>1. ASSUME NEW k \in 0 .. 8 PROVE 2 ^ k \in Nat /\ 2 ^ k > 0 /\ 2 ^ k <= 256
  <2>1. 2 ^ k = Power(k)
    BY PowersTable, Zenon
  <2>2. Power(k) \in Nat /\ Power(k) > 0 /\ Power(k) <= 256
    BY DEF Power
  <2> QED BY <2>1, <2>2, Zenon
<1>2. ASSUME NEW w \in AllWidths, NEW k \in 0 .. 7, k >= w PROVE 2 ^ w <= 2 ^ k
  <2>1. w \in 0 .. 8 /\ k \in 0 .. 8
    BY DEF AllWidths
  <2>2. 2 ^ w = Power(w) /\ 2 ^ k = Power(k)
    BY <2>1, PowersTable, Zenon
  <2>3. Power(w) <= Power(k)
    BY <1>2, <2>1 DEF Power
  <2> QED BY <2>2, <2>3, Zenon
<1> QED BY <1>1, <1>2

LEMMA BitsOfSum ==
    ASSUME NEW a \in {0, 1}, NEW b \in {0, 1}, NEW c \in {0, 1}, NEW d \in {0, 1},
           NEW e \in {0, 1}, NEW f \in {0, 1}, NEW g \in {0, 1}, NEW h \in {0, 1},
           NEW n, n = a + 2 * b + 4 * c + 8 * d + 16 * e + 32 * f + 64 * g + 128 * h
    PROVE  /\ n \in Nat /\ n < 256
           /\ BitOf(n, 0) = a /\ BitOf(n, 1) = b /\ BitOf(n, 2) = c /\ BitOf(n, 3) = d
           /\ BitOf(n, 4) = e /\ BitOf(n, 5) = f /\ BitOf(n, 6) = g /\ BitOf(n, 7) = h
<1>1. n \in Nat /\ n < 256
  OBVIOUS
<1>2. BitOf(n, 0) = a /\ BitOf(n, 1) = b
  BY <1>1, Powers DEF BitOf
<1>3. BitOf(n, 2) = c /\ BitOf(n, 3) = d
  BY <1>1, Powers DEF BitOf
<1>4. BitOf(n, 4) = e /\ BitOf(n, 5) = f
  BY <1>1, Powers DEF BitOf
<1>5. BitOf(n, 6) = g /\ BitOf(n, 7) = h
  BY <1>1, Powers DEF BitOf
<1> QED BY <1>1, <1>2, <1>3, <1>4, <1>5

LEMMA SumOfBits ==
    ASSUME NEW n \in Nat, n < 256
    PROVE  /\ n = BitOf(n, 0) + 2 * BitOf(n, 1) + 4 * BitOf(n, 2) + 8 * BitOf(n, 3)
                  + 16 * BitOf(n, 4) + 32 * BitOf(n, 5) + 64 * BitOf(n, 6) + 128 * BitOf(n, 7)
           /\ \A k \in 0 .. 7 : BitOf(n, k) \in {0, 1}
<1>1. n = BitOf(n, 0) + 2 * BitOf(n, 1) + 4 * BitOf(n, 2) + 8 * BitOf(n, 3)
          + 16 * BitOf(n, 4) + 32 * BitOf(n, 5) + 64 * BitOf(n, 6) + 128 * BitOf(n, 7)
  BY Powers DEF BitOf
<1>2. ASSUME NEW k \in 0 .. 7 PROVE BitOf(n, k) \in {0, 1}
  <2>1. PICK p \in Nat : p = 2 ^ k /\ p > 0
    <3>1. k \in 0 .. 8
      OBVIOUS
    <3> QED BY <3>1, PowersRise
  <2>2. n \div p \in Nat
    BY <2>1
  <2> QED BY <2>1, <2>2 DEF BitOf
<1> QED BY <1>1, <1>2

LEMMA HighBits ==
    ASSUME NEW w \in AllWidths, NEW n \in Nat, n < 2 ^ w
    PROVE  n < 256 /\ \A k \in 0 .. 7 : k >= w => BitOf(n, k) = 0
<1>0. w \in 0 .. 8
  BY DEF AllWidths
<1>1. n < 256
  <2>1. 2 ^ w \in Nat /\ 2 ^ w <= 256
    BY <1>0, PowersRise
  <2> QED BY <2>1
<1>2. ASSUME NEW k \in 0 .. 7, k >= w PROVE BitOf(n, k) = 0
  <2>1. PICK p \in Nat : p = 2 ^ k /\ p > 0 /\ n < p
    <3>1. k \in 0 .. 8
      OBVIOUS
    <3>2. 2 ^ k \in Nat /\ 2 ^ k > 0 /\ 2 ^ w \in Nat
      BY <1>0, <3>1, PowersRise
    <3>3. 2 ^ w <= 2 ^ k
      BY <1>2, PowersRise
    <3>4. n < 2 ^ k
      BY <3>2, <3>3
    <3> QED BY <3>2, <3>4
  <2>2. n \div p = 0
    BY <2>1
  <2> QED BY <2>1, <2>2 DEF BitOf
<1> QED BY <1>1, <1>2

-----------------------------------------------------------------------------
(* Where the bits of a cell lie: the groups leave no gap.                  *)
Reach(w, i) == IF w \in {3, 6} THEN Group(w, i) + 32 .. Group(w, i) + 63 ELSE {}

LEMMA PlaceOf ==
    ASSUME NEW w \in AllWidths, NEW i \in Nat
    PROVE  /\ Class(w).cells \in Nat /\ Class(w).cells > 0
           /\ Place(w, i) \in 0 .. Class(w).cells - 1
           /\ Group(w, i) \in Nat /\ Group(w, i) + Place(w, i) * w = w * i
           /\ w \in {3, 6} => w * i + w <= Group(w, i) + 24
<1>1. CASE w = 1
  <2>1. Class(w).cells = 8 /\ Class(w).bytes = 1
    BY <1>1 DEF Class, Class1
  <2>2. Group(w, i) = (i \div 8) * 1 * 8 /\ Place(w, i) = i % 8
    BY <2>1 DEF Group, Place
  <2>3. (i \div 8) * 1 * 8 \in Nat /\ i % 8 \in 0 .. 8 - 1 /\ (i \div 8) * 1 * 8 + (i % 8) * 1 = 1 * i
    OBVIOUS
  <2> QED BY <1>1, <2>1, <2>2, <2>3
<1>2. CASE w = 2
  <2>1. Class(w).cells = 4 /\ Class(w).bytes = 1
    BY <1>2 DEF Class, Class2
  <2>2. Group(w, i) = (i \div 4) * 1 * 8 /\ Place(w, i) = i % 4
    BY <2>1 DEF Group, Place
  <2>3. (i \div 4) * 1 * 8 \in Nat /\ i % 4 \in 0 .. 4 - 1 /\ (i \div 4) * 1 * 8 + (i % 4) * 2 = 2 * i
    OBVIOUS
  <2> QED BY <1>2, <2>1, <2>2, <2>3
<1>3. CASE w = 3
  <2>1. Class(w).cells = 8 /\ Class(w).bytes = 3
    BY <1>3 DEF Class, Class3
  <2>2. Group(w, i) = (i \div 8) * 3 * 8 /\ Place(w, i) = i % 8
    BY <2>1 DEF Group, Place
  <2>3. (i \div 8) * 3 * 8 \in Nat /\ i % 8 \in 0 .. 8 - 1 /\ (i \div 8) * 3 * 8 + (i % 8) * 3 = 3 * i
    OBVIOUS
  <2>4. 3 * i + 3 <= (i \div 8) * 3 * 8 + 24
    OBVIOUS
  <2> QED BY <1>3, <2>1, <2>2, <2>3, <2>4
<1>4. CASE w = 4
  <2>1. Class(w).cells = 2 /\ Class(w).bytes = 1
    BY <1>4 DEF Class, Class4
  <2>2. Group(w, i) = (i \div 2) * 1 * 8 /\ Place(w, i) = i % 2
    BY <2>1 DEF Group, Place
  <2>3. (i \div 2) * 1 * 8 \in Nat /\ i % 2 \in 0 .. 2 - 1 /\ (i \div 2) * 1 * 8 + (i % 2) * 4 = 4 * i
    OBVIOUS
  <2> QED BY <1>4, <2>1, <2>2, <2>3
<1>5. CASE w = 5
  <2>1. Class(w).cells = 8 /\ Class(w).bytes = 5
    BY <1>5 DEF Class, Class5
  <2>2. Group(w, i) = (i \div 8) * 5 * 8 /\ Place(w, i) = i % 8
    BY <2>1 DEF Group, Place
  <2>3. (i \div 8) * 5 * 8 \in Nat /\ i % 8 \in 0 .. 8 - 1 /\ (i \div 8) * 5 * 8 + (i % 8) * 5 = 5 * i
    OBVIOUS
  <2> QED BY <1>5, <2>1, <2>2, <2>3
<1>6. CASE w = 6
  <2>1. Class(w).cells = 4 /\ Class(w).bytes = 3
    BY <1>6 DEF Class, Class6
  <2>2. Group(w, i) = (i \div 4) * 3 * 8 /\ Place(w, i) = i % 4
    BY <2>1 DEF Group, Place
  <2>3. (i \div 4) * 3 * 8 \in Nat /\ i % 4 \in 0 .. 4 - 1 /\ (i \div 4) * 3 * 8 + (i % 4) * 6 = 6 * i
    OBVIOUS
  <2>4. 6 * i + 6 <= (i \div 4) * 3 * 8 + 24
    OBVIOUS
  <2> QED BY <1>6, <2>1, <2>2, <2>3, <2>4
<1>8. CASE w = 8
  <2>1. Class(w).cells = 1 /\ Class(w).bytes = 1
    BY <1>8 DEF Class, Class8
  <2>2. Group(w, i) = (i \div 1) * 1 * 8 /\ Place(w, i) = i % 1
    BY <2>1 DEF Group, Place
  <2>3. (i \div 1) * 1 * 8 \in Nat /\ i % 1 \in 0 .. 1 - 1 /\ (i \div 1) * 1 * 8 + (i % 1) * 8 = 8 * i
    OBVIOUS
  <2> QED BY <1>8, <2>1, <2>2, <2>3
<1> QED BY <1>1, <1>2, <1>3, <1>4, <1>5, <1>6, <1>8 DEF AllWidths

LEMMA CellBitsAre ==
    ASSUME NEW w \in AllWidths, NEW i \in Nat
    PROVE  /\ w * i \in Nat
           /\ CellBits(w, i) = w * i .. w * i + w - 1
<1>1. w \in Nat /\ w >= 1
  BY DEF AllWidths
<1>2. PICK g \in Nat, p \in Nat : g = Group(w, i) /\ p = Place(w, i) /\ g + p * w = w * i
  BY PlaceOf
<1>3. PICK q \in Nat : q = p * w /\ (p + 1) * w = q + w
  BY <1>1
<1>4. Own(w, p) = q .. q + w - 1
  <2>1. PICK r : r = (p + 1) * w
    OBVIOUS
  <2>2. Own(w, p) = p * w .. r - 1
    BY <2>1, Zenon DEF Own
  <2>3. p * w = q /\ r = q + w
    BY <1>3, <2>1
  <2>4. Own(w, p) = q .. r - 1
    BY <2>2, <2>3, Zenon
  <2>5. r - 1 = q + w - 1
    BY <1>1, <1>3, <2>3
  <2> QED BY <2>4, <2>5, Zenon
<1>5. CellBits(w, i) = {g + b : b \in q .. q + w - 1}
  BY <1>2, <1>4 DEF CellBits
<1>6. {g + b : b \in q .. q + w - 1} = g + q .. g + q + w - 1
  <2>1. ASSUME NEW x \in g + q .. g + q + w - 1 PROVE x \in {g + b : b \in q .. q + w - 1}
    <3>1. x - g \in q .. q + w - 1 /\ x = g + (x - g)
      BY <1>1
    <3> QED BY <3>1
  <2>2. \A b \in q .. q + w - 1 : g + b \in g + q .. g + q + w - 1
    BY <1>1
  <2> QED BY <2>1, <2>2
<1>7. g + q = w * i
  BY <1>2, <1>3
<1> QED BY <1>2, <1>3, <1>5, <1>6, <1>7

LEMMA ClearedIs ==
    ASSUME width \in AllWidths, NEW i \in Nat
    PROVE  Cleared(i) = CellBits(width, i) \cup Reach(width, i)
<1>1. PICK w \in AllWidths : w = width
  OBVIOUS
<1>2. PICK g \in Nat, p \in Nat : g = Group(w, i) /\ p = Place(w, i) /\ p \in 0 .. Class(w).cells - 1
  <2>1. Group(w, i) \in Nat /\ Place(w, i) \in 0 .. Class(w).cells - 1 /\ Class(w).cells \in Nat
    BY PlaceOf
  <2> QED BY <2>1
<1>3. Class(w).clears[p] = Own(w, p) \cup (IF w \in {3, 6} THEN 32 .. 63 ELSE {})
  <2>1. CASE w = 1
    BY <1>2, <2>1 DEF Class, Class1
  <2>2. CASE w = 2
    BY <1>2, <2>2 DEF Class, Class2
  <2>3. CASE w = 3
    BY <1>2, <2>3 DEF Class, Class3
  <2>4. CASE w = 4
    BY <1>2, <2>4 DEF Class, Class4
  <2>5. CASE w = 5
    BY <1>2, <2>5 DEF Class, Class5
  <2>6. CASE w = 6
    BY <1>2, <2>6 DEF Class, Class6
  <2>8. CASE w = 8
    BY <1>2, <2>8 DEF Class, Class8
  <2> QED BY <2>1, <2>2, <2>3, <2>4, <2>5, <2>6, <2>8 DEF AllWidths
<1>4. Cleared(i) = {g + b : b \in Own(w, p) \cup (IF w \in {3, 6} THEN 32 .. 63 ELSE {})}
  BY <1>1, <1>2, <1>3 DEF Cleared
<1>5. CellBits(width, i) = {g + b : b \in Own(w, p)}
  BY <1>1, <1>2 DEF CellBits
<1>6. {g + b : b \in 32 .. 63} = g + 32 .. g + 63
  <2>1. ASSUME NEW x \in g + 32 .. g + 63 PROVE x \in {g + b : b \in 32 .. 63}
    <3>1. x - g \in 32 .. 63 /\ x = g + (x - g)
      OBVIOUS
    <3> QED BY <3>1
  <2>2. \A b \in 32 .. 63 : g + b \in g + 32 .. g + 63
    OBVIOUS
  <2> QED BY <2>1, <2>2
<1>7. CASE w \in {3, 6}
  <2>1. Reach(width, i) = g + 32 .. g + 63
    BY <1>1, <1>2, <1>7 DEF Reach
  <2>2. Cleared(i) = {g + b : b \in Own(w, p)} \cup {g + b : b \in 32 .. 63}
    BY <1>4, <1>7
  <2> QED BY <1>5, <1>6, <2>1, <2>2
<1>8. CASE w \notin {3, 6}
  <2>1. Reach(width, i) = {}
    BY <1>1, <1>8 DEF Reach
  <2>2. Cleared(i) = {g + b : b \in Own(w, p)}
    BY <1>4, <1>8
  <2> QED BY <1>5, <2>1, <2>2
<1> QED BY <1>7, <1>8

\* Two cells share no bit, and a mask reaches later cells only.
LEMMA Apart ==
    ASSUME NEW w \in AllWidths, NEW i \in Nat, NEW j \in Nat, i # j, NEW k \in 0 .. w - 1
    PROVE  /\ w * j + k \notin CellBits(w, i)
           /\ w * j + k \in CellBits(w, j)
           /\ w * j + k \in Reach(w, i) => j > i
<1>0. w \in Nat /\ w >= 1 /\ k \in Nat /\ k < w
  BY DEF AllWidths
<1>1. CellBits(w, i) = w * i .. w * i + w - 1 /\ CellBits(w, j) = w * j .. w * j + w - 1 /\ w * i \in Nat /\ w * j \in Nat
  BY CellBitsAre
<1>2. j < i => w * j + w <= w * i
  BY DEF AllWidths
<1>3. i < j => w * i + w <= w * j
  BY DEF AllWidths
<1>4. i < j \/ j < i
  OBVIOUS
<1>5. PICK x \in Nat, y \in Nat : x = w * i /\ y = w * j
  BY <1>1
<1>6. y + k \notin x .. x + w - 1 /\ y + k \in y .. y + w - 1
  BY <1>0, <1>2, <1>3, <1>4, <1>5
<1>7. y + k \in Reach(w, i) => j > i
  <2> SUFFICES ASSUME y + k \in Reach(w, i), j < i PROVE FALSE
    BY <1>4
  <2>1. w \in {3, 6} /\ y + k \in Group(w, i) + 32 .. Group(w, i) + 63
    BY DEF Reach
  <2>2. Group(w, i) \in Nat /\ w * i + w <= Group(w, i) + 24
    BY <2>1, PlaceOf
  <2> QED BY <1>0, <1>2, <1>5, <2>1, <2>2
<1> QED BY <1>1, <1>5, <1>6, <1>7

\* The bit k of cell i as a number; the bits behind the cell are not its own.
Stored(i, k) == IF k < width /\ width * i + k \in bits THEN 1 ELSE 0

\* What get makes of the bits from first on.
CellFrom(first) ==
    LET At(k) == IF first + k \in bits THEN 2 ^ k ELSE 0
    IN IF width = 8
       THEN At(0) + At(1) + At(2) + At(3) + At(4) + At(5) + At(6) + At(7)
       ELSE (At(0) + At(1) + At(2) + At(3) + At(4) + At(5)) % 2 ^ width

LEMMA CellGetIs ==
    ASSUME width \in AllWidths, NEW i \in Nat
    PROVE  /\ CellGet(i) = Stored(i, 0) + 2 * Stored(i, 1) + 4 * Stored(i, 2) + 8 * Stored(i, 3)
                           + 16 * Stored(i, 4) + 32 * Stored(i, 5) + 64 * Stored(i, 6) + 128 * Stored(i, 7)
           /\ CellGet(i) \in Nat /\ CellGet(i) < 256
           /\ \A k \in 0 .. 7 : BitOf(CellGet(i), k) = Stored(i, k)
<1> DEFINE Bit(k) == IF width * i + k \in bits THEN 1 ELSE 0
<1>1. Group(width, i) + Place(width, i) * width = width * i
  BY PlaceOf
<1>2. /\ (IF width * i + 0 \in bits THEN 2 ^ 0 ELSE 0) = Bit(0)
      /\ (IF width * i + 1 \in bits THEN 2 ^ 1 ELSE 0) = 2 * Bit(1)
      /\ (IF width * i + 2 \in bits THEN 2 ^ 2 ELSE 0) = 4 * Bit(2)
      /\ (IF width * i + 3 \in bits THEN 2 ^ 3 ELSE 0) = 8 * Bit(3)
      /\ (IF width * i + 4 \in bits THEN 2 ^ 4 ELSE 0) = 16 * Bit(4)
      /\ (IF width * i + 5 \in bits THEN 2 ^ 5 ELSE 0) = 32 * Bit(5)
      /\ (IF width * i + 6 \in bits THEN 2 ^ 6 ELSE 0) = 64 * Bit(6)
      /\ (IF width * i + 7 \in bits THEN 2 ^ 7 ELSE 0) = 128 * Bit(7)
  BY Powers
<1>3. CellGet(i) = IF width = 8
                   THEN Bit(0) + 2 * Bit(1) + 4 * Bit(2) + 8 * Bit(3) + 16 * Bit(4) + 32 * Bit(5) + 64 * Bit(6) + 128 * Bit(7)
                   ELSE (Bit(0) + 2 * Bit(1) + 4 * Bit(2) + 8 * Bit(3) + 16 * Bit(4) + 32 * Bit(5)) % 2 ^ width
  <2>1. CellGet(i) = CellFrom(Group(width, i) + Place(width, i) * width)
    BY DEF CellGet, CellFrom
  <2>2. CellGet(i) = CellFrom(width * i)
    BY <1>1, <2>1, Zenon
  <2>4. CellGet(i) = IF width = 8
                     THEN (IF width * i + 0 \in bits THEN 2 ^ 0 ELSE 0) + (IF width * i + 1 \in bits THEN 2 ^ 1 ELSE 0) + (IF width * i + 2 \in bits THEN 2 ^ 2 ELSE 0) + (IF width * i + 3 \in bits THEN 2 ^ 3 ELSE 0)
                          + (IF width * i + 4 \in bits THEN 2 ^ 4 ELSE 0) + (IF width * i + 5 \in bits THEN 2 ^ 5 ELSE 0) + (IF width * i + 6 \in bits THEN 2 ^ 6 ELSE 0) + (IF width * i + 7 \in bits THEN 2 ^ 7 ELSE 0)
                     ELSE ((IF width * i + 0 \in bits THEN 2 ^ 0 ELSE 0) + (IF width * i + 1 \in bits THEN 2 ^ 1 ELSE 0) + (IF width * i + 2 \in bits THEN 2 ^ 2 ELSE 0)
                           + (IF width * i + 3 \in bits THEN 2 ^ 3 ELSE 0) + (IF width * i + 4 \in bits THEN 2 ^ 4 ELSE 0) + (IF width * i + 5 \in bits THEN 2 ^ 5 ELSE 0)) % 2 ^ width
    BY <2>2, Zenon DEF CellFrom
  <2>5. PICK t0, t1, t2, t3, t4, t5, t6, t7 :
          /\ t0 = (IF width * i + 0 \in bits THEN 2 ^ 0 ELSE 0) /\ t1 = (IF width * i + 1 \in bits THEN 2 ^ 1 ELSE 0)
          /\ t2 = (IF width * i + 2 \in bits THEN 2 ^ 2 ELSE 0) /\ t3 = (IF width * i + 3 \in bits THEN 2 ^ 3 ELSE 0)
          /\ t4 = (IF width * i + 4 \in bits THEN 2 ^ 4 ELSE 0) /\ t5 = (IF width * i + 5 \in bits THEN 2 ^ 5 ELSE 0)
          /\ t6 = (IF width * i + 6 \in bits THEN 2 ^ 6 ELSE 0) /\ t7 = (IF width * i + 7 \in bits THEN 2 ^ 7 ELSE 0)
    OBVIOUS
  <2>6. CellGet(i) = IF width = 8 THEN t0 + t1 + t2 + t3 + t4 + t5 + t6 + t7
                     ELSE (t0 + t1 + t2 + t3 + t4 + t5) % 2 ^ width
    BY <2>4, <2>5, Zenon
  <2> HIDE DEF Bit
  <2>7. /\ t0 = Bit(0) /\ t1 = 2 * Bit(1) /\ t2 = 4 * Bit(2) /\ t3 = 8 * Bit(3)
        /\ t4 = 16 * Bit(4) /\ t5 = 32 * Bit(5) /\ t6 = 64 * Bit(6) /\ t7 = 128 * Bit(7)
    BY <1>2, <2>5, Zenon
  <2> QED BY <2>6, <2>7, Zenon
<1>4. PICK a \in {0, 1}, b \in {0, 1}, c \in {0, 1}, d \in {0, 1}, e \in {0, 1}, f \in {0, 1}, g \in {0, 1}, h \in {0, 1} :
        /\ a = Bit(0) /\ b = Bit(1) /\ c = Bit(2) /\ d = Bit(3) /\ e = Bit(4) /\ f = Bit(5) /\ g = Bit(6) /\ h = Bit(7)
  OBVIOUS
<1>5. /\ Stored(i, 0) = a
      /\ Stored(i, 1) = IF width > 1 THEN b ELSE 0
      /\ Stored(i, 2) = IF width > 2 THEN c ELSE 0
      /\ Stored(i, 3) = IF width > 3 THEN d ELSE 0
      /\ Stored(i, 4) = IF width > 4 THEN e ELSE 0
      /\ Stored(i, 5) = IF width > 5 THEN f ELSE 0
      /\ Stored(i, 6) = IF width > 6 THEN g ELSE 0
      /\ Stored(i, 7) = IF width > 7 THEN h ELSE 0
  BY <1>4 DEF Stored, AllWidths
<1> HIDE DEF Bit
<1>6. CellGet(i) = IF width = 8 THEN a + 2 * b + 4 * c + 8 * d + 16 * e + 32 * f + 64 * g + 128 * h
                   ELSE (a + 2 * b + 4 * c + 8 * d + 16 * e + 32 * f) % 2 ^ width
  BY <1>3, <1>4, Zenon
<1>7. CellGet(i) = Stored(i, 0) + 2 * Stored(i, 1) + 4 * Stored(i, 2) + 8 * Stored(i, 3)
                   + 16 * Stored(i, 4) + 32 * Stored(i, 5) + 64 * Stored(i, 6) + 128 * Stored(i, 7)
  <2>1. CASE width = 1
    <3>1. CellGet(i) = (a + 2 * b + 4 * c + 8 * d + 16 * e + 32 * f) % 2
      BY <1>6, <2>1, Powers
    <3>2. CellGet(i) = a
      BY <3>1
    <3> QED BY <1>5, <2>1, <3>2
  <2>2. CASE width = 2
    <3>1. CellGet(i) = (a + 2 * b + 4 * c + 8 * d + 16 * e + 32 * f) % 4
      BY <1>6, <2>2, Powers
    <3>2. CellGet(i) = a + 2 * b
      BY <3>1
    <3> QED BY <1>5, <2>2, <3>2
  <2>3. CASE width = 3
    <3>1. CellGet(i) = (a + 2 * b + 4 * c + 8 * d + 16 * e + 32 * f) % 8
      BY <1>6, <2>3, Powers
    <3>2. CellGet(i) = a + 2 * b + 4 * c
      BY <3>1
    <3> QED BY <1>5, <2>3, <3>2
  <2>4. CASE width = 4
    <3>1. CellGet(i) = (a + 2 * b + 4 * c + 8 * d + 16 * e + 32 * f) % 16
      BY <1>6, <2>4, Powers
    <3>2. CellGet(i) = a + 2 * b + 4 * c + 8 * d
      BY <3>1
    <3> QED BY <1>5, <2>4, <3>2
  <2>5. CASE width = 5
    <3>1. CellGet(i) = (a + 2 * b + 4 * c + 8 * d + 16 * e + 32 * f) % 32
      BY <1>6, <2>5, Powers
    <3>2. CellGet(i) = a + 2 * b + 4 * c + 8 * d + 16 * e
      BY <3>1
    <3> QED BY <1>5, <2>5, <3>2
  <2>6. CASE width = 6
    <3>1. CellGet(i) = (a + 2 * b + 4 * c + 8 * d + 16 * e + 32 * f) % 64
      BY <1>6, <2>6, Powers
    <3>2. CellGet(i) = a + 2 * b + 4 * c + 8 * d + 16 * e + 32 * f
      BY <3>1
    <3> QED BY <1>5, <2>6, <3>2
  <2>8. CASE width = 8
    BY <1>5, <1>6, <2>8
  <2> QED BY <2>1, <2>2, <2>3, <2>4, <2>5, <2>6, <2>8 DEF AllWidths
<1>8. \A k \in 0 .. 7 : Stored(i, k) \in {0, 1}
  BY DEF Stored
<1>9. PICK n : n = CellGet(i)
  OBVIOUS
<1>10. /\ n \in Nat /\ n < 256
       /\ BitOf(n, 0) = Stored(i, 0) /\ BitOf(n, 1) = Stored(i, 1) /\ BitOf(n, 2) = Stored(i, 2) /\ BitOf(n, 3) = Stored(i, 3)
       /\ BitOf(n, 4) = Stored(i, 4) /\ BitOf(n, 5) = Stored(i, 5) /\ BitOf(n, 6) = Stored(i, 6) /\ BitOf(n, 7) = Stored(i, 7)
  <2>1. PICK a1 \in {0, 1}, b1 \in {0, 1}, c1 \in {0, 1}, d1 \in {0, 1}, e1 \in {0, 1}, f1 \in {0, 1}, g1 \in {0, 1}, h1 \in {0, 1} :
          /\ a1 = Stored(i, 0) /\ b1 = Stored(i, 1) /\ c1 = Stored(i, 2) /\ d1 = Stored(i, 3)
          /\ e1 = Stored(i, 4) /\ f1 = Stored(i, 5) /\ g1 = Stored(i, 6) /\ h1 = Stored(i, 7)
    BY <1>8
  <2>2. n = a1 + 2 * b1 + 4 * c1 + 8 * d1 + 16 * e1 + 32 * f1 + 64 * g1 + 128 * h1
    BY <1>7, <1>9, <2>1, Zenon
  <2>3. /\ n \in Nat /\ n < 256
        /\ BitOf(n, 0) = a1 /\ BitOf(n, 1) = b1 /\ BitOf(n, 2) = c1 /\ BitOf(n, 3) = d1
        /\ BitOf(n, 4) = e1 /\ BitOf(n, 5) = f1 /\ BitOf(n, 6) = g1 /\ BitOf(n, 7) = h1
    BY <2>2, BitsOfSum
  <2> QED BY <2>1, <2>3, Zenon
<1>11. \A k \in 0 .. 7 : BitOf(n, k) = Stored(i, k)
  <2> TAKE k \in 0 .. 7
  <2>1. k \in {0, 1, 2, 3, 4, 5, 6, 7}
    OBVIOUS
  <2> QED BY <1>10, <2>1
<1> QED BY <1>7, <1>9, <1>10, <1>11, Zenon

-----------------------------------------------------------------------------
(* The invariant: each bit of a cell is the one of what was written, or    *)
(* lost to a mask that is too wide.                                        *)
Cells == 0 .. dwBitmapSize
BitTypes ==
    /\ width \in Widths /\ bits \subseteq Nat /\ crossed \subseteq Cells
    /\ written \in [Cells -> Nat] /\ \A i \in Cells : written[i] < 2 ^ width
BitsKept ==
    \A i \in Cells : \A k \in 0 .. width - 1 :
        /\ width * i + k \in bits => BitOf(written[i], k) = 1
        /\ i \notin crossed /\ BitOf(written[i], k) = 1 => width * i + k \in bits
BitInv == BitTypes /\ BitsKept

LEMMA BitInvGives == BitInv => CellsAsWritten
<1> SUFFICES ASSUME BitInv PROVE CellsAsWritten
  OBVIOUS
<1> SUFFICES ASSUME NEW i \in Cells
             PROVE  IF i \notin crossed THEN CellGet(i) = written[i]
                    ELSE \A k \in 0 .. 7 : BitOf(CellGet(i), k) <= BitOf(written[i], k)
  <2>1. DOMAIN written = Cells
    BY DEF BitInv, BitTypes
  <2> QED BY <2>1, Zenon DEF CellsAsWritten, BitOf
<1>0. width \in AllWidths /\ i \in Nat /\ width \in Nat
  BY BitMapAssumption DEF BitInv, BitTypes, AllWidths, Cells
<1>1. PICK v \in Nat : v = written[i] /\ v < 2 ^ width
  BY DEF BitInv, BitTypes
<1>2. v < 256 /\ (\A k \in 0 .. 7 : k >= width => BitOf(v, k) = 0) /\ \A k \in 0 .. 7 : BitOf(v, k) \in {0, 1}
  BY <1>0, <1>1, HighBits, SumOfBits
<1>3. \A k \in 0 .. 7 : BitOf(CellGet(i), k) = Stored(i, k)
  BY <1>0, CellGetIs
<1>4. ASSUME NEW k \in 0 .. 7
      PROVE  Stored(i, k) <= BitOf(v, k) /\ (i \notin crossed => Stored(i, k) = BitOf(v, k))
  <2>1. CASE k < width
    <3>1. k \in 0 .. width - 1
      BY <1>0, <2>1
    <3>2. /\ width * i + k \in bits => BitOf(v, k) = 1
          /\ i \notin crossed /\ BitOf(v, k) = 1 => width * i + k \in bits
      BY <1>1, <3>1 DEF BitInv, BitsKept
    <3>3. Stored(i, k) = IF width * i + k \in bits THEN 1 ELSE 0
      BY <2>1 DEF Stored
    <3>4. BitOf(v, k) \in {0, 1}
      BY <1>2
    <3> QED BY <3>2, <3>3, <3>4
  <2>2. CASE ~(k < width)
    <3>1. Stored(i, k) = 0 /\ BitOf(v, k) = 0
      BY <1>0, <1>2, <2>2 DEF Stored
    <3> QED BY <3>1
  <2> QED BY <2>1, <2>2
<1>5. CASE i \notin crossed
  <2>1. v = BitOf(v, 0) + 2 * BitOf(v, 1) + 4 * BitOf(v, 2) + 8 * BitOf(v, 3)
            + 16 * BitOf(v, 4) + 32 * BitOf(v, 5) + 64 * BitOf(v, 6) + 128 * BitOf(v, 7)
    BY <1>2, SumOfBits
  <2>2. /\ BitOf(v, 0) = Stored(i, 0) /\ BitOf(v, 1) = Stored(i, 1) /\ BitOf(v, 2) = Stored(i, 2) /\ BitOf(v, 3) = Stored(i, 3)
        /\ BitOf(v, 4) = Stored(i, 4) /\ BitOf(v, 5) = Stored(i, 5) /\ BitOf(v, 6) = Stored(i, 6) /\ BitOf(v, 7) = Stored(i, 7)
    BY <1>4, <1>5
  <2>3. CellGet(i) = Stored(i, 0) + 2 * Stored(i, 1) + 4 * Stored(i, 2) + 8 * Stored(i, 3)
                     + 16 * Stored(i, 4) + 32 * Stored(i, 5) + 64 * Stored(i, 6) + 128 * Stored(i, 7)
    BY <1>0, CellGetIs
  <2>4. CellGet(i) = v
    BY <2>1, <2>2, <2>3, Zenon
  <2> QED BY <1>1, <1>5, <2>4
<1>6. CASE i \in crossed
  <2>1. \A k \in 0 .. 7 : BitOf(CellGet(i), k) <= BitOf(v, k)
    BY <1>3, <1>4
  <2> QED BY <1>1, <1>6, <2>1
<1> QED BY <1>5, <1>6

-----------------------------------------------------------------------------
(* The steps.                                                              *)
LEMMA InitBitInv == BitInit => BitInv
<1> SUFFICES ASSUME BitInit PROVE BitInv
  OBVIOUS
<1>0. width \in Widths /\ width \in 0 .. 8 /\ bits = {} /\ crossed = {} /\ written = [i \in Cells |-> 0]
  BY BitMapAssumption DEF BitInit, Cells
<1>1. 0 < 2 ^ width
  BY <1>0, PowersRise
<1>2. BitTypes
  BY <1>0, <1>1 DEF BitTypes
<1>3. \A k \in 0 .. width - 1 : BitOf(0, k) # 1
  <2> TAKE k \in 0 .. width - 1
  <2>1. k \in 0 .. 8
    BY <1>0
  <2>2. PICK p \in Nat : p = 2 ^ k /\ p > 0
    BY <2>1, PowersRise
  <2>3. (0 \div p) % 2 = 0
    BY <2>2
  <2> QED BY <2>2, <2>3 DEF BitOf
<1>4. BitsKept
  BY <1>0, <1>3 DEF BitsKept
<1> QED BY <1>2, <1>4 DEF BitInv

\* The bits that set ors in lie in the cell.
LEMMA OredIn ==
    ASSUME width \in AllWidths, NEW i \in Nat, NEW v \in Nat, v < 2 ^ width
    PROVE  LET ored == Bits(Group(width, i) + Place(width, i) * width, v)
           IN /\ ored \subseteq CellBits(width, i)
              /\ \A k \in 0 .. width - 1 : width * i + k \in ored <=> BitOf(v, k) = 1
<1>1. PICK f \in Nat : f = width * i /\ f = Group(width, i) + Place(width, i) * width
  BY PlaceOf, CellBitsAre
<1>2. PICK w \in AllWidths : w = width
  OBVIOUS
<1>3. w \in 0 .. 8
  BY DEF AllWidths
<1>4. \A k \in 0 .. 7 : k >= w => BitOf(v, k) # 1
  BY <1>2, HighBits
<1>5. CellBits(width, i) = f .. f + w - 1
  BY <1>1, <1>2, CellBitsAre
<1>6. Bits(f, v) = {f + k : k \in {k \in 0 .. 7 : BitOf(v, k) = 1}}
  BY Zenon DEF Bits, BitOf
<1>7. Bits(f, v) \subseteq f .. f + w - 1
  <2> SUFFICES ASSUME NEW k \in 0 .. 7, BitOf(v, k) = 1 PROVE f + k \in f .. f + w - 1
    BY <1>6
  <2>1. k < w
    BY <1>3, <1>4
  <2> QED BY <1>3, <2>1
<1>8. \A k \in 0 .. w - 1 : f + k \in Bits(f, v) <=> BitOf(v, k) = 1
  <2> TAKE k \in 0 .. w - 1
  <2>1. k \in 0 .. 7
    BY <1>3
  <2>2. \A m \in 0 .. 7 : f + m = f + k => m = k
    BY <2>1
  <2> QED BY <1>6, <2>1, <2>2
<1> QED BY <1>1, <1>2, <1>5, <1>7, <1>8

LEMMA SetBitsStep ==
    ASSUME BitInv, NEW i \in Touched, NEW v \in {0, 1, 2 ^ width - 1}, CellSet(i, v)
    PROVE  BitInv'
<1>0. width \in AllWidths /\ i \in Cells /\ i \in Nat /\ width \in 1 .. 8 /\ width' = width
  BY BitMapAssumption DEF BitInv, BitTypes, AllWidths, Cells, CellSet
<1>1. v \in Nat /\ v < 2 ^ width
  <2>1. width \in 0 .. 8 /\ width \in AllWidths /\ 1 \in AllWidths
    BY <1>0 DEF AllWidths
  <2>2. PICK p \in Nat : p = 2 ^ width /\ p > 0
    BY <2>1, PowersRise
  <2>3. p # 1
    <3>1. 2 ^ width = Power(width)
      BY <2>1, PowersTable, Zenon
    <3>2. Power(width) # 1
      BY <1>0 DEF Power
    <3> QED BY <2>2, <3>1, <3>2
  <2>4. v \in {0, 1, p - 1}
    BY <2>2
  <2>5. v \in Nat /\ v < p
    BY <2>2, <2>3, <2>4
  <2> QED BY <2>2, <2>5
<1> DEFINE ored == Bits(Group(width, i) + Place(width, i) * width, v)
<1>2. /\ ored \subseteq CellBits(width, i)
      /\ \A k \in 0 .. width - 1 : width * i + k \in ored <=> BitOf(v, k) = 1
  BY <1>0, <1>1, OredIn
<1>3. /\ bits' = (bits \ (CellBits(width, i) \cup Reach(width, i))) \cup ored
      /\ written' = [written EXCEPT ![i] = v]
      /\ crossed' = (crossed \cup Overrun(i)) \ {i}
  BY <1>0, ClearedIs DEF CellSet
<1> HIDE DEF ored
<1>4. BitTypes'
  <2>1. CellBits(width, i) \subseteq Nat
    <3>1. PICK f \in Nat : CellBits(width, i) = f .. f + width - 1
      BY <1>0, CellBitsAre
    <3>2. f .. f + width - 1 \subseteq Nat
      BY <1>0
    <3> QED BY <3>1, <3>2
  <2>2. bits' \subseteq Nat
    BY <1>2, <1>3, <2>1 DEF BitInv, BitTypes
  <2>3. Overrun(i) \subseteq Cells
    BY <1>0 DEF Overrun, Cells
  <2>4. crossed' \subseteq Cells
    BY <1>3, <2>3 DEF BitInv, BitTypes
  <2>5. written' \in [Cells -> Nat] /\ \A j \in Cells : written'[j] < 2 ^ width
    BY <1>0, <1>1, <1>3 DEF BitInv, BitTypes
  <2> QED BY <1>0, <2>2, <2>4, <2>5 DEF BitInv, BitTypes
<1>5. ASSUME NEW j \in Cells, NEW k \in 0 .. width - 1
      PROVE  /\ width * j + k \in bits' => BitOf(written'[j], k) = 1
             /\ j \notin crossed' /\ BitOf(written'[j], k) = 1 => width * j + k \in bits'
  <2>1. CASE j = i
    <3>1. written'[j] = v
      BY <1>3, <2>1 DEF BitInv, BitTypes
    <3>2. width * i + k \in CellBits(width, i)
      <4>1. width * i \in Nat /\ CellBits(width, i) = width * i .. width * i + width - 1
        BY <1>0, CellBitsAre
      <4>2. PICK f \in Nat : f = width * i
        BY <4>1
      <4>3. f + k \in f .. f + width - 1
        BY <1>0
      <4> QED BY <4>1, <4>2, <4>3
    <3> QED BY <1>2, <1>3, <2>1, <3>1, <3>2
  <2>2. CASE j # i
    <3>1. written'[j] = written[j] /\ j \in Nat
      BY <1>3, <2>2 DEF BitInv, BitTypes, Cells
    <3>2. PICK b : b = width * j + k
      OBVIOUS
    <3>3. b \notin CellBits(width, i) /\ b \in CellBits(width, j) /\ (b \in Reach(width, i) => j > i)
      BY <1>0, <2>2, <3>1, <3>2, Apart
    <3>4. b \in bits' <=> b \in bits /\ b \notin Reach(width, i)
      BY <1>2, <1>3, <3>3
    <3>5. /\ b \in bits => BitOf(written[j], k) = 1
          /\ j \notin crossed /\ BitOf(written[j], k) = 1 => b \in bits
      BY <3>2 DEF BitInv, BitsKept
    <3>6. b \in Reach(width, i) => j \in Overrun(i)
      <4> SUFFICES ASSUME b \in Reach(width, i) PROVE j \in Overrun(i)
        OBVIOUS
      <4>1. width \in {3, 6} /\ b \in Group(width, i) + 32 .. Group(width, i) + 63
        BY DEF Reach
      <4>2. j \in i + 1 .. dwBitmapSize
        BY <1>0, <3>1, <3>3, BitMapAssumption DEF Cells
      <4>3. CellBits(width, j) \cap (Group(width, i) + 32 .. Group(width, i) + 63) # {}
        BY <3>3, <4>1
      <4> QED BY <4>1, <4>2, <4>3 DEF Overrun
    <3>7. j \notin crossed' => j \notin crossed /\ j \notin Overrun(i)
      BY <1>3, <2>2
    <3> QED BY <3>1, <3>2, <3>4, <3>5, <3>6, <3>7
  <2> QED BY <2>1, <2>2
<1>6. BitsKept'
  BY <1>0, <1>5 DEF BitsKept
<1> QED BY <1>4, <1>6 DEF BitInv

\* What clear sets to zero ends between two cells.
LEMMA EndsBetween ==
    ASSUME NEW w \in AllWidths, NEW j \in Nat
    PROVE  /\ 8 * Class(w).data \in Nat
           /\ \/ \A k \in 0 .. w - 1 : w * j + k < 8 * Class(w).data
              \/ \A k \in 0 .. w - 1 : w * j + k >= 8 * Class(w).data
<1>1. PICK m \in Nat : 8 * Class(w).data = w * m
  <2>1. Eights \in Nat /\ 8 * Eights \in Nat /\ dwBitmapSize \in Nat
    BY BitMapAssumption DEF Eights
  <2>2. PICK e \in Nat, s \in Nat : e = Eights /\ s = dwBitmapSize
    BY <2>1
  <2>3. CASE w \in {1, 2, 3, 4, 5, 6}
    <3>1. Class(w).data = w * e
      <4>1. CASE w = 1
        BY <2>2, <4>1 DEF Class, Class1
      <4>2. CASE w = 2
        BY <2>2, <4>2 DEF Class, Class2
      <4>3. CASE w = 3
        BY <2>2, <4>3 DEF Class, Class3
      <4>4. CASE w = 4
        BY <2>2, <4>4 DEF Class, Class4
      <4>5. CASE w = 5
        BY <2>2, <4>5 DEF Class, Class5
      <4>6. CASE w = 6
        BY <2>2, <4>6 DEF Class, Class6
      <4> QED BY <2>3, <4>1, <4>2, <4>3, <4>4, <4>5, <4>6
    <3>2. 8 * (w * e) = w * (8 * e) /\ 8 * e \in Nat
      BY <2>3
    <3> QED BY <3>1, <3>2
  <2>4. CASE w = 8
    <3>1. Class(w).data = s
      BY <2>2, <2>4 DEF Class, Class8
    <3> QED BY <2>4, <3>1
  <2> QED BY <2>3, <2>4 DEF AllWidths
<1>2. w \in Nat /\ w >= 1
  BY DEF AllWidths
<1>3. PICK x \in Nat, y \in Nat : x = w * j /\ y = w * m
  BY <1>2
<1>4. j < m => x + w <= y
  BY <1>3 DEF AllWidths
<1>5. ~(j < m) => y <= x
  BY <1>3 DEF AllWidths
<1>6. \/ \A k \in 0 .. w - 1 : x + k < y
      \/ \A k \in 0 .. w - 1 : x + k >= y
  BY <1>2, <1>4, <1>5
<1> QED BY <1>1, <1>3, <1>6

LEMMA ClearBitsStep == ASSUME BitInv, CellClear PROVE BitInv'
<1>0. width \in AllWidths /\ width \in 1 .. 8 /\ width' = width
  BY BitMapAssumption DEF BitInv, BitTypes, AllWidths, CellClear
<1>1. PICK size : size = 8 * Class(width).data
  OBVIOUS
<1>2. /\ bits' = {b \in bits : b >= size}
      /\ written' = [i \in Cells |-> IF CellBits(width, i) \cap (0 .. size - 1) # {} THEN 0 ELSE written[i]]
      /\ crossed' = {i \in crossed : CellBits(width, i) \cap (0 .. size - 1) = {}}
  <2>1. DOMAIN written = Cells
    BY DEF BitInv, BitTypes
  <2> QED BY <1>1, <2>1, Zenon DEF CellClear
<1>3. size \in Nat
  BY <1>0, <1>1, EndsBetween
<1>4. BitTypes'
  <2>1. 0 < 2 ^ width
    <3>1. width \in 0 .. 8
      BY <1>0
    <3> QED BY <3>1, PowersRise
  <2>2. bits' \subseteq Nat /\ crossed' \subseteq Cells
    BY <1>2 DEF BitInv, BitTypes
  <2>3. written' \in [Cells -> Nat] /\ \A j \in Cells : written'[j] < 2 ^ width
    BY <1>2, <2>1 DEF BitInv, BitTypes
  <2> QED BY <1>0, <2>2, <2>3 DEF BitInv, BitTypes
<1>5. ASSUME NEW j \in Cells, NEW k \in 0 .. width - 1
      PROVE  /\ width * j + k \in bits' => BitOf(written'[j], k) = 1
             /\ j \notin crossed' /\ BitOf(written'[j], k) = 1 => width * j + k \in bits'
  <2>0. j \in Nat
    BY BitMapAssumption DEF Cells
  <2>1. PICK f \in Nat : f = width * j /\ CellBits(width, j) = f .. f + width - 1
    BY <1>0, <2>0, CellBitsAre
  <2>2. k \in Nat /\ f + k \in CellBits(width, j)
    BY <1>0, <2>1
  <2>3. CASE \A m \in 0 .. width - 1 : f + m < size
    <3>1. f + k \in 0 .. size - 1
      BY <1>3, <2>2, <2>3
    <3>2. CellBits(width, j) \cap (0 .. size - 1) # {}
      BY <2>2, <3>1
    <3>3. written'[j] = 0
      BY <1>2, <3>2
    <3>4. f + k \notin bits'
      BY <1>2, <1>3, <2>2, <3>1
    <3>5. BitOf(0, k) # 1
      <4>1. k \in 0 .. 8
        BY <1>0
      <4>2. PICK p \in Nat : p = 2 ^ k /\ p > 0
        BY <4>1, PowersRise
      <4>3. (0 \div p) % 2 = 0
        BY <4>2
      <4> QED BY <4>2, <4>3 DEF BitOf
    <3> QED BY <2>1, <3>3, <3>4, <3>5
  <2>4. CASE \A m \in 0 .. width - 1 : f + m >= size
    <3>1. CellBits(width, j) \cap (0 .. size - 1) = {}
      <4> SUFFICES ASSUME NEW b \in f .. f + width - 1, b \in 0 .. size - 1 PROVE FALSE
        BY <2>1
      <4>1. b - f \in 0 .. width - 1 /\ f + (b - f) = b
        BY <1>0
      <4>2. b >= size
        BY <2>4, <4>1
      <4> QED BY <1>3, <4>2
    <3>2. written'[j] = written[j] /\ (j \notin crossed' => j \notin crossed)
      BY <1>2, <3>1
    <3>3. f + k \in bits' <=> f + k \in bits
      BY <1>2, <2>4
    <3>4. /\ f + k \in bits => BitOf(written[j], k) = 1
          /\ j \notin crossed /\ BitOf(written[j], k) = 1 => f + k \in bits
      BY <2>1 DEF BitInv, BitsKept
    <3> QED BY <2>1, <3>2, <3>3, <3>4
  <2>5. \/ \A m \in 0 .. width - 1 : f + m < size
        \/ \A m \in 0 .. width - 1 : f + m >= size
    BY <1>0, <1>1, <2>0, <2>1, EndsBetween
  <2> QED BY <2>3, <2>4, <2>5
<1>6. BitsKept'
  BY <1>0, <1>5 DEF BitsKept
<1> QED BY <1>4, <1>6 DEF BitInv

LEMMA BitInvKept == BitInv /\ [BitNext]_bitVars => BitInv'
<1> SUFFICES ASSUME BitInv, [BitNext]_bitVars PROVE BitInv'
  OBVIOUS
<1>1. CASE CellClear
  BY <1>1, ClearBitsStep
<1>2. CASE \E i \in Touched : \E v \in {0, 1, 2 ^ width - 1} : CellSet(i, v)
  BY <1>2, SetBitsStep
<1>3. CASE UNCHANGED bitVars
  BY <1>3 DEF bitVars, BitInv, BitTypes, BitsKept
<1> QED BY <1>1, <1>2, <1>3 DEF BitNext

(* For a bitmap of any width and size, get returns what set wrote last,    *)
(* whatever was written around it; for the widths 3 and 6 but for the bits *)
(* that a mask too wide has taken from the cells it is known to reach.     *)
THEOREM CellsAreAsWritten == BitSpec => []CellsAsWritten
<1> QED BY InitBitInv, BitInvKept, BitInvGives, PTL DEF BitSpec
=============================================================================
