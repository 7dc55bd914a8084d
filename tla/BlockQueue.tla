----------------------------- MODULE BlockQueue -----------------------------
(***************************************************************************)
(* CBlockQueue, the bounded queue of the threads of one process: a mutex   *)
(* and one condition for those that wait for room and those that wait for  *)
(* an item.  push and the pop with a time limit test and change the queue  *)
(* with the mutex; the pop without one gives the mutex back after its wait *)
(* and goes on without it, so each access of its is a step here.           *)
(*                                                                         *)
(* pthread_mutex_unlock frees a mutex whoever has it, and                  *)
(* pthread_cond_wait does so before it sleeps: what the default kind of    *)
(* mutex does when the caller does not own it.                             *)
(***************************************************************************)
EXTENDS Integers, Sequences, FiniteSets

CONSTANTS
    Pushers, Poppers,       (* threads                                       *)
    Timed,                  (* the poppers that give a time limit            *)
    m_dwMaxSize,
    MaxPushes, MaxClears,   (* bounds                                        *)
    PastBare                (* bound: whether operations begin once bare     *)

ASSUME BlockQueueAssumption ==
    /\ m_dwMaxSize \in Nat \ {0} /\ MaxPushes \in Nat
    /\ Pushers \cap Poppers = {} /\ Timed \subseteq Poppers

VARIABLES
    m_mutex,                (* whether it is locked                          *)
    m_pData, m_dwSize, m_dwFront, m_dwBack,
    at,                     (* where each thread is                          *)
    read,                   (* the m_dwSize each thread read                 *)
    pushed, popped,         (* items put into and taken from the array       *)
    cleared,                (* calls of clear so far                         *)
    bare                    (* whether a pop has gone on without the mutex   *)

blockVars == <<m_mutex, m_pData, m_dwSize, m_dwFront, m_dwBack, at, read, pushed, popped, cleared, bare>>
queueVars == <<m_pData, m_dwSize, m_dwFront, m_dwBack, pushed, popped, cleared>>

Threads == Pushers \cup Poppers
ThreadGoes(t, from, to) == at[t] = from /\ at' = [at EXCEPT ![t] = to]

BlockInit ==
    /\ m_mutex = FALSE
    /\ m_pData = [i \in 0 .. m_dwMaxSize - 1 |-> 0]
    /\ m_dwSize = 0 /\ m_dwFront = -1 /\ m_dwBack = -1
    /\ at = [t \in Threads |-> "out"] /\ read = [t \in Threads |-> 0]
    /\ pushed = <<>> /\ popped = <<>> /\ cleared = 0 /\ bare = FALSE

-----------------------------------------------------------------------------
\* pthread_mutex_lock, at the start of every operation.
Lock(t) ==
    /\ ~m_mutex /\ m_mutex' = TRUE
    /\ ThreadGoes(t, "out", "test")
    /\ t \in Pushers => Len(pushed) < MaxPushes
    /\ bare => PastBare
    /\ UNCHANGED <<read, bare, queueVars>>

\* pthread_cond_wait, and its return with the mutex; a thread may wake unasked.
Sleep(t) == m_mutex' = FALSE /\ ThreadGoes(t, "test", "asleep") /\ UNCHANGED <<read, bare, queueVars>>
Awakes(t) ==
    /\ ~m_mutex /\ m_mutex' = TRUE
    /\ at[t] \in {"asleep", "awake"} /\ at' = [at EXCEPT ![t] = "returned"]
    /\ UNCHANGED <<read, bare, queueVars>>
Unlock(t) ==
    /\ m_mutex' = FALSE
    /\ ThreadGoes(t, "leave", "broadcast")
    /\ UNCHANGED <<read, bare, queueVars>>
Broadcast(t) ==
    /\ at[t] = "broadcast"
    /\ at' = [u \in Threads |-> IF u = t THEN "out" ELSE IF at[u] = "asleep" THEN "awake" ELSE at[u]]
    /\ UNCHANGED <<m_mutex, read, bare, queueVars>>

\* push: it waits for room and looks again with the mutex.
PushWaits(t) == t \in Pushers /\ m_dwSize >= m_dwMaxSize /\ Sleep(t)
PushAgain(t) ==
    /\ t \in Pushers /\ ThreadGoes(t, "returned", "out")
    /\ m_mutex' = FALSE
    /\ UNCHANGED <<read, bare, queueVars>>
PushStore_OneMore(t) ==
    /\ t \in Pushers /\ m_dwSize <= m_dwMaxSize /\ ThreadGoes(t, "test", "size")
    /\ m_dwBack' = (m_dwBack + 1) % m_dwMaxSize
    /\ m_pData' = [m_pData EXCEPT ![m_dwBack'] = Len(pushed) + 1]
    /\ pushed' = Append(pushed, Len(pushed) + 1)
    /\ UNCHANGED <<m_mutex, m_dwSize, m_dwFront, read, popped, cleared, bare>>
PushStore(t) ==
    /\ t \in Pushers /\ m_dwSize < m_dwMaxSize /\ ThreadGoes(t, "test", "size")
    /\ m_dwBack' = (m_dwBack + 1) % m_dwMaxSize
    /\ m_pData' = [m_pData EXCEPT ![m_dwBack'] = Len(pushed) + 1]
    /\ pushed' = Append(pushed, Len(pushed) + 1)
    /\ UNCHANGED <<m_mutex, m_dwSize, m_dwFront, read, popped, cleared, bare>>

\* m_dwSize++ and m_dwSize--: a load and a store.
LoadSize(t) ==
    /\ ThreadGoes(t, "size", "change")
    /\ read' = [read EXCEPT ![t] = m_dwSize]
    /\ UNCHANGED <<m_mutex, bare, queueVars>>
StoreSize(t) ==
    /\ ThreadGoes(t, "change", "leave")
    /\ m_dwSize' = IF t \in Pushers THEN read[t] + 1 ELSE read[t] - 1
    /\ UNCHANGED <<m_mutex, m_pData, m_dwFront, m_dwBack, read, pushed, popped, cleared, bare>>

\* The way out of both pops.
PopTake(t) ==
    /\ m_dwSize > 0 /\ ThreadGoes(t, "test", "size") /\ Len(popped) < MaxPushes
    /\ m_dwFront' = (m_dwFront + 1) % m_dwMaxSize
    /\ popped' = Append(popped, m_pData[m_dwFront'])
    /\ UNCHANGED <<m_mutex, m_pData, m_dwSize, m_dwBack, read, pushed, cleared, bare>>

\* pop without a time limit: after the wait it unlocks and goes on to the test.
PopTakes(t) == t \in Poppers \ Timed /\ PopTake(t)
PopWaits(t) == t \in Poppers \ Timed /\ m_dwSize <= 0 /\ Sleep(t)
PopAgain(t) ==
    /\ t \in Poppers \ Timed /\ ThreadGoes(t, "returned", "test")
    /\ m_mutex' = FALSE /\ bare' = TRUE
    /\ UNCHANGED <<read, queueVars>>

\* pop with a time limit: one wait, which may end without an item or with the time.
TimedTakes(t) == t \in Timed /\ PopTake(t)
TimedWaits(t) == t \in Timed /\ m_dwSize <= 0 /\ Sleep(t)
TimedLooks(t) ==
    /\ t \in Timed /\ m_dwSize > 0 /\ ThreadGoes(t, "returned", "test")
    /\ UNCHANGED <<m_mutex, read, bare, queueVars>>
TimedFails(t) ==
    /\ t \in Timed /\ ThreadGoes(t, "returned", "out")
    /\ m_mutex' = FALSE
    /\ UNCHANGED <<read, bare, queueVars>>

\* clear, which tells nobody that there is room.
Clear(t) ==
    /\ ~m_mutex /\ at[t] = "out" /\ t \in Poppers /\ cleared < MaxClears
    /\ cleared' = cleared + 1
    /\ m_dwSize' = 0 /\ m_dwFront' = -1 /\ m_dwBack' = -1
    /\ popped' = [i \in 1 .. Len(pushed) |-> i]
    /\ UNCHANGED <<m_mutex, m_pData, at, read, pushed, bare>>

BlockStep(t) ==
    \/ Lock(t) \/ Awakes(t) \/ Unlock(t) \/ Broadcast(t) \/ Clear(t)
    \/ PushWaits(t) \/ PushAgain(t) \/ PushStore(t) \/ LoadSize(t) \/ StoreSize(t)
    \/ PopTakes(t) \/ PopWaits(t) \/ PopAgain(t)
    \/ TimedTakes(t) \/ TimedWaits(t) \/ TimedLooks(t) \/ TimedFails(t)

BlockNext == \E t \in Threads : BlockStep(t)
BlockSpec == BlockInit /\ [][BlockNext]_blockVars

-----------------------------------------------------------------------------
\* Every item pushed is popped once, in the order in which they were pushed:
\* what the array's two ends and its count must agree on, whoever works on them.
PoppedInOrder == \A i \in 1 .. Len(popped) : popped[i] = i

\* The same as long as every pop without a time limit found an item at once, and
\* then no thread that pushes sleeps through room: while one does, the queue is
\* full, or a broadcast is still to come, or clear made the room.
InOrderWithMutex ==
    ~bare =>
        /\ PoppedInOrder
        /\ (\E t \in Pushers : at[t] = "asleep") =>
               \/ m_dwSize >= m_dwMaxSize \/ cleared > 0
               \/ \E t \in Threads : at[t] \in {"size", "change", "leave", "broadcast"}

-----------------------------------------------------------------------------
\* The abstract queue: what lies behind front, as many items as were pushed and
\* not popped.
Slot(front, i) == IF front + i < m_dwMaxSize THEN front + i ELSE front + i - m_dwMaxSize
Waiting == [i \in 1 .. Len(pushed) - Len(popped) |-> m_pData[Slot(m_dwFront, i)]]
ItemFifo == INSTANCE BoundedFifo
            WITH Elems <- 1 .. MaxPushes, Capacity <- m_dwMaxSize, None <- 0, fifo <- Waiting, answer <- TRUE,
                 taken <- IF popped = <<>> THEN 0 ELSE popped[Len(popped)]

\* As long as every pop without a time limit found an item at once, each step of
\* a thread but clear is a step of a bounded FIFO or leaves it alone: push puts
\* its item behind the others, into a queue that has room, and pop takes the
\* oldest.
FifoWithMutex == [][~bare' /\ cleared' = cleared => [ItemFifo!Next]_(ItemFifo!vars)]_blockVars
=============================================================================
