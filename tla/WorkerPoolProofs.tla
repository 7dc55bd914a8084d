-------------------------- MODULE WorkerPoolProofs --------------------------
(***************************************************************************)
(* Proofs about the worker pool for every number of threads and every size *)
(* of the queue: the type invariant, with the queue's limit, that no       *)
(* wake-up is lost, and that every request is in exactly one place.        *)
(***************************************************************************)
EXTENDS WorkerPool, FiniteSetTheorems, FunctionTheorems, TLAPS

Ids == 1 .. Len(session)

\* Requests anywhere in the pool are requests that were read.
InUse ==
    /\ m_queTaskQueue \in Seq(Ids) /\ m_queMsgEvents \in Seq(Ids)
    /\ task \in [Workers -> Ids \cup {None}] /\ request \in Ids \cup {None}

\* Who dispatches has a request, and who works.
Held ==
    /\ loop \in {"lock", "push"} => request # None
    /\ \A w \in Workers : pc[w] = "work" => task[w] # None

IInv == TypeOK /\ InUse /\ Held

LEMMA InitIInv == Init => IInv
BY WorkerPoolAssumption DEF Init, IInv, TypeOK, InUse, Held, Ids, None

LEMMA IdsAreRequests ==
    ASSUME TypeOK PROVE Ids \subseteq Requests /\ None \notin Ids /\ Len(session) \in Nat
BY WorkerPoolAssumption DEF TypeOK, Ids, Requests, None

LEMMA SeqSubset ==
    ASSUME NEW S, NEW T, S \subseteq T, NEW s \in Seq(S)
    PROVE  s \in Seq(T)
OBVIOUS

LEMMA TailType ==
    ASSUME NEW S, NEW s \in Seq(S), s # <<>>
    PROVE  Tail(s) \in Seq(S) /\ Len(Tail(s)) = Len(s) - 1 /\ Head(s) \in S /\ Len(s) > 0
OBVIOUS

LEMMA IInvNext == IInv /\ [Next]_vars => IInv'
<1> SUFFICES ASSUME IInv, [Next]_vars PROVE IInv'
  OBVIOUS
<1>0. TypeOK /\ InUse /\ Held /\ Ids \subseteq Requests /\ None \notin Ids /\ Len(session) \in Nat
  BY IdsAreRequests DEF IInv
<1> USE DEF queue, threads, messages, clients
<1>1. ASSUME NEW f \in Fds, Accept(f) \/ Close(f) PROVE IInv'
  <2>1. UNCHANGED <<queue, threads, loop, request, messages, session, written, over>>
    BY <1>1 DEF Accept, Close
  <2>2. accepted' \in 0 .. MaxConns /\ conn' \in [Fds -> Conns \cup {None}]
    <3>1. CASE Accept(f)
      <4>1. accepted + 1 \in Conns /\ accepted' = accepted + 1
        BY <1>0, <3>1, WorkerPoolAssumption DEF Accept, TypeOK, Conns
      <4> QED BY <1>0, <3>1, <4>1, WorkerPoolAssumption DEF Accept, TypeOK, Conns
    <3>2. CASE Close(f)
      BY <1>0, <3>2 DEF Close, TypeOK
    <3> QED BY <1>1, <3>1, <3>2
  <2>3. TypeOK'
    BY <1>0, <2>1, <2>2 DEF TypeOK
  <2> QED BY <1>0, <2>1, <2>3 DEF IInv, InUse, Held, Ids
<1>2. ASSUME NEW f \in Fds, OnRead(f) PROVE IInv'
  <2>1. /\ session' = Append(session, <<f, conn[f]>>) /\ request' = Len(session) + 1
        /\ loop' = "lock" /\ conn[f] \in Conns /\ Len(session) + 1 <= MaxRequests
        /\ UNCHANGED <<queue, threads, messages, clients, written, over>>
    BY <1>0, <1>2, WorkerPoolAssumption DEF OnRead, TypeOK
  <2>2. /\ session' \in Seq(Fds \X Conns) /\ Len(session') = Len(session) + 1
        /\ Ids \subseteq Ids' /\ request' \in Ids' /\ request' \in Requests /\ request' # None
    BY <1>0, <2>1, WorkerPoolAssumption DEF TypeOK, Ids, Requests, None
  <2>3. TypeOK'
    BY <1>0, <2>1, <2>2 DEF TypeOK
  <2>4. m_queTaskQueue' \in Seq(Ids') /\ m_queMsgEvents' \in Seq(Ids')
    BY <1>0, <2>1, <2>2, SeqSubset DEF InUse
  <2>5. task' \in [Workers -> Ids' \cup {None}]
    BY <1>0, <2>1, <2>2 DEF InUse
  <2> QED BY <1>0, <2>1, <2>2, <2>3, <2>4, <2>5 DEF IInv, InUse, Held
<1>3. CASE DispatchLock
  BY <1>0, <1>3 DEF DispatchLock, IInv, TypeOK, InUse, Held, Ids
<1>4. CASE DispatchFull
  BY <1>0, <1>4 DEF DispatchFull, IInv, TypeOK, InUse, Held, Ids
<1>5. CASE DispatchPush
  <2>1. /\ request \in Ids /\ m_queTaskQueue' = Append(m_queTaskQueue, request)
        /\ request' = None /\ m_lock' = Free /\ loop' = "signal"
        /\ ~(Len(m_queTaskQueue) > m_iMaxSize)
        /\ UNCHANGED <<threads, messages, clients, session, written, over>>
    BY <1>0, <1>5 DEF DispatchPush, TooMany, Held, InUse
  <2>2. /\ m_queTaskQueue' \in Seq(Ids) /\ m_queTaskQueue' \in Seq(Requests)
        /\ Len(m_queTaskQueue') <= m_iMaxSize + 1
    BY <1>0, <2>1, WorkerPoolAssumption DEF InUse, TypeOK
  <2> QED BY <1>0, <2>1, <2>2 DEF IInv, TypeOK, InUse, Held, Ids
<1>6. CASE Signal
  BY <1>0, <1>6 DEF Signal, Wakes, Asleep, IInv, TypeOK, InUse, Held, Ids
<1>7. CASE OnMessages \/ MessagesDone
  BY <1>0, <1>7 DEF OnMessages, MessagesDone, IInv, TypeOK, InUse, Held, Ids
<1>8. ASSUME NEW bClose \in BOOLEAN, OnMessage(bClose) PROVE IInv'
  <2> DEFINE r == Head(m_queMsgEvents)
             f == session[r][1]
  <2>1. r \in Ids /\ Tail(m_queMsgEvents) \in Seq(Ids) /\ Tail(m_queMsgEvents) \in Seq(Requests)
    BY <1>0, <1>8, TailType DEF OnMessage, InUse, TypeOK
  <2>2. f \in Fds
    <3>1. session[r] \in Fds \X Conns
      BY <1>0, <2>1 DEF TypeOK, Ids
    <3> QED BY <3>1
  <2>3. conn' \in [Fds -> Conns \cup {None}] /\ written' \subseteq Requests \X Conns
    BY <1>0, <1>8, <2>1, <2>2 DEF OnMessage, TypeOK
  <2>4. /\ over' = over \cup {r} /\ m_queMsgEvents' = Tail(m_queMsgEvents)
        /\ UNCHANGED <<queue, threads, loop, request, eventLock, accepted, session>>
    BY <1>8 DEF OnMessage
  <2>5. TypeOK'
    BY <1>0, <2>1, <2>3, <2>4 DEF TypeOK
  <2> QED BY <1>0, <2>1, <2>4, <2>5 DEF IInv, InUse, Held, Ids
<1>9. CASE Stop
  BY <1>0, <1>9 DEF Stop, IInv, TypeOK, InUse, Held, Ids
<1>10. ASSUME NEW w \in Workers, Top(w) \/ Lock(w) \/ Sleep(w) \/ Spurious(w) \/ Resume(w) PROVE IInv'
  BY <1>0, <1>10 DEF Top, Lock, Sleep, Spurious, Resume, Goes, IInv, TypeOK, InUse, Held, Ids
<1>11. ASSUME NEW w \in Workers, Take(w) PROVE IInv'
  <2>1. /\ m_queTaskQueue' = Tail(m_queTaskQueue) /\ m_queTaskQueue # <<>>
        /\ task' = [task EXCEPT ![w] = Head(m_queTaskQueue)] /\ m_lock' = Free
        /\ pc' = [pc EXCEPT ![w] = "work"]
        /\ UNCHANGED <<m_iStop, loop, request, messages, clients, session, written, over>>
    BY <1>11 DEF Take, Popped, Goes
  <2>2. /\ Head(m_queTaskQueue) \in Ids /\ m_queTaskQueue' \in Seq(Ids)
        /\ m_queTaskQueue' \in Seq(Requests) /\ Len(m_queTaskQueue') = Len(m_queTaskQueue) - 1
    BY <1>0, <2>1, TailType DEF InUse, TypeOK
  <2>3. Len(m_queTaskQueue') <= m_iMaxSize + 1
    BY <1>0, <2>1, <2>2, WorkerPoolAssumption DEF TypeOK
  <2> QED BY <1>0, <2>1, <2>2, <2>3 DEF IInv, TypeOK, InUse, Held, Ids
<1>12. ASSUME NEW w \in Workers, Answer(w) \/ DiesSending(w) PROVE IInv'
  <2>1. /\ task[w] \in Ids /\ m_queMsgEvents' = Append(m_queMsgEvents, task[w])
        /\ task' = [task EXCEPT ![w] = None]
        /\ pc' \in {[pc EXCEPT ![w] = "top"], [pc EXCEPT ![w] = "dead"]}
        /\ eventLock' \in {eventLock, w}
        /\ UNCHANGED <<queue, m_iStop, loop, request, clients, session, written, over>>
    BY <1>0, <1>12 DEF Answer, DiesSending, Goes, InUse, Held
  <2>2. m_queMsgEvents' \in Seq(Ids) /\ m_queMsgEvents' \in Seq(Requests)
    BY <1>0, <2>1 DEF InUse, TypeOK
  <2> QED BY <1>0, <2>1, <2>2 DEF IInv, TypeOK, InUse, Held, Ids
<1>13. ASSUME NEW w \in Workers, Fail(w) \/ DiesAsleep(w) \/ DiesAtWork(w) PROVE IInv'
  <2>1. CASE Fail(w)
    BY <1>0, <2>1 DEF Fail, Goes, IInv, TypeOK, InUse, Held, Ids
  <2>2. CASE DiesAsleep(w)
    BY <1>0, <2>2 DEF DiesAsleep, Goes, IInv, TypeOK, InUse, Held, Ids
  <2>3. CASE DiesAtWork(w)
    BY <1>0, <2>3 DEF DiesAtWork, Goes, IInv, TypeOK, InUse, Held, Ids
  <2> QED BY <1>13, <2>1, <2>2, <2>3
<1>14. CASE UNCHANGED vars
  BY <1>0, <1>14 DEF vars, IInv, TypeOK, InUse, Held, Ids
<1> QED
  BY <1>1, <1>2, <1>3, <1>4, <1>5, <1>6, <1>7, <1>8, <1>9, <1>10, <1>11, <1>12, <1>13, <1>14
  DEF Next, LoopStep, Dispatch, Clients, Runs, Locks, Dies

LEMMA IInvAlways == Spec => []IInv
BY InitIInv, IInvNext, PTL DEF Spec

(* The queue never holds more than m_iMaxSize + 1 requests, and everything *)
(* the threads and the loop pass on is a request that was read.            *)
THEOREM TypeCorrect == Spec => []TypeOK
BY IInvAlways, PTL DEF IInv

-----------------------------------------------------------------------------
(* No lost wake-up.                                                        *)
LEMMA ComingFinite == IsFiniteSet(Coming) /\ Cardinality(Coming) \in Nat
BY WorkerPoolAssumption, FS_Subset, FS_CardinalityType DEF Coming

\* A thread that joins those on their way to the queue is one more.
LEMMA OneMoreComing ==
    ASSUME NEW w, w \notin Coming, Coming' = Coming \cup {w}
    PROVE  Cardinality(Coming') = Cardinality(Coming) + 1
BY ComingFinite, FS_AddElement

LEMMA OneLessComing ==
    ASSUME NEW w, w \in Coming, Coming' = Coming \ {w}
    PROVE  Cardinality(Coming') = Cardinality(Coming) - 1
BY ComingFinite, FS_RemoveElement

LEMMA WakeupNext == TypeOK /\ NoIdleWhileQueued /\ [Next]_vars => NoIdleWhileQueued'
<1> SUFFICES ASSUME TypeOK, NoIdleWhileQueued, [Next]_vars, m_iStop' = {}, Asleep' # {}
             PROVE  Len(m_queTaskQueue') <= Cardinality(Coming') + (IF loop' = "signal" THEN 1 ELSE 0)
  BY DEF NoIdleWhileQueued
<1> DEFINE S == IF loop = "signal" THEN 1 ELSE 0
<1>0. /\ Len(m_queTaskQueue) \in Nat /\ Cardinality(Coming) \in Nat /\ S \in {0, 1}
      /\ pc \in [Workers -> {"top", "lock", "test", "asleep", "woken", "work", "dead"}]
      /\ m_iStop = {} /\ Asleep # {} => Len(m_queTaskQueue) <= Cardinality(Coming) + S
  BY ComingFinite DEF TypeOK, NoIdleWhileQueued
<1> USE DEF queue, threads, messages, clients
\* Steps that change neither the queue nor a thread, nor end the signalling.
<1>1. ASSUME UNCHANGED <<m_queTaskQueue, pc>>, m_iStop' = m_iStop, loop = "signal" => loop' = "signal"
      PROVE  Len(m_queTaskQueue') <= Cardinality(Coming') + (IF loop' = "signal" THEN 1 ELSE 0)
  BY <1>0, <1>1 DEF Coming, Asleep
<1>2. CASE Stop
  BY <1>0, <1>2 DEF Stop, Asleep
<1>3. CASE DispatchPush
  <2>1. /\ Len(m_queTaskQueue') = Len(m_queTaskQueue) + 1 /\ loop' = "signal" /\ S = 0
        /\ Coming' = Coming /\ Asleep' = Asleep /\ m_iStop = {}
    BY <1>3 DEF DispatchPush, TypeOK, Coming, Asleep
  <2> QED BY <1>0, <2>1
<1>4. CASE Signal
  <2>1. PICK w \in Asleep : pc' = [pc EXCEPT ![w] = "woken"]
    BY <1>4 DEF Signal, Wakes, Asleep
  <2>2. /\ Coming' = Coming \cup {w} /\ w \notin Coming /\ Asleep # {} /\ S = 1
        /\ m_queTaskQueue' = m_queTaskQueue /\ loop' = "idle" /\ m_iStop = {}
    BY <1>0, <1>4, <2>1 DEF Signal, Coming, Asleep
  <2>3. Cardinality(Coming') = Cardinality(Coming) + 1
    BY <2>2, OneMoreComing
  <2> QED BY <1>0, <2>2, <2>3
<1>5. ASSUME NEW w \in Workers, Top(w) \/ Lock(w) \/ Resume(w)
      PROVE  Len(m_queTaskQueue') <= Cardinality(Coming') + (IF loop' = "signal" THEN 1 ELSE 0)
  <2>1. /\ Coming' = Coming /\ Asleep' = Asleep /\ m_iStop = {}
        /\ m_queTaskQueue' = m_queTaskQueue /\ loop' = loop
    BY <1>0, <1>5 DEF Top, Lock, Resume, Goes, Coming, Asleep
  <2> QED BY <1>0, <2>1
<1>6. ASSUME NEW w \in Workers, Sleep(w)
      PROVE  Len(m_queTaskQueue') <= Cardinality(Coming') + (IF loop' = "signal" THEN 1 ELSE 0)
  <2>1. Len(m_queTaskQueue') = 0
    BY <1>6 DEF Sleep
  <2>2. Cardinality(Coming') \in Nat
    <3>1. Coming' \subseteq Workers
      BY DEF Coming
    <3> QED BY <3>1, WorkerPoolAssumption, FS_Subset, FS_CardinalityType
  <2> QED BY <2>1, <2>2
<1>7. ASSUME NEW w \in Workers, Take(w)
      PROVE  Len(m_queTaskQueue') <= Cardinality(Coming') + (IF loop' = "signal" THEN 1 ELSE 0)
  <2>1. /\ Coming' = Coming \ {w} /\ w \in Coming /\ Asleep' = Asleep /\ m_iStop = {}
        /\ loop' = loop
    BY <1>0, <1>7 DEF Take, Goes, Coming, Asleep
  <2>2. Len(m_queTaskQueue') = Len(m_queTaskQueue) - 1
    BY <1>7, TailType DEF Take, Popped, TypeOK
  <2>3. Cardinality(Coming') = Cardinality(Coming) - 1
    BY <2>1, OneLessComing
  <2> QED BY <1>0, <2>1, <2>2, <2>3
<1>8. ASSUME NEW w \in Workers, Spurious(w) \/ Answer(w) \/ Fail(w)
      PROVE  Len(m_queTaskQueue') <= Cardinality(Coming') + (IF loop' = "signal" THEN 1 ELSE 0)
  <2>1. /\ Coming' = Coming \cup {w} /\ w \notin Coming /\ Asleep # {} /\ m_iStop = {}
        /\ m_queTaskQueue' = m_queTaskQueue /\ loop' = loop
    BY <1>0, <1>8 DEF Spurious, Answer, Fail, Goes, Coming, Asleep
  <2>2. Cardinality(Coming') = Cardinality(Coming) + 1
    BY <2>1, OneMoreComing
  <2> QED BY <1>0, <2>1, <2>2
<1>9. ASSUME NEW w \in Workers, Dies(w) PROVE FALSE
  BY <1>9 DEF Dies, DiesAsleep, DiesAtWork, DiesSending
<1>10. CASE Clients \/ DispatchLock \/ DispatchFull \/ OnMessages \/ MessagesDone
  BY <1>1, <1>10 DEF Clients, Accept, Close, OnRead, DispatchLock, DispatchFull, OnMessages, MessagesDone
<1>11. ASSUME NEW bClose \in BOOLEAN, OnMessage(bClose)
       PROVE  Len(m_queTaskQueue') <= Cardinality(Coming') + (IF loop' = "signal" THEN 1 ELSE 0)
  BY <1>1, <1>11 DEF OnMessage
<1>12. CASE UNCHANGED vars
  BY <1>1, <1>12 DEF vars
<1> QED
  BY <1>2, <1>3, <1>4, <1>5, <1>6, <1>7, <1>8, <1>9, <1>10, <1>11, <1>12
  DEF Next, LoopStep, Dispatch, Runs, Locks

(* While the pool runs, no thread sleeps through a request it is needed    *)
(* for, however many threads and requests there are.                       *)
THEOREM NoLostWakeup == Spec => []NoIdleWhileQueued
<1>1. Init => NoIdleWhileQueued
  BY DEF Init, NoIdleWhileQueued, Asleep
<1> QED BY <1>1, TypeCorrect, WakeupNext, PTL DEF Spec
-----------------------------------------------------------------------------
(* Every request in one place.                                             *)
\* Only who works has a request, only who dispatches; what is over was read.
HandsFree ==
    /\ \A w \in Workers : pc[w] # "work" => task[w] = None
    /\ loop \notin {"lock", "push"} => request = None
    /\ over \subseteq Ids

OneIf(b) == IF b THEN 1 ELSE 0

LEMMA PlacesFinite ==
    ASSUME NEW s \in Seq(Nat), NEW r
    PROVE  IsFiniteSet({i \in DOMAIN s : s[i] = r}) /\ Positions(s, r) \in Nat
<1>1. IsFiniteSet(1 .. Len(s))
  BY FS_Interval
<1>2. {i \in DOMAIN s : s[i] = r} \subseteq 1 .. Len(s)
  OBVIOUS
<1> QED BY <1>1, <1>2, FS_Subset, FS_CardinalityType DEF Positions

LEMMA PositionsAppend ==
    ASSUME NEW s \in Seq(Nat), NEW a \in Nat, NEW r \in Nat
    PROVE  Positions(Append(s, a), r) = Positions(s, r) + OneIf(a = r)
<1> DEFINE P == {i \in DOMAIN s : s[i] = r}
           R == {i \in DOMAIN Append(s, a) : Append(s, a)[i] = r}
<1>1. IsFiniteSet(P) /\ Cardinality(P) \in Nat
  BY PlacesFinite DEF Positions
<1>2. CASE a = r
  <2>1. R = P \cup {Len(s) + 1} /\ Len(s) + 1 \notin P
    BY <1>2
  <2>2. Cardinality(R) = Cardinality(P) + 1
    BY <1>1, <2>1, FS_AddElement
  <2> QED BY <1>2, <2>2 DEF Positions, OneIf
<1>3. CASE a # r
  <2>1. R = P
    BY <1>3
  <2>2. Cardinality(R) = Cardinality(P) + 0
    <3> HIDE DEF P, R
    <3> QED BY <1>1, <2>1
  <2> QED BY <1>3, <2>2 DEF Positions, OneIf
<1> QED BY <1>2, <1>3

LEMMA PositionsTail ==
    ASSUME NEW s \in Seq(Nat), s # <<>>, NEW r \in Nat
    PROVE  Positions(s, r) = Positions(Tail(s), r) + OneIf(Head(s) = r)
<1> DEFINE t == Tail(s)
           P == {i \in DOMAIN t : t[i] = r}
           R == {i \in DOMAIN s : s[i] = r}
           Rest == {i \in DOMAIN s : s[i] = r /\ i # 1}
           Shift == [i \in P |-> i + 1]
<1>1. /\ t \in Seq(Nat) /\ Len(s) \in Nat /\ Len(s) >= 1 /\ Len(t) = Len(s) - 1
      /\ DOMAIN s = 1 .. Len(s) /\ DOMAIN t = 1 .. Len(s) - 1
      /\ \A i \in 1 .. Len(s) - 1 : t[i] = s[i + 1]
  OBVIOUS
<1>2. Shift \in Bijection(P, Rest)
  <2>1. Shift \in [P -> Rest]
    BY <1>1
  <2>2. \A i, j \in P : Shift[i] = Shift[j] => i = j
    <3>1. \A i \in P : i \in Int /\ Shift[i] = i + 1
      BY <1>1
    <3> HIDE DEF P, Shift
    <3> QED BY <3>1
  <2>3. \A k \in Rest : \E i \in P : Shift[i] = k
    <3> SUFFICES ASSUME NEW k \in Rest PROVE k - 1 \in P /\ Shift[k - 1] = k
      OBVIOUS
    <3> QED BY <1>1
  <2> HIDE DEF P, Rest, Shift
  <2> QED BY <2>1, <2>2, <2>3, Fun_IsBij
<1>3. IsFiniteSet(P) /\ IsFiniteSet(R)
  BY <1>1, PlacesFinite
<1>4. IsFiniteSet(Rest) /\ Cardinality(Rest) = Cardinality(P)
  <2> HIDE DEF P, Rest, Shift
  <2>1. ExistsBijection(P, Rest)
    BY <1>2 DEF ExistsBijection
  <2> QED BY <1>3, <2>1, FS_Bijection
<1>5. Cardinality(P) \in Nat
  BY <1>3, FS_CardinalityType
<1>6. CASE Head(s) = r
  <2>1. R = Rest \cup {1} /\ 1 \notin Rest
    BY <1>1, <1>6
  <2>2. Cardinality(R) = Cardinality(Rest) + 1
    BY <1>4, <2>1, FS_AddElement
  <2> QED BY <1>4, <1>6, <2>2 DEF Positions, OneIf
<1>7. CASE Head(s) # r
  <2>1. R = Rest
    BY <1>1, <1>7
  <2>2. Cardinality(R) = Cardinality(P) + 0
    <3> HIDE DEF P, R, Rest
    <3> QED BY <1>4, <1>5, <2>1
  <2> QED BY <1>7, <2>2 DEF Positions, OneIf
<1> QED BY <1>6, <1>7

\* Who works on r.
On(r) == {w \in Workers : task[w] = r}

LEMMA OnFinite == \A r : IsFiniteSet(On(r)) /\ Cardinality(On(r)) \in Nat
BY WorkerPoolAssumption, FS_Subset, FS_CardinalityType DEF On

\* A thread takes up a, or puts down what it had.
Gets(w, a) == task' = [task EXCEPT ![w] = a]
LEMMA OnTaken ==
    ASSUME TypeOK, NEW w \in Workers, task[w] = None, NEW a \in Requests,
           Gets(w, a), NEW r \in Requests
    PROVE  Cardinality(On(r)') = Cardinality(On(r)) + OneIf(a = r)
<1>0. None \notin Requests
  BY WorkerPoolAssumption DEF Requests, None
<1>1. CASE a = r
  <2>1. On(r)' = On(r) \cup {w} /\ w \notin On(r)
    BY <1>0, <1>1 DEF On, TypeOK, Gets
  <2>2. Cardinality(On(r) \cup {w}) = Cardinality(On(r)) + 1
    BY <2>1, OnFinite, FS_AddElement
  <2> QED BY <1>1, <2>1, <2>2 DEF OneIf
<1>2. CASE a # r
  <2>1. On(r)' = On(r)
    BY <1>0, <1>2 DEF On, TypeOK, Gets
  <2> QED BY <1>2, <2>1, OnFinite DEF OneIf
<1> QED BY <1>1, <1>2

LEMMA OnGiven ==
    ASSUME TypeOK, NEW w \in Workers, task[w] \in Requests,
           Gets(w, None), NEW r \in Requests
    PROVE  Cardinality(On(r)) = Cardinality(On(r)') + OneIf(task[w] = r)
<1>0. None \notin Requests
  BY WorkerPoolAssumption DEF Requests, None
<1>1. CASE task[w] = r
  <2>1. On(r)' = On(r) \ {w} /\ w \in On(r)
    BY <1>0, <1>1 DEF On, TypeOK, Gets
  <2>2. Cardinality(On(r) \ {w}) = Cardinality(On(r)) - 1
    BY <2>1, OnFinite, FS_RemoveElement
  <2> QED BY <1>1, <2>1, <2>2, OnFinite DEF OneIf
<1>2. CASE task[w] # r
  <2>1. On(r)' = On(r)
    BY <1>0, <1>2 DEF On, TypeOK, Gets
  <2> QED BY <1>2, <2>1, OnFinite DEF OneIf
<1> QED BY <1>1, <1>2

LEMMA HandsFreeNext == IInv /\ HandsFree /\ [Next]_vars => HandsFree'
<1> SUFFICES ASSUME IInv, HandsFree, [Next]_vars PROVE HandsFree'
  OBVIOUS
<1>0. TypeOK /\ InUse /\ Held /\ Ids \subseteq Requests /\ None \notin Ids /\ Len(session) \in Nat
  BY IdsAreRequests DEF IInv
<1> USE DEF queue, threads, messages, clients
<1>1. ASSUME NEW f \in Fds, Accept(f) \/ Close(f) PROVE HandsFree'
  BY <1>1 DEF Accept, Close, HandsFree, Ids
<1>2. ASSUME NEW f \in Fds, OnRead(f) PROVE HandsFree'
  <2>1. /\ Len(session') = Len(session) + 1 /\ loop' = "lock"
        /\ UNCHANGED <<pc, task, over>>
    BY <1>0, <1>2 DEF OnRead, TypeOK
  <2> QED BY <1>0, <2>1 DEF HandsFree, Ids
<1>3. CASE DispatchLock \/ OnMessages \/ MessagesDone \/ Stop
  BY <1>3 DEF DispatchLock, OnMessages, MessagesDone, Stop, HandsFree, Ids
<1>4. CASE DispatchFull
  <2>1. request \in Ids
    BY <1>0, <1>4 DEF DispatchFull, InUse, Held
  <2> QED BY <1>4, <2>1 DEF DispatchFull, HandsFree, Ids
<1>5. CASE DispatchPush \/ Signal
  BY <1>0, <1>5 DEF DispatchPush, Signal, Wakes, Asleep, HandsFree, Ids, TypeOK
<1>6. ASSUME NEW bClose \in BOOLEAN, OnMessage(bClose) PROVE HandsFree'
  <2>1. Head(m_queMsgEvents) \in Ids
    BY <1>0, <1>6, TailType DEF OnMessage, InUse
  <2>2. /\ over' = over \cup {Head(m_queMsgEvents)}
        /\ UNCHANGED <<pc, task, loop, request, session>>
    BY <1>6 DEF OnMessage
  <2> QED BY <2>1, <2>2 DEF HandsFree, Ids
<1>7. ASSUME NEW w \in Workers, Top(w) \/ Lock(w) \/ Sleep(w) \/ Spurious(w) \/ Resume(w) PROVE HandsFree'
  BY <1>0, <1>7 DEF Top, Lock, Sleep, Spurious, Resume, Goes, HandsFree, Ids, TypeOK
<1>8. ASSUME NEW w \in Workers, Take(w) PROVE HandsFree'
  BY <1>0, <1>8 DEF Take, Goes, HandsFree, Ids, TypeOK
<1>9. ASSUME NEW w \in Workers, Answer(w) \/ DiesSending(w) PROVE HandsFree'
  BY <1>0, <1>9 DEF Answer, DiesSending, Goes, HandsFree, Ids, TypeOK
<1>10. ASSUME NEW w \in Workers, Fail(w) \/ DiesAtWork(w) PROVE HandsFree'
  <2>1. task[w] \in Ids
    BY <1>0, <1>10 DEF Fail, DiesAtWork, Goes, InUse, Held
  <2> QED BY <1>0, <1>10, <2>1 DEF Fail, DiesAtWork, Goes, HandsFree, Ids, TypeOK
<1>11. ASSUME NEW w \in Workers, DiesAsleep(w) PROVE HandsFree'
  BY <1>0, <1>11 DEF DiesAsleep, HandsFree, Ids, TypeOK
<1>12. CASE UNCHANGED vars
  BY <1>12 DEF vars, HandsFree, Ids
<1> QED
  BY <1>1, <1>2, <1>3, <1>4, <1>5, <1>6, <1>7, <1>8, <1>9, <1>10, <1>11, <1>12
  DEF Next, LoopStep, Dispatch, Clients, Runs, Locks, Dies

\* The count of the places r is in, and what every step does to it.
Count(r) ==
    Positions(m_queTaskQueue, r) + Positions(m_queMsgEvents, r) + Cardinality(On(r))
      + OneIf(request = r) + OneIf(r \in over)

LEMMA EachOnceNext == IInv /\ HandsFree /\ EachOnce /\ [Next]_vars => EachOnce'
<1> SUFFICES ASSUME IInv, HandsFree, EachOnce, [Next]_vars PROVE EachOnce'
  OBVIOUS
<1>0. TypeOK /\ InUse /\ Held /\ Ids \subseteq Requests /\ None \notin Ids /\ Len(session) \in Nat
  BY IdsAreRequests DEF IInv
<1>a. Requests \subseteq Nat
  BY WorkerPoolAssumption DEF Requests
<1>b. m_queTaskQueue \in Seq(Nat) /\ m_queMsgEvents \in Seq(Nat)
  BY <1>0, <1>a, SeqSubset DEF TypeOK
<1>c. \A r \in Ids : Count(r) = 1
  BY DEF EachOnce, Count, On, OneIf, Ids
<1>d. \A r : /\ Positions(m_queTaskQueue, r) \in Nat /\ Positions(m_queMsgEvents, r) \in Nat
             /\ Cardinality(On(r)) \in Nat
  BY <1>b, PlacesFinite, OnFinite
<1>e. \A b : OneIf(b) \in {0, 1}
  BY DEF OneIf
<1> SUFFICES ASSUME NEW r \in Ids' PROVE Count(r)' = 1
  BY DEF EachOnce, Count, On, OneIf, Ids
<1> USE DEF queue, threads, messages, clients
\* Steps that move no request.
<1>1. ASSUME UNCHANGED <<m_queTaskQueue, m_queMsgEvents, task, request, over, session>>
      PROVE  Count(r)' = 1
  BY <1>c, <1>1 DEF Count, On, Ids
<1>2. CASE Clients
  <2>1. ASSUME NEW f \in Fds, Accept(f) \/ Close(f) PROVE Count(r)' = 1
    BY <1>1, <2>1 DEF Accept, Close
  <2>2. ASSUME NEW f \in Fds, OnRead(f) PROVE Count(r)' = 1
    <3>1. /\ Len(session') = Len(session) + 1 /\ request = None /\ request' = Len(session) + 1
          /\ UNCHANGED <<m_queTaskQueue, m_queMsgEvents, task, over>>
      BY <1>0, <2>2 DEF OnRead, TypeOK, HandsFree
    <3>2. CASE r \in Ids
      <4>1. r # request' /\ r # request
        BY <1>0, <3>1, <3>2 DEF Ids
      <4>2. Count(r)' = Count(r)
        BY <3>1, <4>1 DEF Count, On, OneIf
      <4> QED BY <1>c, <3>2, <4>2
    <3>3. CASE r \notin Ids
      <4>1. r = request'
        BY <1>0, <3>1, <3>3 DEF Ids
      <4>2. {i \in DOMAIN m_queTaskQueue : m_queTaskQueue[i] = r} = {}
        BY <1>0, <3>3 DEF InUse
      <4>3. {i \in DOMAIN m_queMsgEvents : m_queMsgEvents[i] = r} = {}
        BY <1>0, <3>3 DEF InUse
      <4>4. On(r) = {}
        BY <1>0, <3>1, <3>3, <4>1 DEF InUse, On, None
      <4>5. r \notin over
        BY <3>3 DEF HandsFree
      <4>6. /\ Positions(m_queTaskQueue, r)' = 0 /\ Positions(m_queMsgEvents, r)' = 0
            /\ Cardinality(On(r)') = 0
        BY <3>1, <4>2, <4>3, <4>4, FS_EmptySet DEF Positions, On
      <4>7. OneIf(request = r)' = 1 /\ OneIf(r \in over)' = 0
        BY <3>1, <4>1, <4>5 DEF OneIf
      <4> QED BY <4>6, <4>7 DEF Count
    <3> QED BY <3>2, <3>3
  <2> QED BY <1>2, <2>1, <2>2 DEF Clients
<1>3. CASE DispatchLock \/ Signal \/ OnMessages \/ MessagesDone \/ Stop
  BY <1>1, <1>3 DEF DispatchLock, Signal, OnMessages, MessagesDone, Stop
<1>4. CASE DispatchFull
  <2>1. /\ request \in Ids /\ r \in Ids /\ request' = None /\ over' = over \cup {request}
        /\ UNCHANGED <<m_queTaskQueue, m_queMsgEvents, task>>
    BY <1>0, <1>4 DEF DispatchFull, InUse, Held, Ids
  <2>2. CASE request = r
    <3>1. OneIf(r \in over) = 0
      BY <1>c, <1>d, <1>e, <2>1, <2>2 DEF Count, OneIf
    <3>2. OneIf(r \in over)' = 1 /\ OneIf(request = r)' = 0 /\ OneIf(request = r) = 1
      BY <1>0, <2>1, <2>2 DEF OneIf
    <3> QED BY <1>c, <1>d, <2>1, <3>1, <3>2 DEF Count, On
  <2>3. CASE request # r
    <3>1. OneIf(r \in over)' = OneIf(r \in over) /\ OneIf(request = r)' = OneIf(request = r)
      BY <1>0, <2>1, <2>3 DEF OneIf
    <3> QED BY <1>c, <2>1, <3>1 DEF Count, On
  <2> QED BY <2>2, <2>3
<1>5. CASE DispatchPush
  <2>1. /\ request \in Ids /\ r \in Ids /\ request' = None
        /\ m_queTaskQueue' = Append(m_queTaskQueue, request)
        /\ UNCHANGED <<m_queMsgEvents, task, over>>
    BY <1>0, <1>5 DEF DispatchPush, InUse, Held, Ids
  <2>2. Positions(m_queTaskQueue', r) = Positions(m_queTaskQueue, r) + OneIf(request = r)
    BY <1>0, <1>a, <1>b, <2>1, PositionsAppend
  <2>3. OneIf(request' = r) = 0
    BY <1>0, <2>1 DEF OneIf
  <2> QED BY <1>c, <1>d, <1>e, <2>1, <2>2, <2>3 DEF Count, On
<1>6. ASSUME NEW bClose \in BOOLEAN, OnMessage(bClose) PROVE Count(r)' = 1
  <2> DEFINE h == Head(m_queMsgEvents)
  <2>1. /\ m_queMsgEvents # <<>> /\ r \in Ids /\ over' = over \cup {h}
        /\ m_queMsgEvents' = Tail(m_queMsgEvents)
        /\ UNCHANGED <<m_queTaskQueue, task, request>>
    BY <1>6 DEF OnMessage, Ids
  <2>2. Positions(m_queMsgEvents, r) = Positions(m_queMsgEvents', r) + OneIf(h = r)
    BY <1>0, <1>a, <1>b, <2>1, PositionsTail
  <2>3. m_queMsgEvents' \in Seq(Nat)
    BY <1>b, <2>1, TailType
  <2>4. Positions(m_queMsgEvents', r) \in Nat
    BY <2>3, PlacesFinite
  <2>5. OneIf(r \in over') = OneIf(r \in over) + OneIf(h = r)
    <3>1. CASE h = r
      <4>1. OneIf(h = r) = 1
        BY <3>1 DEF OneIf
      <4>2. Positions(m_queMsgEvents, r) = Positions(m_queMsgEvents', r) + 1
        BY <2>2, <4>1
      <4>3. Count(r) = 1
        BY <1>c, <2>1
      <4>4. /\ OneIf(request = r) \in Nat /\ OneIf(r \in over) \in Nat
            /\ Positions(m_queTaskQueue, r) \in Nat /\ Cardinality(On(r)) \in Nat
        <5>1. \A b : OneIf(b) \in Nat
          BY <1>e
        <5> QED BY <1>d, <5>1
      <4>5. OneIf(r \in over) = 0
        BY <2>4, <4>2, <4>3, <4>4 DEF Count
      <4> QED BY <2>1, <3>1, <4>1, <4>5 DEF OneIf
    <3>2. CASE h # r
      BY <2>1, <3>2 DEF OneIf
    <3> QED BY <3>1, <3>2
  <2> HIDE DEF h
  <2>6. /\ Cardinality(On(r)') = Cardinality(On(r)) /\ OneIf(request' = r) = OneIf(request = r)
        /\ Positions(m_queTaskQueue', r) = Positions(m_queTaskQueue, r)
    BY <2>1 DEF On
  <2>7. OneIf(h = r) \in Nat /\ OneIf(request = r) \in Nat /\ OneIf(r \in over) \in Nat
    BY <1>e
  <2>8. Count(r) = 1
    BY <1>c, <2>1
  <2> QED BY <1>d, <2>2, <2>4, <2>5, <2>6, <2>7, <2>8 DEF Count
<1>7. ASSUME NEW w \in Workers, Top(w) \/ Lock(w) \/ Sleep(w) \/ Spurious(w) \/ Resume(w) \/ DiesAsleep(w)
      PROVE  Count(r)' = 1
  BY <1>1, <1>7 DEF Top, Lock, Sleep, Spurious, Resume, DiesAsleep
<1>8. ASSUME NEW w \in Workers, Take(w) PROVE Count(r)' = 1
  <2> DEFINE h == Head(m_queTaskQueue)
  <2>1. /\ m_queTaskQueue # <<>> /\ r \in Ids /\ task' = [task EXCEPT ![w] = h] /\ task[w] = None
        /\ m_queTaskQueue' = Tail(m_queTaskQueue)
        /\ UNCHANGED <<m_queMsgEvents, request, over>>
    BY <1>8 DEF Take, Popped, Goes, HandsFree, Ids
  <2>2. Positions(m_queTaskQueue, r) = Positions(m_queTaskQueue', r) + OneIf(h = r)
    BY <1>0, <1>a, <1>b, <2>1, PositionsTail
  <2>3. m_queTaskQueue' \in Seq(Nat)
    BY <1>b, <2>1, TailType
  <2>4. Positions(m_queTaskQueue', r) \in Nat
    BY <2>3, PlacesFinite
  <2>5. h \in Requests
    BY <1>0, <2>1, TailType DEF TypeOK
  <2> HIDE DEF h
  <2>6. Cardinality(On(r)') = Cardinality(On(r)) + OneIf(h = r)
    <3>1. TypeOK /\ r \in Requests
      BY <1>0, <2>1 DEF Ids, Requests
    <3>2. task[w] = None /\ Gets(w, h)
      BY <2>1 DEF h, Gets
    <3> QED BY <2>5, <3>1, <3>2, OnTaken
  <2>7. OneIf(h = r) \in Nat /\ OneIf(request = r) \in Nat /\ OneIf(r \in over) \in Nat
    BY <1>e
  <2>8. Count(r) = 1
    BY <1>c, <2>1
  <2> QED BY <1>d, <2>1, <2>2, <2>4, <2>6, <2>7, <2>8 DEF Count
<1>9. ASSUME NEW w \in Workers, Answer(w) \/ DiesSending(w) PROVE Count(r)' = 1
  <2>1. /\ task[w] \in Ids /\ r \in Ids /\ task' = [task EXCEPT ![w] = None]
        /\ m_queMsgEvents' = Append(m_queMsgEvents, task[w])
        /\ UNCHANGED <<m_queTaskQueue, request, over>>
    BY <1>0, <1>9 DEF Answer, DiesSending, Goes, InUse, Held, Ids
  <2>a. task[w] \in Nat /\ r \in Nat
    BY <1>0, <1>a, <2>1
  <2>2. Positions(m_queMsgEvents', r) = Positions(m_queMsgEvents, r) + OneIf(task[w] = r)
    <3>1. \A a, b \in Nat : Positions(Append(m_queMsgEvents, a), b)
                               = Positions(m_queMsgEvents, b) + OneIf(a = b)
      BY <1>b, PositionsAppend
    <3>2. Positions(Append(m_queMsgEvents, task[w]), r)
            = Positions(m_queMsgEvents, r) + OneIf(task[w] = r)
      BY <2>a, <3>1
    <3> QED BY <2>1, <3>2
  <2>3. Cardinality(On(r)) = Cardinality(On(r)') + OneIf(task[w] = r)
    <3>1. TypeOK /\ r \in Requests /\ task[w] \in Requests
      BY <1>0, <2>1 DEF Ids, Requests
    <3>2. Gets(w, None)
      BY <2>1 DEF Gets
    <3> QED BY <3>1, <3>2, OnGiven
  <2>4. Cardinality(On(r)') \in Nat
    <3>1. On(r)' \subseteq Workers
      BY DEF On
    <3> QED BY <3>1, WorkerPoolAssumption, FS_Subset, FS_CardinalityType
  <2>5. /\ OneIf(request' = r) = OneIf(request = r) /\ OneIf(r \in over') = OneIf(r \in over)
        /\ Positions(m_queTaskQueue', r) = Positions(m_queTaskQueue, r)
    BY <2>1
  <2>6. OneIf(task[w] = r) \in Nat /\ OneIf(request = r) \in Nat /\ OneIf(r \in over) \in Nat
    BY <1>e
  <2>7. Count(r) = 1
    BY <1>c, <2>1
  <2> QED BY <1>d, <2>2, <2>3, <2>4, <2>5, <2>6, <2>7 DEF Count
<1>10. ASSUME NEW w \in Workers, Fail(w) \/ DiesAtWork(w) PROVE Count(r)' = 1
  <2>1. /\ task[w] \in Ids /\ r \in Ids /\ task' = [task EXCEPT ![w] = None]
        /\ over' = over \cup {task[w]}
        /\ UNCHANGED <<m_queTaskQueue, m_queMsgEvents, request>>
    BY <1>0, <1>10 DEF Fail, DiesAtWork, Goes, InUse, Held, Ids
  <2>2. Cardinality(On(r)) = Cardinality(On(r)') + OneIf(task[w] = r)
    <3>1. TypeOK /\ r \in Requests /\ task[w] \in Requests
      BY <1>0, <2>1 DEF Ids, Requests
    <3>2. Gets(w, None)
      BY <2>1 DEF Gets
    <3> QED BY <3>1, <3>2, OnGiven
  <2>3. Cardinality(On(r)') \in Nat
    <3>1. On(r)' \subseteq Workers
      BY DEF On
    <3> QED BY <3>1, WorkerPoolAssumption, FS_Subset, FS_CardinalityType
  <2>4. OneIf(r \in over') = OneIf(r \in over) + OneIf(task[w] = r)
    <3>1. CASE task[w] = r
      <4>1. OneIf(task[w] = r) = 1
        BY <3>1 DEF OneIf
      <4>2. OneIf(r \in over) = 0
        BY <1>c, <1>d, <1>e, <2>1, <2>2, <2>3, <4>1 DEF Count
      <4> QED BY <2>1, <3>1, <4>1, <4>2 DEF OneIf
    <3>2. CASE task[w] # r
      BY <2>1, <3>2 DEF OneIf
    <3> QED BY <3>1, <3>2
  <2> QED BY <1>c, <1>d, <1>e, <2>1, <2>2, <2>3, <2>4 DEF Count
<1>11. CASE UNCHANGED vars
  BY <1>1, <1>11 DEF vars
<1> QED
  BY <1>2, <1>3, <1>4, <1>5, <1>6, <1>7, <1>8, <1>9, <1>10, <1>11
  DEF Next, LoopStep, Dispatch, Runs, Locks, Dies

(* However many threads there are and however requests, answers, failures  *)
(* and cancelled threads interleave, a request that was read is in one     *)
(* place exactly: it is never worked on twice, nor answered twice.         *)
THEOREM RequestsInOnePlace == Spec => []EachOnce
<1>1. Init => HandsFree /\ EachOnce
  BY DEF Init, HandsFree, EachOnce
<1> QED BY <1>1, IInvAlways, HandsFreeNext, EachOnceNext, PTL DEF Spec
=============================================================================
