-------------------------- MODULE NetWorkerProofs --------------------------
(***************************************************************************)
(* Proofs about NetWorker, for any number of workers, descriptors and      *)
(* connections and any size of the rings: a client has one owner, a worker *)
(* never reads for a descriptor without a client, and no client waits in a *)
(* ring without a wake-up under way.                                       *)
(***************************************************************************)
EXTENDS NetWorker, SequenceTheorems, TLAPS

LEMMA ConstantFacts ==
    /\ N \in Nat \ {0} /\ NoWorker \notin Workers /\ Workers \subseteq Nat
    /\ Null \notin Conns /\ Event \notin Fds /\ MaxConns \in Nat
BY NetWorkerAssumption DEF NoWorker, Workers, Null, Conns

LEMMA FollowingIsWorker ==
    ASSUME NEW w \in Workers
    PROVE  Following(w) \in Workers
BY ConstantFacts DEF Following, Workers

\* A worker calls back for a descriptor of a client.
AtClient == \A w \in Workers : pc[w] = "connect" => at[w] \in Fds

-----------------------------------------------------------------------------
LEMMA InitType == Init => TypeOK /\ AtClient
<1>. SUFFICES ASSUME Init PROVE TypeOK /\ AtClient
  OBVIOUS
<1>1. \A w \in Workers : Len(m_queConn[w]) <= QueueSize /\ m_queConn[w] \in Seq(Entry)
  BY NetWorkerAssumption, EmptySeq DEF Init
<1>. QED
  BY <1>1, ConstantFacts, NetWorkerAssumption DEF Init, TypeOK, AtClient, Null

LEMMA CloseType ==
    ASSUME TypeOK, NEW w \in Workers, NEW f \in Fds, Close(w, f)
    PROVE  /\ m_vecClients' \in [Workers -> [Fds -> Conns \cup {Null}]]
           /\ events' \in [Workers -> SUBSET Fds] /\ interest' \in [Workers -> SUBSET Fds]
           /\ conn' \in [Fds -> Conns \cup {Null}]
BY DEF TypeOK, Close

LEMMA EnqueType ==
    ASSUME TypeOK, NEW f \in Fds, AcceptEnque(f)
    PROVE  /\ accepted' \in Conns /\ Following(m_dwClientNum) \in Workers
           /\ <<f, accepted'>> \in Entry
           /\ m_queConn' \in [Workers -> Seq(Entry)]
           /\ \A v \in Workers : Len(m_queConn'[v]) <= QueueSize
<1>. USE DEF TypeOK
<1>1. accepted' \in Conns /\ Following(m_dwClientNum) \in Workers /\ <<f, accepted'>> \in Entry
  <2>1. accepted' = accepted + 1 /\ accepted < MaxConns
    BY DEF AcceptEnque, Accept
  <2>2. accepted' \in Conns
    BY <2>1, ConstantFacts DEF Conns
  <2>. QED  BY <2>2, FollowingIsWorker DEF Entry
<1>. DEFINE w == Following(m_dwClientNum)
            q == Append(m_queConn[w], <<f, accepted'>>)
<1>2. m_queConn' = [m_queConn EXCEPT ![w] = q]
  BY DEF AcceptEnque
<1>3. q \in Seq(Entry) /\ Len(q) = Len(m_queConn[w]) + 1
  BY <1>1, AppendProperties
<1>4. Len(m_queConn[w]) # QueueSize /\ Len(m_queConn[w]) \in Nat
  BY <1>1, LenProperties DEF AcceptEnque, RingFull
<1>5. w \in Workers /\ Len(q) <= QueueSize
  BY <1>1, <1>3, <1>4, NetWorkerAssumption
<1>. HIDE DEF q, w
<1>6. m_queConn' \in [Workers -> Seq(Entry)]
  BY <1>2, <1>3, <1>5
<1>7. \A v \in Workers : Len(m_queConn'[v]) <= QueueSize
  BY <1>2, <1>5
<1>. QED  BY <1>1, <1>6, <1>7 DEF w

LEMMA DequeType ==
    ASSUME TypeOK, NEW w \in Workers, Deque(w)
    PROVE  /\ Head(m_queConn[w]) \in Entry
           /\ m_queConn' \in [Workers -> Seq(Entry)]
           /\ \A v \in Workers : Len(m_queConn'[v]) <= QueueSize
<1>. USE DEF TypeOK
<1>1. m_queConn[w] \in Seq(Entry) /\ m_queConn[w] # <<>>
  BY DEF Deque
<1>2. /\ Head(m_queConn[w]) \in Entry /\ Tail(m_queConn[w]) \in Seq(Entry)
      /\ Len(Tail(m_queConn[w])) = Len(m_queConn[w]) - 1
  BY <1>1, HeadTailProperties
<1>3. m_queConn' = [m_queConn EXCEPT ![w] = Tail(m_queConn[w])]
  BY DEF Deque
<1>. QED  BY <1>1, <1>2, <1>3, LenProperties, NetWorkerAssumption

LEMMA TypeNext == TypeOK /\ AtClient /\ [Next]_vars => (TypeOK /\ AtClient)'
<1>. SUFFICES ASSUME TypeOK, AtClient, [Next]_vars PROVE (TypeOK /\ AtClient)'
  OBVIOUS
<1>. USE ConstantFacts DEF TypeOK, AtClient
<1>1. CASE Notify
  BY <1>1, SMTT(30) DEF Notify, tables, loops
<1>2. ASSUME NEW f \in Fds, AcceptReject(f) PROVE (TypeOK /\ AtClient)'
  BY <1>2 DEF AcceptReject, Accept, tables, loops
<1>3. ASSUME NEW f \in Fds, AcceptEnque(f) PROVE (TypeOK /\ AtClient)'
  <2>1. /\ accepted' = accepted + 1 /\ accepted < MaxConns
        /\ m_dwClientNum' = Following(m_dwClientNum)
        /\ notify' = Following(m_dwClientNum)
        /\ conn' = [conn EXCEPT ![f] = accepted']
        /\ UNCHANGED <<counter, tables, loops, gone, refusals>>
    BY <1>3 DEF AcceptEnque, Accept
  <2>2. accepted' \in 0 .. MaxConns /\ conn' \in [Fds -> Conns \cup {Null}]
    <3>1. accepted' \in Conns
      BY <1>3, EnqueType
    <3>2. conn' \in [Fds -> Conns \cup {Null}]
      BY <2>1, <3>1
    <3>. QED  BY <3>1, <3>2 DEF Conns
  <2>3. m_dwClientNum' \in Workers /\ notify' \in Workers \cup {NoWorker}
    BY <1>3, <2>1, EnqueType
  <2>4. UNCHANGED <<counter, m_vecClients, events, interest, batch, pc, at, gone, refusals>>
    BY <2>1 DEF tables, loops
  <2>5. m_queConn' \in [Workers -> Seq(Entry)] /\ \A v \in Workers : Len(m_queConn'[v]) <= QueueSize
    BY <1>3, EnqueType
  <2>. QED  BY <2>2, <2>3, <2>4, <2>5
<1>4. ASSUME NEW f \in Fds, AcceptFull(f) PROVE (TypeOK /\ AtClient)'
  BY <1>4, FollowingIsWorker DEF AcceptFull, Accept, tables, loops
<1>5. ASSUME NEW w \in Workers, Poll(w) PROVE (TypeOK /\ AtClient)'
  <2>1. Readable(w) \subseteq Fds \cup {Event}
    BY DEF Readable
  <2>2. batch' \in [Workers -> SUBSET (Fds \cup {Event})]
    BY <1>5, <2>1 DEF Poll
  <2>. QED  BY <1>5, <2>2 DEF Poll, manager, tables
<1>6. ASSUME NEW w \in Workers, OnEvent(w) PROVE (TypeOK /\ AtClient)'
  BY <1>6 DEF OnEvent, Handle, GoTo, manager, tables
<1>7. ASSUME NEW w \in Workers, Deque(w) PROVE (TypeOK /\ AtClient)'
  <2>1. Head(m_queConn[w])[1] \in Fds /\ Head(m_queConn[w])[2] \in Conns
    BY <1>7, DequeType DEF Entry
  <2>2. m_vecClients' \in [Workers -> [Fds -> Conns \cup {Null}]]
    BY <1>7, <2>1 DEF Deque
  <2>3. pc' \in [Workers -> {"loop", "drain", "connect", "read"}] /\ at' \in [Workers -> Fds \cup {Event}] /\ AtClient'
    BY <1>7, <2>1 DEF Deque, GoTo
  <2>4. UNCHANGED <<manager, counter, events, interest, batch, conn, gone, refusals>>
    BY <1>7 DEF Deque
  <2>. QED  BY <1>7, <2>2, <2>3, <2>4, DequeType DEF manager
<1>8. ASSUME NEW w \in Workers, ReturnConnect(w) PROVE (TypeOK /\ AtClient)'
  <2>1. at[w] \in Fds
    BY <1>8 DEF ReturnConnect
  <2>2. events' \in [Workers -> SUBSET Fds] /\ interest' \in [Workers -> SUBSET Fds]
    BY <1>8, <2>1, SMTT(30) DEF ReturnConnect
  <2>3. refusals' \in 0 .. MaxRefusals
    BY <1>8, NetWorkerAssumption DEF ReturnConnect
  <2>. QED  BY <1>8, <2>2, <2>3 DEF ReturnConnect, GoTo, manager
<1>9. ASSUME NEW w \in Workers, DrainDone(w) PROVE (TypeOK /\ AtClient)'
  BY <1>9 DEF DrainDone, GoTo, manager, tables
<1>10. ASSUME NEW w \in Workers, ReturnRead(w) PROVE (TypeOK /\ AtClient)'
  BY <1>10 DEF ReturnRead, GoTo, manager, tables
<1>11. ASSUME NEW w \in Workers, NEW f \in Fds, ReadSkipped(w, f) PROVE (TypeOK /\ AtClient)'
  BY <1>11 DEF ReadSkipped, Handle, manager, tables
<1>12. ASSUME NEW w \in Workers, NEW f \in Fds, Read(w, f) PROVE (TypeOK /\ AtClient)'
  BY <1>12 DEF Read, Handle, GoTo, manager, tables
<1>13. ASSUME NEW w \in Workers, NEW f \in Fds, ReadCloses(w, f) PROVE (TypeOK /\ AtClient)'
  BY <1>13, CloseType DEF ReadCloses, Handle, manager
<1>14. ASSUME NEW w \in Workers, NEW f \in Fds, AppClose(w, f) PROVE (TypeOK /\ AtClient)'
  BY <1>14, CloseType DEF AppClose, manager, loops
<1>15. ASSUME NEW c \in Conns, PeerCloses(c) PROVE (TypeOK /\ AtClient)'
  BY <1>15 DEF PeerCloses, manager, tables, loops
<1>16. CASE UNCHANGED vars
  BY <1>16 DEF vars, manager, tables, loops
<1>. QED
  BY <1>1, <1>2, <1>3, <1>4, <1>5, <1>6, <1>7, <1>8, <1>9, <1>10, <1>11, <1>12,
     <1>13, <1>14, <1>15, <1>16 DEF Next, Manager, Worker

LEMMA TypeAlways == Spec => [](TypeOK /\ AtClient)
BY InitType, TypeNext, PTL DEF Spec

(* The variables hold what they are declared to hold.                      *)
THEOREM TypeCorrect == Spec => []TypeOK
BY TypeAlways, PTL
-----------------------------------------------------------------------------
(* What WakeupPending depends on: a step that changes none of it preserves *)
(* it, and so does one that only makes a worker start on its ring.         *)
wakeup == <<notify, m_queConn, counter, pc>>

LEMMA WakeupNext == TypeOK /\ WakeupPending /\ [Next]_vars => WakeupPending'
<1>. SUFFICES ASSUME TypeOK, WakeupPending, [Next]_vars PROVE WakeupPending'
  OBVIOUS
<1>. USE ConstantFacts DEF TypeOK, WakeupPending
<1>1. CASE UNCHANGED wakeup
  BY <1>1 DEF wakeup
<1>2. CASE Notify
  BY <1>2 DEF Notify, loops
<1>3. ASSUME NEW f \in Fds, AcceptEnque(f) PROVE WakeupPending'
  <2>1. Following(m_dwClientNum) \in Workers
    BY FollowingIsWorker
  <2>. QED  BY <1>3, <2>1 DEF AcceptEnque, Accept, loops
<1>4. ASSUME NEW w \in Workers, OnEvent(w) PROVE WakeupPending'
  BY <1>4 DEF OnEvent, Handle, GoTo, manager
<1>5. ASSUME NEW w \in Workers, Deque(w) PROVE WakeupPending'
  BY <1>5 DEF Deque, GoTo, manager
<1>6. ASSUME NEW w \in Workers, ReturnConnect(w) PROVE WakeupPending'
  BY <1>6 DEF ReturnConnect, GoTo, manager
<1>7. ASSUME NEW w \in Workers, DrainDone(w) PROVE WakeupPending'
  BY <1>7 DEF DrainDone, GoTo, manager
<1>8. ASSUME NEW w \in Workers, ReturnRead(w) PROVE WakeupPending'
  BY <1>8 DEF ReturnRead, GoTo, manager
<1>9. ASSUME NEW w \in Workers, NEW f \in Fds, Read(w, f) PROVE WakeupPending'
  BY <1>9 DEF Read, Handle, GoTo, manager
<1>10. ASSUME NEW f \in Fds, AcceptReject(f) \/ AcceptFull(f) PROVE UNCHANGED wakeup
  BY <1>10 DEF AcceptReject, AcceptFull, wakeup, loops
<1>11. ASSUME NEW w \in Workers, NEW f \in Fds, ReadSkipped(w, f) \/ ReadCloses(w, f) \/ AppClose(w, f)
       PROVE  UNCHANGED wakeup
  BY <1>11 DEF ReadSkipped, ReadCloses, AppClose, wakeup, manager, loops
<1>12. ASSUME NEW w \in Workers, Poll(w) PROVE UNCHANGED wakeup
  BY <1>12 DEF Poll, wakeup, manager
<1>13. ASSUME NEW c \in Conns, PeerCloses(c) PROVE UNCHANGED wakeup
  BY <1>13 DEF PeerCloses, wakeup, manager, loops
<1>14. CASE UNCHANGED vars
  BY <1>1, <1>14 DEF vars, wakeup, manager, loops
<1>. QED
  BY <1>1, <1>2, <1>3, <1>4, <1>5, <1>6, <1>7, <1>8, <1>9, <1>10, <1>11, <1>12,
     <1>13, <1>14 DEF Next, Manager, Worker

(* No client waits in a ring while nobody is going to wake its worker.     *)
THEOREM NoLostWakeup == Spec => []WakeupPending
<1>1. Init => WakeupPending
  BY DEF Init, WakeupPending
<1>. QED  BY <1>1, WakeupNext, TypeCorrect, PTL DEF Spec
-----------------------------------------------------------------------------
(***************************************************************************)
(* Ownership.  NoNullClient is not inductive: that a closed descriptor,    *)
(* accepted again, meets no stale client or ring entry depends on each     *)
(* being in one place only and standing for the descriptor's connection.   *)
(***************************************************************************)
ClientIsCurrent ==
    \A w \in Workers : \A f \in Fds : m_vecClients[w][f] # Null => m_vecClients[w][f] = conn[f]
QueuedIsCurrent ==
    \A w \in Workers : \A i \in DOMAIN m_queConn[w] :
        conn[m_queConn[w][i][1]] = m_queConn[w][i][2]
OneTable ==
    \A w, v \in Workers : \A f \in Fds :
        m_vecClients[w][f] # Null /\ m_vecClients[v][f] # Null => w = v
NotInBoth ==
    \A w, v \in Workers : \A i \in DOMAIN m_queConn[w] :
        m_vecClients[v][m_queConn[w][i][1]] = Null
OncePerRing ==
    \A w, v \in Workers : \A i \in DOMAIN m_queConn[w] : \A j \in DOMAIN m_queConn[v] :
        m_queConn[w][i][1] = m_queConn[v][j][1] => w = v /\ i = j
EventsHaveClient ==
    \A w \in Workers : \A f \in events[w] : m_vecClients[w][f] # Null
InTable(f) == \E w \in Workers : m_vecClients[w][f] # Null
InRing(f) == \E w \in Workers : \E i \in DOMAIN m_queConn[w] : m_queConn[w][i][1] = f
Placed == \A f \in Fds : conn[f] # Null => InTable(f) \/ InRing(f)

Owned ==
    /\ ClientIsCurrent /\ QueuedIsCurrent /\ OneTable /\ NotInBoth /\ OncePerRing
    /\ EventsHaveClient /\ Placed

\* What ownership is about, and the steps that change any of it.
owners == <<m_queConn, m_vecClients, events, conn>>

LEMMA OwnerSteps ==
    ASSUME [Next]_vars
    PROVE  \/ UNCHANGED owners
           \/ \E f \in Fds : AcceptEnque(f)
           \/ \E w \in Workers : Deque(w) \/ ReturnConnect(w)
           \/ \E w \in Workers : \E f \in Fds :
                 /\ Close(w, f) /\ UNCHANGED m_queConn
                 /\ f \in events[w] \/ m_vecClients[w][f] # Null
BY DEF Next, Manager, Worker, vars, owners, manager, tables, loops, Notify, AcceptReject,
       AcceptFull, Poll, OnEvent, DrainDone, ReturnRead, ReadSkipped, Read, ReadCloses,
       AppClose, PeerCloses, Handle

LEMMA EntryTypes ==
    ASSUME TypeOK, NEW w \in Workers, NEW i \in DOMAIN m_queConn[w]
    PROVE  m_queConn[w][i][1] \in Fds /\ m_queConn[w][i][2] \in Conns
BY LenProperties DEF TypeOK, Entry

\* The entry that AcceptEnque adds, and the entries that stay where they were.
LEMMA EnqueEntries ==
    ASSUME TypeOK, NEW f \in Fds, AcceptEnque(f)
    PROVE  LET w == Following(m_dwClientNum)  n == Len(m_queConn[w]) + 1 IN
           /\ w \in Workers
           /\ \A v \in Workers : v # w => m_queConn'[v] = m_queConn[v]
           /\ DOMAIN m_queConn'[w] = DOMAIN m_queConn[w] \cup {n}
           /\ n \notin DOMAIN m_queConn[w]
           /\ m_queConn'[w][n] = <<f, accepted'>>
           /\ \A i \in DOMAIN m_queConn[w] : m_queConn'[w][i] = m_queConn[w][i]
<1>. DEFINE w == Following(m_dwClientNum)
            e == <<f, accepted'>>
<1>1. w \in Workers /\ e \in Entry
  BY EnqueType
<1>2. m_queConn' = [m_queConn EXCEPT ![w] = Append(m_queConn[w], e)]
  BY DEF AcceptEnque
<1>. HIDE DEF w, e
<1>3. m_queConn[w] \in Seq(Entry)
  BY <1>1 DEF TypeOK
<1>4. /\ Len(m_queConn[w]) \in Nat /\ DOMAIN m_queConn[w] = 1 .. Len(m_queConn[w])
      /\ DOMAIN Append(m_queConn[w], e) = 1 .. Len(m_queConn[w]) + 1
      /\ Append(m_queConn[w], e)[Len(m_queConn[w]) + 1] = e
      /\ \A i \in 1 .. Len(m_queConn[w]) : Append(m_queConn[w], e)[i] = m_queConn[w][i]
  BY <1>1, <1>3, AppendProperties, LenProperties
<1>5. m_queConn'[w] = Append(m_queConn[w], e) /\ \A v \in Workers : v # w => m_queConn'[v] = m_queConn[v]
  BY <1>1, <1>2 DEF TypeOK
<1>. QED  BY <1>1, <1>4, <1>5 DEF w, e

\* Deque takes the first entry away and moves the others up.
LEMMA DequeEntries ==
    ASSUME TypeOK, NEW w \in Workers, Deque(w)
    PROVE  /\ \A v \in Workers : v # w => m_queConn'[v] = m_queConn[v]
           /\ 1 \in DOMAIN m_queConn[w] /\ Head(m_queConn[w]) = m_queConn[w][1]
           /\ \A i \in DOMAIN m_queConn'[w] :
                i + 1 \in DOMAIN m_queConn[w] /\ i + 1 # 1 /\ i \in Nat
                    /\ m_queConn'[w][i] = m_queConn[w][i + 1]
           /\ \A i \in DOMAIN m_queConn[w] :
                i # 1 => i - 1 \in DOMAIN m_queConn'[w] /\ m_queConn'[w][i - 1] = m_queConn[w][i]
<1>1. m_queConn[w] \in Seq(Entry) /\ m_queConn[w] # <<>>
  BY DEF TypeOK, Deque
<1>2. m_queConn'[w] = Tail(m_queConn[w]) /\ \A v \in Workers : v # w => m_queConn'[v] = m_queConn[v]
  BY DEF TypeOK, Deque
<1>3. /\ Len(m_queConn[w]) \in Nat /\ Len(m_queConn[w]) > 0
      /\ DOMAIN m_queConn[w] = 1 .. Len(m_queConn[w])
  BY <1>1, LenProperties, EmptySeq
<1>4. /\ Tail(m_queConn[w]) \in Seq(Entry) /\ Len(Tail(m_queConn[w])) = Len(m_queConn[w]) - 1
      /\ \A i \in 1 .. Len(m_queConn[w]) - 1 : Tail(m_queConn[w])[i] = m_queConn[w][i + 1]
      /\ Head(m_queConn[w]) = m_queConn[w][1]
  BY <1>1, HeadTailProperties
<1>5. DOMAIN Tail(m_queConn[w]) = 1 .. Len(m_queConn[w]) - 1
  BY <1>4, LenProperties
<1>. QED  BY <1>2, <1>3, <1>4, <1>5
LEMMA EnqueOwned ==
    ASSUME TypeOK, Owned, NEW f \in Fds, AcceptEnque(f)
    PROVE  Owned'
<1>. USE DEF Owned
<1>. DEFINE w == Following(m_dwClientNum)
            n == Len(m_queConn[w]) + 1
<1>1. /\ w \in Workers
      /\ \A v \in Workers : v # w => m_queConn'[v] = m_queConn[v]
      /\ DOMAIN m_queConn'[w] = DOMAIN m_queConn[w] \cup {n}
      /\ n \notin DOMAIN m_queConn[w]
      /\ m_queConn'[w][n] = <<f, accepted'>>
      /\ \A i \in DOMAIN m_queConn[w] : m_queConn'[w][i] = m_queConn[w][i]
  BY EnqueEntries
<1>. HIDE DEF w, n
<1>2. conn[f] = Null /\ conn' = [conn EXCEPT ![f] = accepted'] /\ accepted' \in Conns
  BY EnqueType DEF AcceptEnque, Accept
<1>3. UNCHANGED <<m_vecClients, events>>
  BY DEF AcceptEnque, tables
<1>4. \A v \in Workers : m_vecClients[v][f] = Null
  BY <1>2 DEF ClientIsCurrent
<1>5. \A v \in Workers : \A i \in DOMAIN m_queConn[v] : m_queConn[v][i][1] # f
  BY <1>2, EntryTypes, ConstantFacts DEF QueuedIsCurrent
<1>6. \A v \in Workers : \A i \in DOMAIN m_queConn'[v] :
        \/ i \in DOMAIN m_queConn[v] /\ m_queConn'[v][i] = m_queConn[v][i]
        \/ v = w /\ i = n /\ m_queConn'[v][i] = <<f, accepted'>>
  BY <1>1
<1>7. \A g \in Fds : conn'[g] = IF g = f THEN accepted' ELSE conn[g]
  BY <1>2 DEF TypeOK
<1>8. ClientIsCurrent'
  BY <1>3, <1>4, <1>7 DEF ClientIsCurrent
<1>9. QueuedIsCurrent'
  BY <1>5, <1>6, <1>7, EntryTypes DEF QueuedIsCurrent
<1>10. OneTable' /\ EventsHaveClient'
  BY <1>3 DEF OneTable, EventsHaveClient
<1>11. NotInBoth'
  BY <1>3, <1>4, <1>6 DEF NotInBoth
<1>12. OncePerRing'
  BY <1>5, <1>6 DEF OncePerRing
<1>13. Placed'
  <2>1. InRing(f)'
    BY <1>1 DEF InRing
  <2>2. \A g \in Fds : InRing(g) => InRing(g)'
    BY <1>1 DEF InRing
  <2>3. \A g \in Fds : InTable(g) => InTable(g)'
    BY <1>3 DEF InTable
  <2>. QED  BY <1>7, <2>1, <2>2, <2>3 DEF Placed
<1>. QED  BY <1>8, <1>9, <1>10, <1>11, <1>12, <1>13

LEMMA DequeOwned ==
    ASSUME TypeOK, Owned, NEW w \in Workers, Deque(w)
    PROVE  Owned'
<1>. USE DEF Owned
<1>1. /\ \A v \in Workers : v # w => m_queConn'[v] = m_queConn[v]
      /\ 1 \in DOMAIN m_queConn[w] /\ Head(m_queConn[w]) = m_queConn[w][1]
      /\ \A i \in DOMAIN m_queConn'[w] :
            i + 1 \in DOMAIN m_queConn[w] /\ i + 1 # 1 /\ i \in Nat
                /\ m_queConn'[w][i] = m_queConn[w][i + 1]
      /\ \A i \in DOMAIN m_queConn[w] :
            i # 1 => i - 1 \in DOMAIN m_queConn'[w] /\ m_queConn'[w][i - 1] = m_queConn[w][i]
  BY DequeEntries
<1>2. PICK f \in Fds, c \in Conns : m_queConn[w][1][1] = f /\ m_queConn[w][1][2] = c
  BY <1>1, EntryTypes
<1>3. m_vecClients' = [m_vecClients EXCEPT ![w][f] = c] /\ UNCHANGED <<events, conn>>
  BY <1>1, <1>2 DEF Deque
<1>4. conn[f] = c /\ c # Null
  BY <1>1, <1>2, ConstantFacts DEF QueuedIsCurrent
<1>5. \A v \in Workers : m_vecClients[v][f] = Null
  BY <1>1, <1>2 DEF NotInBoth
<1>6. \A v \in Workers : \A i \in DOMAIN m_queConn'[v] : m_queConn'[v][i][1] # f
  <2>1. SUFFICES ASSUME NEW v \in Workers, NEW i \in DOMAIN m_queConn'[v]
                 PROVE  m_queConn'[v][i][1] # f
    OBVIOUS
  <2>2. CASE v = w
    BY <1>1, <1>2, <2>2 DEF OncePerRing
  <2>3. CASE v # w
    BY <1>1, <1>2, <2>3 DEF OncePerRing
  <2>. QED  BY <2>2, <2>3
<1>7. \A v \in Workers : \A g \in Fds :
        m_vecClients'[v][g] = IF v = w /\ g = f THEN c ELSE m_vecClients[v][g]
  BY <1>2, <1>3 DEF TypeOK
<1>8. \A v \in Workers : \A i \in DOMAIN m_queConn'[v] :
        \E j \in DOMAIN m_queConn[v] : m_queConn'[v][i] = m_queConn[v][j]
  BY <1>1
<1>9. ClientIsCurrent'
  BY <1>3, <1>4, <1>7 DEF ClientIsCurrent
<1>10. QueuedIsCurrent'
  BY <1>3, <1>8 DEF QueuedIsCurrent
<1>11. OneTable'
  BY <1>5, <1>7 DEF OneTable
<1>12. NotInBoth'
  BY <1>6, <1>7, <1>8, EntryTypes DEF NotInBoth
<1>13. OncePerRing'
  <2>1. SUFFICES ASSUME NEW u \in Workers, NEW v \in Workers,
                        NEW i \in DOMAIN m_queConn'[u], NEW j \in DOMAIN m_queConn'[v],
                        m_queConn'[u][i][1] = m_queConn'[v][j][1]
                 PROVE  u = v /\ i = j
    BY DEF OncePerRing
  <2>2. CASE u = w /\ v = w
    <3>1. i + 1 = j + 1 /\ i \in Nat /\ j \in Nat
      BY <1>1, <2>1, <2>2 DEF OncePerRing
    <3>. QED  BY <2>2, <3>1
  <2>3. CASE u = w /\ v # w
    BY <1>1, <2>1, <2>3 DEF OncePerRing
  <2>4. CASE u # w /\ v = w
    BY <1>1, <2>1, <2>4 DEF OncePerRing
  <2>5. CASE u # w /\ v # w
    BY <1>1, <2>1, <2>5 DEF OncePerRing
  <2>. QED  BY <2>2, <2>3, <2>4, <2>5
<1>14. EventsHaveClient'
  BY <1>3, <1>4, <1>7 DEF EventsHaveClient, TypeOK
<1>15. Placed'
  <2>1. InTable(f)'
    BY <1>4, <1>7 DEF InTable
  <2>2. \A g \in Fds : InTable(g) => InTable(g)'
    BY <1>4, <1>7 DEF InTable
  <2>3. \A g \in Fds : InRing(g) => g = f \/ InRing(g)'
    <3>1. SUFFICES ASSUME NEW g \in Fds, NEW v \in Workers, NEW i \in DOMAIN m_queConn[v],
                          m_queConn[v][i][1] = g, g # f
                   PROVE  InRing(g)'
      BY DEF InRing
    <3>2. CASE v = w
      <4>1. i # 1
        BY <1>2, <3>1, <3>2
      <4>2. i - 1 \in DOMAIN m_queConn'[w] /\ m_queConn'[w][i - 1] = m_queConn[w][i]
        BY <1>1, <3>1, <3>2, <4>1
      <4>. QED  BY <3>1, <3>2, <4>2 DEF InRing
    <3>3. CASE v # w
      BY <1>1, <3>1, <3>3 DEF InRing
    <3>. QED  BY <3>2, <3>3
  <2>. QED  BY <1>3, <2>1, <2>2, <2>3 DEF Placed
<1>. QED  BY <1>9, <1>10, <1>11, <1>12, <1>13, <1>14, <1>15
LEMMA ConnectOwned ==
    ASSUME TypeOK, AtClient, Owned, NEW w \in Workers, ReturnConnect(w)
    PROVE  Owned'
<1>1. UNCHANGED <<m_queConn, m_vecClients, conn>>
  BY DEF ReturnConnect
<1>2. \A v \in Workers : \A f \in events'[v] : f \in events[v] \/ m_vecClients[v][f] # Null
  <2>1. at[w] \in Fds
    BY DEF ReturnConnect, AtClient
  <2>2. \A v \in Workers : events'[v] # events[v] =>
            v = w /\ m_vecClients[w][at[w]] # Null /\ events'[w] = events[w] \cup {at[w]}
    BY DEF ReturnConnect, TypeOK
  <2>. QED  BY <2>1, <2>2
<1>3. EventsHaveClient'
  BY <1>1, <1>2 DEF Owned, EventsHaveClient
<1>4. Placed'
  BY <1>1 DEF Owned, Placed, InTable, InRing
<1>. QED
  BY <1>1, <1>3, <1>4 DEF Owned, ClientIsCurrent, QueuedIsCurrent, OneTable, NotInBoth, OncePerRing

LEMMA CloseOwned ==
    ASSUME TypeOK, Owned, NEW w \in Workers, NEW f \in Fds, Close(w, f), UNCHANGED m_queConn,
           f \in events[w] \/ m_vecClients[w][f] # Null
    PROVE  Owned'
<1>. USE DEF Owned
<1>1. m_vecClients[w][f] # Null
  BY DEF EventsHaveClient
<1>2. \A v \in Workers : v # w => m_vecClients[v][f] = Null
  BY <1>1 DEF OneTable
<1>3. \A v \in Workers : \A i \in DOMAIN m_queConn[v] : m_queConn[v][i][1] # f
  BY <1>1 DEF NotInBoth
<1>4. \A v \in Workers : \A g \in Fds :
        m_vecClients'[v][g] = IF v = w /\ g = f THEN Null ELSE m_vecClients[v][g]
  BY DEF Close, TypeOK
<1>5. \A g \in Fds : conn'[g] = IF g = f THEN Null ELSE conn[g]
  BY DEF Close, TypeOK
<1>6. \A v \in Workers : \A g \in events'[v] : g \in events[v] /\ ~(v = w /\ g = f) /\ g \in Fds
  BY DEF Close, TypeOK
<1>7. ClientIsCurrent'
  BY <1>2, <1>4, <1>5 DEF ClientIsCurrent
<1>8. QueuedIsCurrent'
  BY <1>3, <1>5, EntryTypes DEF QueuedIsCurrent
<1>9. OneTable'
  BY <1>4 DEF OneTable
<1>10. NotInBoth'
  BY <1>4, EntryTypes DEF NotInBoth
<1>11. OncePerRing'
  BY DEF OncePerRing
<1>12. EventsHaveClient'
  BY <1>4, <1>6 DEF EventsHaveClient
<1>13. Placed'
  <2>1. \A g \in Fds : g # f /\ InTable(g) => InTable(g)'
    BY <1>4 DEF InTable
  <2>2. \A g \in Fds : InRing(g) => InRing(g)'
    BY DEF InRing
  <2>. QED  BY <1>5, <2>1, <2>2 DEF Placed
<1>. QED  BY <1>7, <1>8, <1>9, <1>10, <1>11, <1>12, <1>13

LEMMA OwnedNext == TypeOK /\ AtClient /\ Owned /\ [Next]_vars => Owned'
<1>. SUFFICES ASSUME TypeOK, AtClient, Owned, [Next]_vars PROVE Owned'
  OBVIOUS
<1>1. CASE UNCHANGED owners
  BY <1>1 DEF owners, Owned, ClientIsCurrent, QueuedIsCurrent, OneTable, NotInBoth,
              OncePerRing, EventsHaveClient, Placed, InTable, InRing
<1>. QED  BY <1>1, OwnerSteps, EnqueOwned, DequeOwned, ConnectOwned, CloseOwned

LEMMA OwnedAlways == Spec => [](TypeOK /\ Owned)
<1>1. Init => Owned
  BY DEF Init, Owned, ClientIsCurrent, QueuedIsCurrent, OneTable, NotInBoth, OncePerRing,
         EventsHaveClient, Placed
<1>. QED  BY <1>1, OwnedNext, TypeAlways, PTL DEF Spec

(* A worker reads only for a descriptor whose client is there, and is the  *)
(* client of the connection that the descriptor stands for now.            *)
THEOREM ReadsForItsClient == Spec => []NoNullClient
<1>1. TypeOK /\ Owned => NoNullClient
  BY DEF TypeOK, Owned, ClientIsCurrent, EventsHaveClient, NoNullClient
<1>. QED  BY <1>1, OwnedAlways, PTL

(* An open connection is in one worker's table or ring, and in one only.   *)
THEOREM EveryConnectionOwned == Spec => []OneOwner
<1>1. ASSUME TypeOK, Owned, NEW f \in Fds, NEW p \in Places(f)
      PROVE  \/ \E w \in Workers : p = <<w, 0>> /\ m_vecClients[w][f] # Null
             \/ \E w \in Workers : \E i \in DOMAIN m_queConn[w] :
                    p = <<w, i>> /\ m_queConn[w][i][1] = f
  BY <1>1 DEF Places
<1>2. ASSUME TypeOK, Owned, NEW f \in Fds, NEW p \in Places(f), NEW q \in Places(f)
      PROVE  p = q
  <2>1. CASE \E w \in Workers : p = <<w, 0>> /\ m_vecClients[w][f] # Null
    BY <1>1, <1>2, <2>1 DEF Owned, OneTable, NotInBoth
  <2>2. CASE \E w \in Workers : q = <<w, 0>> /\ m_vecClients[w][f] # Null
    BY <1>1, <1>2, <2>2 DEF Owned, OneTable, NotInBoth
  <2>3. CASE /\ \E w \in Workers : \E i \in DOMAIN m_queConn[w] :
                    p = <<w, i>> /\ m_queConn[w][i][1] = f
             /\ \E w \in Workers : \E i \in DOMAIN m_queConn[w] :
                    q = <<w, i>> /\ m_queConn[w][i][1] = f
    BY <1>2, <2>3 DEF Owned, OncePerRing
  <2>. QED  BY <1>1, <1>2, <2>1, <2>2, <2>3
<1>3. ASSUME TypeOK, Owned, NEW f \in Fds, conn[f] # Null
      PROVE  \E p \in Places(f) : TRUE
  <2>1. CASE InTable(f)
    BY <2>1 DEF InTable, Places
  <2>2. CASE InRing(f)
    <3>1. PICK w \in Workers : \E i \in DOMAIN m_queConn[w] : m_queConn[w][i][1] = f
      BY <2>2 DEF InRing
    <3>2. PICK i \in DOMAIN m_queConn[w] : m_queConn[w][i][1] = f
      BY <3>1
    <3>3. <<w, i>> \in Places(f)
      BY <3>2 DEF Places
    <3>. QED  BY <3>3
  <2>. QED  BY <1>3, <2>1, <2>2 DEF Owned, Placed
<1>4. ASSUME TypeOK, Owned, NEW f \in Fds, conn[f] = Null
      PROVE  Places(f) = {}
  <2>1. \A w \in Workers : m_vecClients[w][f] = Null
    BY <1>4 DEF Owned, ClientIsCurrent
  <2>2. \A w \in Workers : \A i \in DOMAIN m_queConn[w] : m_queConn[w][i][1] # f
    BY <1>4, EntryTypes, ConstantFacts DEF Owned, QueuedIsCurrent
  <2>. QED  BY <1>1, <1>4, <2>1, <2>2
<1>5. TypeOK /\ Owned => OneOwner
  <2>. SUFFICES ASSUME TypeOK, Owned, NEW f \in Fds
                PROVE  IF conn[f] = Null THEN Places(f) = {}
                       ELSE \E p \in Places(f) : Places(f) = {p}
    BY DEF OneOwner
  <2>1. CASE conn[f] = Null
    BY <1>4, <2>1
  <2>2. CASE conn[f] # Null
    <3>1. PICK p \in Places(f) : TRUE
      BY <1>3, <2>2
    <3>2. Places(f) = {p}
      BY <1>2, <3>1
    <3>. QED  BY <2>2, <3>1, <3>2
  <2>. QED  BY <2>1, <2>2
<1>. QED  BY <1>5, OwnedAlways, PTL
=============================================================================
