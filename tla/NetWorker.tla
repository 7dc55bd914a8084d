----------------------------- MODULE NetWorker -----------------------------
(***************************************************************************)
(* CNetWorkerMgr and its CNetWorkers: the manager's thread accepts and     *)
(* hands each client to a worker in turn, through the worker's ring and    *)
(* its eventfd; each worker runs a loop of its own, takes the clients out  *)
(* of the ring, watches them and closes them.  Descriptors are the         *)
(* process's: what one worker closes, accept may give to another.          *)
(*                                                                         *)
(* The ring is the bounded queue that CircleQueue is proved to implement.  *)
(* Connections are numbered as they are accepted.                          *)
(***************************************************************************)
EXTENDS Naturals, Sequences

CONSTANTS
    N,              (* the number of workers                                 *)
    Fds,            (* descriptors accept may give                           *)
    MaxClient,      (* m_dwMaxClient: accept's limit on the descriptor       *)
    QueueSize,      (* what a worker's ring holds                            *)
    Event,          (* the eventfd's entry in a worker's epoll               *)
    MaxConns,       (* bound: connections ever accepted                      *)
    MaxRefusals     (* bound: how often the kernel refuses an epoll ADD      *)

ASSUME NetWorkerAssumption ==
    /\ N \in Nat \ {0} /\ QueueSize \in Nat \ {0} /\ Fds \subseteq Nat
    /\ MaxConns \in Nat /\ MaxRefusals \in Nat /\ MaxClient \in Nat /\ Event \notin Fds

Workers == 0 .. N - 1
Null == 0           \* no client; no connection
Conns == 1 .. MaxConns

VARIABLES
    m_dwClientNum,  (* modulo N, all it is used for; not initialised         *)
    accepted,       (* connections accepted so far                           *)
    notify,         (* the worker whose eventfd the manager has yet to write *)
    m_queConn,      (* per worker: the ring, <<descriptor, connection>>      *)
    counter,        (* per worker: its eventfd's count                       *)
    m_vecClients,   (* per worker: the client of each descriptor             *)
    events,         (* per worker: descriptors with EV_READ in its CEvent    *)
    interest,       (* per worker: descriptors in its epoll                  *)
    batch,          (* per worker: what epoll_wait returned, not yet handled *)
    pc,             (* per worker: loop, drain (onEvent), connect, read      *)
    at,             (* per worker: the descriptor it calls back for          *)
    conn,           (* kernel: the connection a descriptor stands for        *)
    gone,           (* connections whose peer has closed                     *)
    refusals

manager == <<m_dwClientNum, accepted, notify>>
tables == <<m_vecClients, events, interest>>
loops == <<batch, pc, at>>
vars == <<manager, m_queConn, counter, tables, loops, conn, gone, refusals>>

NoWorker == N

Init ==
    /\ m_dwClientNum \in Workers
    /\ accepted = 0 /\ notify = NoWorker
    /\ m_queConn = [w \in Workers |-> <<>>]
    /\ counter = [w \in Workers |-> 0]
    /\ m_vecClients = [w \in Workers |-> [f \in Fds |-> Null]]
    /\ events = [w \in Workers |-> {}] /\ interest = [w \in Workers |-> {}]
    /\ batch = [w \in Workers |-> {}]
    /\ pc = [w \in Workers |-> "loop"] /\ at = [w \in Workers |-> Event]
    /\ conn = [f \in Fds |-> Null]
    /\ gone = {} /\ refusals = 0

-----------------------------------------------------------------------------
(* The manager's onAccept.                                                 *)
Accept(f) ==
    /\ notify = NoWorker /\ accepted < MaxConns /\ conn[f] = Null
    /\ accepted' = accepted + 1

RingFull(w) == Len(m_queConn[w]) = QueueSize

\* iClientSock > m_dwMaxClient: closed at once.
AcceptReject(f) ==
    /\ Accept(f) /\ f > MaxClient
    /\ UNCHANGED <<m_dwClientNum, notify, m_queConn, counter, tables, loops, conn, gone, refusals>>

Following(n) == (n + 1) % N

AcceptFull_KeepsOpen(f) ==
    /\ Accept(f) /\ f <= MaxClient
    /\ m_dwClientNum' = Following(m_dwClientNum)
    /\ RingFull(Following(m_dwClientNum))
    /\ conn' = [conn EXCEPT ![f] = accepted']
    /\ UNCHANGED <<notify, m_queConn, counter, tables, loops, gone, refusals>>

\* watch(): enque, then the eventfd in a step of its own; a full ring: closed.
AcceptEnque(f) ==
    /\ Accept(f) /\ f <= MaxClient
    /\ m_dwClientNum' = Following(m_dwClientNum)
    /\ LET w == Following(m_dwClientNum) IN
       /\ ~RingFull(w)
       /\ m_queConn' = [m_queConn EXCEPT ![w] = Append(@, <<f, accepted'>>)]
       /\ notify' = w
    /\ conn' = [conn EXCEPT ![f] = accepted']
    /\ UNCHANGED <<counter, tables, loops, gone, refusals>>

AcceptFull(f) ==
    /\ Accept(f) /\ f <= MaxClient
    /\ m_dwClientNum' = Following(m_dwClientNum)
    /\ RingFull(Following(m_dwClientNum))
    /\ UNCHANGED <<notify, m_queConn, counter, tables, loops, conn, gone, refusals>>

Notify_NoWrite ==
    /\ notify # NoWorker
    /\ notify' = NoWorker
    /\ UNCHANGED <<m_dwClientNum, accepted, m_queConn, counter, tables, loops, conn, gone, refusals>>

Notify ==
    /\ notify # NoWorker
    /\ counter' = [counter EXCEPT ![notify] = @ + 1]
    /\ notify' = NoWorker
    /\ UNCHANGED <<m_dwClientNum, accepted, m_queConn, tables, loops, conn, gone, refusals>>

-----------------------------------------------------------------------------
(* A worker's loop.                                                        *)
Readable(w) ==
    {f \in interest[w] : conn[f] \in gone} \cup (IF counter[w] > 0 THEN {Event} ELSE {})

\* epoll_wait: the descriptors with data, or whose peer has closed, and the eventfd.
Poll(w) ==
    /\ pc[w] = "loop" /\ batch[w] = {}
    /\ \E data \in SUBSET interest[w] :
        /\ data \cup Readable(w) # {}
        /\ batch' = [batch EXCEPT ![w] = data \cup Readable(w)]
    /\ UNCHANGED <<manager, m_queConn, counter, tables, pc, at, conn, gone, refusals>>

Handle(w, e) ==
    /\ pc[w] = "loop" /\ e \in batch[w]
    /\ batch' = [batch EXCEPT ![w] = @ \ {e}]

GoTo(w, p, f) == pc' = [pc EXCEPT ![w] = p] /\ at' = [at EXCEPT ![w] = f]

\* onEvent: the eventfd first, then the ring until it is empty.
OnEvent(w) ==
    /\ Handle(w, Event)
    /\ counter' = [counter EXCEPT ![w] = 0]
    /\ GoTo(w, "drain", Event)
    /\ UNCHANGED <<manager, m_queConn, tables, conn, gone, refusals>>

Deque(w) ==
    /\ pc[w] = "drain" /\ m_queConn[w] # <<>>
    /\ LET f == Head(m_queConn[w])[1] IN
       /\ m_vecClients' = [m_vecClients EXCEPT ![w][f] = Head(m_queConn[w])[2]]
       /\ GoTo(w, "connect", f)
    /\ m_queConn' = [m_queConn EXCEPT ![w] = Tail(@)]
    /\ UNCHANGED <<manager, counter, events, interest, batch, conn, gone, refusals>>

\* addFdEvent after onConnect.  When the kernel refuses, close is called with
\* the eventfd's number, for which there is no client: nothing happens.
ReturnConnect(w) ==
    /\ pc[w] = "connect"
    /\ IF m_vecClients[w][at[w]] = Null THEN UNCHANGED <<events, interest, refusals>>
       ELSE /\ events' = [events EXCEPT ![w] = @ \cup {at[w]}]
            /\ \/ /\ interest' = [interest EXCEPT ![w] = @ \cup {at[w]}]
                  /\ UNCHANGED refusals
               \/ /\ refusals < MaxRefusals /\ refusals' = refusals + 1
                  /\ UNCHANGED interest
    /\ GoTo(w, "drain", Event)
    /\ UNCHANGED <<manager, m_queConn, counter, m_vecClients, batch, conn, gone>>

DrainDone_Early(w) ==
    /\ pc[w] = "drain"
    /\ GoTo(w, "loop", Event)
    /\ UNCHANGED <<manager, m_queConn, counter, tables, batch, conn, gone, refusals>>

DrainDone(w) ==
    /\ pc[w] = "drain" /\ m_queConn[w] = <<>>
    /\ GoTo(w, "loop", Event)
    /\ UNCHANGED <<manager, m_queConn, counter, tables, batch, conn, gone, refusals>>

\* close(int), called with a descriptor this worker has a client for.
Close_KeepsEvents(w, f) ==
    /\ m_vecClients' = [m_vecClients EXCEPT ![w][f] = Null]
    /\ interest' = [interest EXCEPT ![w] = @ \ {f}]
    /\ conn' = [conn EXCEPT ![f] = Null]
    /\ UNCHANGED events

Close_LeavesSocket(w, f) ==
    /\ m_vecClients' = [m_vecClients EXCEPT ![w][f] = Null]
    /\ events' = [events EXCEPT ![w] = @ \ {f}]
    /\ interest' = [interest EXCEPT ![w] = @ \ {f}]
    /\ UNCHANGED conn

Close(w, f) ==
    /\ m_vecClients' = [m_vecClients EXCEPT ![w][f] = Null]
    /\ events' = [events EXCEPT ![w] = @ \ {f}]
    /\ interest' = [interest EXCEPT ![w] = @ \ {f}]
    /\ conn' = [conn EXCEPT ![f] = Null]

\* onTcpRead looks at the client without asking whether there is one.
ReadSkipped(w, f) ==
    /\ Handle(w, f) /\ f \notin events[w]
    /\ UNCHANGED <<manager, m_queConn, counter, tables, pc, at, conn, gone, refusals>>

\* Packages are delivered, the callback may close, nothing was there to read.
Read(w, f) ==
    /\ Handle(w, f) /\ f \in events[w]
    /\ GoTo(w, "read", f)
    /\ UNCHANGED <<manager, m_queConn, counter, tables, conn, gone, refusals>>

ReturnRead(w) ==
    /\ pc[w] = "read"
    /\ GoTo(w, "loop", Event)
    /\ UNCHANGED <<manager, m_queConn, counter, tables, batch, conn, gone, refusals>>

\* End of stream, an error, an invalid package.
ReadCloses(w, f) ==
    /\ Handle(w, f) /\ f \in events[w]
    /\ Close(w, f)
    /\ UNCHANGED <<manager, m_queConn, counter, pc, at, gone, refusals>>

\* From a callback, a timer or a message of its own worker.  The session that
\* onConnect is given carries the eventfd's number, so it names no client.
AppClose(w, f) ==
    /\ pc[w] \in {"loop", "connect", "read"} /\ m_vecClients[w][f] # Null
    /\ pc[w] = "connect" => f # at[w]
    /\ Close(w, f)
    /\ UNCHANGED <<manager, m_queConn, counter, loops, gone, refusals>>

PeerCloses(c) ==
    /\ c <= accepted /\ c \notin gone
    /\ gone' = gone \cup {c}
    /\ UNCHANGED <<manager, m_queConn, counter, tables, loops, conn, refusals>>

-----------------------------------------------------------------------------
Manager == Notify \/ \E f \in Fds : AcceptReject(f) \/ AcceptEnque(f) \/ AcceptFull(f)
Worker(w) ==
    \/ Poll(w) \/ OnEvent(w) \/ Deque(w) \/ ReturnConnect(w) \/ DrainDone(w) \/ ReturnRead(w)
    \/ \E f \in Fds : ReadSkipped(w, f) \/ Read(w, f) \/ ReadCloses(w, f)
Next ==
    \/ Manager
    \/ \E w \in Workers : Worker(w) \/ \E f \in Fds : AppClose(w, f)
    \/ \E c \in Conns : PeerCloses(c)

Spec == Init /\ [][Next]_vars

(* Each thread goes on; a peer that has gone sends nothing more, so reading *)
(* comes to the end of what it sent.                                        *)
Fairness ==
    /\ WF_vars(Notify)
    /\ \A w \in Workers :
        WF_vars(Worker(w)) /\ SF_vars(\E f \in Fds : conn[f] \in gone /\ ReadCloses(w, f))
FairSpec == Spec /\ Fairness

-----------------------------------------------------------------------------
Entry == Fds \X Conns

TypeOK ==
    /\ m_dwClientNum \in Workers /\ accepted \in 0 .. MaxConns
    /\ notify \in Workers \cup {NoWorker}
    /\ m_queConn \in [Workers -> Seq(Entry)]
    /\ \A w \in Workers : Len(m_queConn[w]) <= QueueSize
    /\ counter \in [Workers -> Nat]
    /\ m_vecClients \in [Workers -> [Fds -> Conns \cup {Null}]]
    /\ events \in [Workers -> SUBSET Fds] /\ interest \in [Workers -> SUBSET Fds]
    /\ batch \in [Workers -> SUBSET (Fds \cup {Event})]
    /\ pc \in [Workers -> {"loop", "drain", "connect", "read"}]
    /\ at \in [Workers -> Fds \cup {Event}]
    /\ conn \in [Fds -> Conns \cup {Null}]
    /\ gone \subseteq Conns /\ refusals \in 0 .. MaxRefusals

(* onTcpRead follows the client pointer of a descriptor whose events are   *)
(* set without asking whether there is one: there always is, and it is the *)
(* client of the connection that the descriptor stands for now.            *)
NoNullClient ==
    \A w \in Workers : \A f \in events[w] :
        m_vecClients[w][f] # Null /\ m_vecClients[w][f] = conn[f]

(* An open connection is in one place only: in the ring of one worker, or  *)
(* in the table of one worker; no two threads ever serve one descriptor,   *)
(* although all of them close descriptors and accept hands them out again. *)
Places(f) ==
    {<<w, 0>> : w \in {v \in Workers : m_vecClients[v][f] # Null}}
    \cup UNION {{<<w, i>> : i \in {j \in DOMAIN m_queConn[w] : m_queConn[w][j][1] = f}}
                : w \in Workers}
OneOwner ==
    \A f \in Fds : IF conn[f] = Null THEN Places(f) = {}
                   ELSE \E p \in Places(f) : Places(f) = {p}

(* A client that waits in a ring has a wake-up under way: the manager is   *)
(* about to write the eventfd, the eventfd is readable, or the worker is   *)
(* emptying the ring already.                                              *)
WakeupPending ==
    \A w \in Workers : m_queConn[w] # <<>> =>
        notify = w \/ counter[w] > 0 \/ pc[w] \in {"drain", "connect"}

(* Under fairness: a client handed to a worker is taken out of its ring.   *)
Waiting(c) == \E w \in Workers : \E i \in DOMAIN m_queConn[w] : m_queConn[w][i][2] = c
HandedOver == \A c \in Conns : Waiting(c) ~> ~Waiting(c)

(* Under fairness, unless the kernel refuses to watch one: a client whose  *)
(* peer has gone gives its descriptor back.                                *)
GoneIsClosed ==
    \A c \in Conns : (\E f \in Fds : conn[f] = c) /\ c \in gone
                        ~> (\A f \in Fds : conn[f] # c) \/ refusals > 0
=============================================================================
