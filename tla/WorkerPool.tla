----------------------------- MODULE WorkerPool -----------------------------
(***************************************************************************)
(* CTask and the worker pools on top of it.  The event loop's thread turns *)
(* each package it reads into a request and dispatches it to a queue; pool *)
(* threads take requests from the queue, run onRequest, and send the       *)
(* response back to the loop as a message; the loop writes it to the       *)
(* session of the request: a descriptor, which may by then be another      *)
(* connection's.  CEvent::addMessage is one step here: EventMessages is    *)
(* about the steps inside it.                                              *)
(***************************************************************************)
EXTENDS Naturals, Sequences, FiniteSets

CONSTANTS
    Workers,        (* the pool's threads                                    *)
    m_iMaxSize,     (* what the queue is meant to hold                       *)
    Fds,            (* the descriptors of client connections                 *)
    Loop, Free,     (* the event loop's thread; a lock nobody holds          *)
    MaxConns,       (* bound: connections ever accepted                      *)
    MaxRequests     (* bound: packages ever read                             *)

ASSUME WorkerPoolAssumption ==
    /\ IsFiniteSet(Workers) /\ Loop \notin Workers /\ Free \notin Workers \cup {Loop}
    /\ m_iMaxSize \in Nat /\ MaxConns \in Nat /\ MaxRequests \in Nat

None == 0       \* no request; no connection
Conns == 1 .. MaxConns
Requests == 1 .. MaxRequests

VARIABLES
    m_queTaskQueue, (* the requests that wait for a thread                   *)
    m_lock,         (* the holder of CTask's mutex                           *)
    pc,             (* each thread: top, lock, test, asleep, woken, work,    *)
                    (* dead                                                  *)
    task,           (* the request each thread works on                      *)
    m_iStop,        (* the threads that stop() was called for                *)
    loop,           (* the loop: idle, lock, push, signal, message           *)
    request,        (* the request it dispatches                             *)
    m_queMsgEvents, (* the responses on their way to the loop                *)
    eventLock,      (* the holder of CEvent's mutex                          *)
    conn,           (* the connection a descriptor stands for                *)
    accepted,       (* connections accepted so far                           *)
    session,        (* each request's descriptor, and whose it was then      *)
    written,        (* the responses written: <<request, connection>>        *)
    over            (* the requests that nothing more will happen to         *)

queue == <<m_queTaskQueue, m_lock>>
threads == <<pc, task, m_iStop>>
messages == <<m_queMsgEvents, eventLock>>
clients == <<conn, accepted>>
vars == <<queue, threads, loop, request, messages, clients, session, written, over>>

Init ==
    /\ m_queTaskQueue = <<>> /\ m_lock = Free
    /\ pc = [w \in Workers |-> "top"] /\ task = [w \in Workers |-> None] /\ m_iStop = {}
    /\ loop = "idle" /\ request = None
    /\ m_queMsgEvents = <<>> /\ eventLock = Free
    /\ conn = [f \in Fds |-> None] /\ accepted = 0
    /\ session = <<>> /\ written = {} /\ over = {}

-----------------------------------------------------------------------------
(* The event loop.                                                         *)
Accept(f) ==
    /\ loop = "idle" /\ conn[f] = None /\ accepted < MaxConns
    /\ accepted' = accepted + 1
    /\ conn' = [conn EXCEPT ![f] = accepted + 1]
    /\ UNCHANGED <<queue, threads, loop, request, messages, session, written, over>>

\* The peer has gone, or its request could not be parsed.
Close(f) ==
    /\ loop = "idle" /\ conn[f] # None
    /\ conn' = [conn EXCEPT ![f] = None]
    /\ UNCHANGED <<queue, threads, loop, request, messages, accepted, session, written, over>>

\* onRead: a request with its session, then dispatch.
OnRead(f) ==
    /\ loop = "idle" /\ conn[f] # None /\ Len(session) < MaxRequests
    /\ session' = Append(session, <<f, conn[f]>>)
    /\ request' = Len(session) + 1 /\ loop' = "lock"
    /\ UNCHANGED <<queue, threads, messages, clients, written, over>>

DispatchLock ==
    /\ loop = "lock" /\ m_lock = Free
    /\ m_lock' = Loop /\ loop' = "push"
    /\ UNCHANGED <<m_queTaskQueue, threads, request, messages, clients, session, written, over>>

\* The test lets one request more than m_iMaxSize in.
TooMany == Len(m_queTaskQueue) > m_iMaxSize

\* The error handler is called; the request stays allocated and unanswered.
DispatchFull ==
    /\ loop = "push" /\ TooMany
    /\ over' = over \cup {request} /\ request' = None
    /\ m_lock' = Free /\ loop' = "idle"
    /\ UNCHANGED <<m_queTaskQueue, threads, messages, clients, session, written>>

DispatchPush_NoSignal ==
    /\ loop = "push" /\ ~TooMany
    /\ m_queTaskQueue' = Append(m_queTaskQueue, request) /\ request' = None
    /\ m_lock' = Free /\ loop' = "idle"
    /\ UNCHANGED <<threads, messages, clients, session, written, over>>

DispatchPush ==
    /\ loop = "push" /\ ~TooMany
    /\ m_queTaskQueue' = Append(m_queTaskQueue, request) /\ request' = None
    /\ m_lock' = Free /\ loop' = "signal"
    /\ UNCHANGED <<threads, messages, clients, session, written, over>>

Asleep == {w \in Workers : pc[w] = "asleep"}
Wakes_OnlyFirst == IF Len(m_queTaskQueue) = 1 THEN Asleep ELSE {}
Wakes == Asleep

\* pthread_cond_signal, after the lock was released.
Signal ==
    /\ loop = "signal"
    /\ IF Wakes = {} THEN UNCHANGED pc
       ELSE \E w \in Wakes : pc' = [pc EXCEPT ![w] = "woken"]
    /\ loop' = "idle"
    /\ UNCHANGED <<queue, task, m_iStop, request, messages, clients, session, written, over>>

\* The pipe is readable: a thread that dies in write leaves its byte out.
OnMessages ==
    /\ loop = "idle" /\ Len(m_queMsgEvents) > (IF eventLock = Free THEN 0 ELSE 1)
    /\ loop' = "message"
    /\ UNCHANGED <<queue, threads, request, messages, clients, session, written, over>>

\* onMessage: write to the session, and with the close flag set, close it.
OnMessage(bClose) ==
    /\ loop = "message" /\ eventLock = Free /\ m_queMsgEvents # <<>>
    /\ LET r == Head(m_queMsgEvents)
           f == session[r][1]
       IN
       /\ over' = over \cup {r}
       /\ IF conn[f] = None THEN UNCHANGED <<conn, written>>
          ELSE /\ written' = written \cup {<<r, conn[f]>>}
               /\ conn' = [conn EXCEPT ![f] = IF bClose THEN None ELSE @]
    /\ m_queMsgEvents' = Tail(m_queMsgEvents)
    /\ UNCHANGED <<queue, threads, loop, request, eventLock, accepted, session>>

MessagesDone ==
    /\ loop = "message" /\ eventLock = Free /\ m_queMsgEvents = <<>>
    /\ loop' = "idle"
    /\ UNCHANGED <<queue, threads, request, messages, clients, session, written, over>>

\* CTask::stop: every thread is marked and cancelled.
Stop ==
    /\ loop = "idle" /\ m_iStop = {}
    /\ m_iStop' = Workers
    /\ UNCHANGED <<queue, pc, task, loop, request, messages, clients, session, written, over>>

-----------------------------------------------------------------------------
(* A pool thread.                                                          *)
Goes(w, from, to) == pc[w] = from /\ pc' = [pc EXCEPT ![w] = to]

Top(w) ==
    /\ Goes(w, "top", IF w \in m_iStop THEN "dead" ELSE "lock")
    /\ UNCHANGED <<queue, task, m_iStop, loop, request, messages, clients, session, written, over>>

Lock(w) ==
    /\ Goes(w, "lock", "test")
    /\ m_lock = Free /\ m_lock' = w
    /\ UNCHANGED <<m_queTaskQueue, task, m_iStop, loop, request, messages, clients, session,
                   written, over>>

\* pthread_cond_wait releases the lock as the thread falls asleep.
Sleep(w) ==
    /\ Goes(w, "test", "asleep")
    /\ m_queTaskQueue = <<>>
    /\ m_lock' = Free
    /\ UNCHANGED <<m_queTaskQueue, task, m_iStop, loop, request, messages, clients, session,
                   written, over>>

Popped_Front == m_queTaskQueue
Popped == Tail(m_queTaskQueue)

Take(w) ==
    /\ Goes(w, "test", "work")
    /\ m_queTaskQueue # <<>>
    /\ task' = [task EXCEPT ![w] = Head(m_queTaskQueue)]
    /\ m_queTaskQueue' = Popped
    /\ m_lock' = Free
    /\ UNCHANGED <<m_iStop, loop, request, messages, clients, session, written, over>>

Spurious(w) ==
    /\ Goes(w, "asleep", "woken")
    /\ UNCHANGED <<queue, task, m_iStop, loop, request, messages, clients, session, written, over>>

\* It takes the lock back and releases it: the queue is looked at in the next round.
Resume(w) ==
    /\ Goes(w, "woken", "top")
    /\ m_lock = Free
    /\ UNCHANGED <<queue, task, m_iStop, loop, request, messages, clients, session, written, over>>

\* onRequest returns and the response is sent.
Answer(w) ==
    /\ Goes(w, "work", "top")
    /\ eventLock = Free
    /\ m_queMsgEvents' = Append(m_queMsgEvents, task[w])
    /\ task' = [task EXCEPT ![w] = None]
    /\ UNCHANGED <<queue, m_iStop, loop, request, eventLock, clients, session, written, over>>

\* onRequest throws: there is no response.
Fail(w) ==
    /\ Goes(w, "work", "top")
    /\ over' = over \cup {task[w]}
    /\ task' = [task EXCEPT ![w] = None]
    /\ UNCHANGED <<queue, m_iStop, loop, request, messages, clients, session, written>>

(* A cancelled thread ends where it sleeps, once it has the lock again; in *)
(* onRequest; or in addMessage's write.  It gives no lock back.            *)
DiesAsleep(w) ==
    /\ w \in m_iStop /\ pc[w] \in {"asleep", "woken"}
    /\ pc' = [pc EXCEPT ![w] = "dead"]
    /\ m_lock = Free /\ m_lock' = w
    /\ UNCHANGED <<m_queTaskQueue, task, m_iStop, loop, request, messages, clients, session,
                   written, over>>

DiesAtWork(w) ==
    /\ w \in m_iStop /\ Goes(w, "work", "dead")
    /\ over' = over \cup {task[w]}
    /\ task' = [task EXCEPT ![w] = None]
    /\ UNCHANGED <<queue, m_iStop, loop, request, messages, clients, session, written>>

DiesSending(w) ==
    /\ w \in m_iStop /\ Goes(w, "work", "dead")
    /\ eventLock = Free /\ eventLock' = w
    /\ m_queMsgEvents' = Append(m_queMsgEvents, task[w])
    /\ task' = [task EXCEPT ![w] = None]
    /\ UNCHANGED <<queue, m_iStop, loop, request, clients, session, written, over>>

-----------------------------------------------------------------------------
Dispatch == DispatchLock \/ DispatchFull \/ DispatchPush \/ Signal
LoopStep == Dispatch \/ OnMessages \/ (\E bClose \in BOOLEAN : OnMessage(bClose)) \/ MessagesDone
Clients == \E f \in Fds : Accept(f) \/ Close(f) \/ OnRead(f)
Runs(w) == Top(w) \/ Sleep(w) \/ Take(w) \/ Answer(w) \/ Fail(w)
Locks(w) == Lock(w) \/ Resume(w)
Dies(w) == DiesAsleep(w) \/ DiesAtWork(w) \/ DiesSending(w)
Next ==
    \/ LoopStep \/ Clients \/ Stop
    \/ \E w \in Workers : Runs(w) \/ Locks(w) \/ Spurious(w) \/ Dies(w)

Spec == Init /\ [][Next]_vars

(* Every thread goes on, onRequest ends, and a thread that waits for a     *)
(* lock that is free again and again gets it at last.                      *)
Fairness ==
    /\ SF_vars(LoopStep)
    /\ \A w \in Workers : WF_vars(Runs(w)) /\ SF_vars(Locks(w))
FairSpec == Spec /\ Fairness

-----------------------------------------------------------------------------
(* The type invariant.  The queue holds one request more than m_iMaxSize   *)
(* at most.                                                                *)
TypeOK ==
    /\ m_queTaskQueue \in Seq(Requests) /\ Len(m_queTaskQueue) <= m_iMaxSize + 1
    /\ m_lock \in Workers \cup {Loop, Free}
    /\ pc \in [Workers -> {"top", "lock", "test", "asleep", "woken", "work", "dead"}]
    /\ task \in [Workers -> Requests \cup {None}] /\ m_iStop \subseteq Workers
    /\ loop \in {"idle", "lock", "push", "signal", "message"}
    /\ request \in Requests \cup {None}
    /\ m_queMsgEvents \in Seq(Requests) /\ eventLock \in Workers \cup {Free}
    /\ conn \in [Fds -> Conns \cup {None}] /\ accepted \in 0 .. MaxConns
    /\ session \in Seq(Fds \X Conns) /\ Len(session) <= MaxRequests
    /\ written \subseteq Requests \X Conns /\ over \subseteq Requests

(* Every request that was read is in one place: with the loop, in the      *)
(* queue, with one thread, on its way back, or over.  So none is worked on *)
(* twice, none answered twice, and none is lost without an account of how. *)
Positions(s, r) == Cardinality({i \in DOMAIN s : s[i] = r})
EachOnce ==
    \A r \in 1 .. Len(session) :
        Positions(m_queTaskQueue, r) + Positions(m_queMsgEvents, r)
          + Cardinality({w \in Workers : task[w] = r})
          + (IF request = r THEN 1 ELSE 0) + (IF r \in over THEN 1 ELSE 0) = 1

(* No thread sleeps while more requests wait than there are threads awake  *)
(* and on their way to the queue, not counting a signal still to be given: *)
(* a wake-up is never lost, although the signal comes after the lock was   *)
(* released and threads may wake for nothing.                              *)
Coming == {w \in Workers : pc[w] \in {"top", "lock", "test", "woken"}}
NoIdleWhileQueued ==
    m_iStop = {} /\ Asleep # {} =>
        Len(m_queTaskQueue) <= Cardinality(Coming) + (IF loop = "signal" THEN 1 ELSE 0)

(* Under fairness: a request in the queue is answered, or fails, unless    *)
(* the pool is stopped.                                                    *)
AllHandled ==
    \A r \in Requests :
        (\E i \in DOMAIN m_queTaskQueue : m_queTaskQueue[i] = r) ~> r \in over \/ m_iStop # {}

(* A response is written to the connection its request was read from.      *)
AnswersReachAsker == \A answer \in written : answer[2] = session[answer[1]][2]
=============================================================================
