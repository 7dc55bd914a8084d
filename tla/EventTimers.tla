---------------------------- MODULE EventTimers ----------------------------
(***************************************************************************)
(* CEvent's timers: a multiset ordered by due time and an index from timer *)
(* id to due time, both changed by addTimer and delTimer, which handlers   *)
(* call, and by the loop, which fires what is due and then waits in        *)
(* epoll_wait until the earliest timer left, or for EPOLL_WAIT_TIMEOUT.    *)
(* The multiset is a sequence: equal due times stay in insertion order.    *)
(***************************************************************************)
EXTENDS Naturals, Sequences, SequencesExt, FiniteSets

CONSTANTS
    TimerIds,
    Expires,        (* what addTimer is called with                          *)
    DefaultTimeout, (* EPOLL_WAIT_TIMEOUT                                    *)
    NoTime,         (* the index's answer for an id that has no timer        *)
    MaxBusy,        (* how long the loop may stay out of epoll_wait          *)
    MaxTime,        (* bound: the clock stops here                           *)
    MaxAdds         (* bound: calls of addTimer                              *)

ASSUME EventTimersAssumption ==
    /\ IsFiniteSet(TimerIds) /\ Expires \subseteq Nat /\ DefaultTimeout \in Nat \ {0}
    /\ MaxBusy \in Nat /\ MaxTime \in Nat /\ MaxAdds \in Nat /\ NoTime \notin Nat

VARIABLES
    m_setStTimeEvents,      (* <<due, id>>, ordered by due                   *)
    m_mapTimeEventIndexs,   (* the due time of each id, or NoTime            *)
    now,                    (* the clock, in milliseconds                    *)
    ddwTimeNow,             (* the loop's reading of it                      *)
    pc,                     (* round, fire, callback, wait, handler          *)
    wakeAt,                 (* when epoll_wait gives up                      *)
    busy,                   (* the time since epoll_wait last returned       *)
    fired,                  (* the timer whose callback runs: <<due, id>>    *)
    adds

tables == <<m_setStTimeEvents, m_mapTimeEventIndexs>>
vars == <<tables, now, ddwTimeNow, pc, wakeAt, busy, fired, adds>>

Nothing == <<NoTime, NoTime>>
Init ==
    /\ m_setStTimeEvents = <<>>
    /\ m_mapTimeEventIndexs = [id \in TimerIds |-> NoTime]
    /\ now = 0 /\ ddwTimeNow = 0 /\ pc = "round"
    /\ wakeAt = 0 /\ busy = 0
    /\ fired = Nothing /\ adds = 0

-----------------------------------------------------------------------------
(* The multiset.                                                           *)
Due(e) == e[1]
Id(e) == e[2]

Inserted_Front(s, e) == <<e>> \o s
Inserted(s, e) ==
    LET earlier == {i \in DOMAIN s : Due(s[i]) <= Due(e)} IN
    InsertAt(s, Cardinality(earlier) + 1, e)

\* delTimer: from the first entry with the indexed due time on, the first with the id.
Erased(s, due, id) ==
    LET from == {i \in DOMAIN s : Due(s[i]) >= due /\ Id(s[i]) = id} IN
    IF from = {} THEN s ELSE RemoveAt(s, CHOOSE i \in from : \A j \in from : i <= j)

Without(id) ==
    IF m_mapTimeEventIndexs[id] = NoTime THEN m_setStTimeEvents
    ELSE Erased(m_setStTimeEvents, m_mapTimeEventIndexs[id], id)

-----------------------------------------------------------------------------
(* What a handler does.                                                    *)
InHandler == pc \in {"callback", "handler"}

AddTimer(id, dwExpire) ==
    /\ InHandler /\ adds < MaxAdds
    /\ m_setStTimeEvents' = Inserted(Without(id), <<now + dwExpire, id>>)
    /\ m_mapTimeEventIndexs' = [m_mapTimeEventIndexs EXCEPT ![id] = now + dwExpire]
    /\ adds' = adds + 1
    /\ UNCHANGED <<now, ddwTimeNow, pc, wakeAt, busy, fired>>

DelTimer(id) ==
    /\ InHandler /\ m_mapTimeEventIndexs[id] # NoTime
    /\ m_setStTimeEvents' = Without(id)
    /\ m_mapTimeEventIndexs' = [m_mapTimeEventIndexs EXCEPT ![id] = NoTime]
    /\ UNCHANGED <<now, ddwTimeNow, pc, wakeAt, busy, fired, adds>>

-----------------------------------------------------------------------------
(* The loop.                                                               *)
Round ==
    /\ pc = "round"
    /\ ddwTimeNow' = now
    /\ pc' = "fire"
    /\ UNCHANGED <<tables, now, wakeAt, busy, fired, adds>>

DueNow == m_setStTimeEvents # <<>> /\ Due(Head(m_setStTimeEvents)) <= ddwTimeNow

\* Both entries are erased before the callback begins.
Fire ==
    /\ pc = "fire" /\ DueNow
    /\ fired' = Head(m_setStTimeEvents)
    /\ m_mapTimeEventIndexs' = [m_mapTimeEventIndexs EXCEPT ![Id(Head(m_setStTimeEvents))] = NoTime]
    /\ m_setStTimeEvents' = Tail(m_setStTimeEvents)
    /\ pc' = "callback"
    /\ UNCHANGED <<now, ddwTimeNow, wakeAt, busy, adds>>

FireReturns ==
    /\ pc = "callback"
    /\ pc' = "fire" /\ fired' = Nothing
    /\ UNCHANGED <<tables, now, ddwTimeNow, wakeAt, busy, adds>>

Timeout_Default == DefaultTimeout
Timeout ==
    IF m_setStTimeEvents = <<>> THEN DefaultTimeout
    ELSE Due(Head(m_setStTimeEvents)) - ddwTimeNow

EpollWait ==
    /\ pc = "fire" /\ ~DueNow
    /\ wakeAt' = now + Timeout
    /\ pc' = "wait"
    /\ UNCHANGED <<tables, now, ddwTimeNow, busy, fired, adds>>

\* The wait ends with a descriptor's event, or because its time is over.
EventReady ==
    /\ pc = "wait"
    /\ pc' = "handler" /\ busy' = 0 /\ wakeAt' = 0
    /\ UNCHANGED <<tables, now, ddwTimeNow, fired, adds>>

HandlersReturn ==
    /\ pc = "handler"
    /\ pc' = "round"
    /\ UNCHANGED <<tables, now, ddwTimeNow, wakeAt, busy, fired, adds>>

TimedOut ==
    /\ pc = "wait" /\ now >= wakeAt
    /\ pc' = "round" /\ busy' = 0 /\ wakeAt' = 0
    /\ UNCHANGED <<tables, now, ddwTimeNow, fired, adds>>

\* epoll_wait ends on time; handlers and callbacks take MaxBusy at most.
Tick ==
    /\ now < MaxTime
    /\ \/ pc = "wait" /\ now < wakeAt /\ UNCHANGED busy
       \/ pc # "wait" /\ busy < MaxBusy /\ busy' = busy + 1
    /\ now' = now + 1
    /\ UNCHANGED <<tables, ddwTimeNow, pc, wakeAt, fired, adds>>

LoopStep == Round \/ Fire \/ FireReturns \/ EpollWait \/ HandlersReturn \/ TimedOut
Next ==
    \/ LoopStep \/ EventReady \/ Tick
    \/ \E id \in TimerIds : DelTimer(id) \/ \E dwExpire \in Expires : AddTimer(id, dwExpire)

Spec == Init /\ [][Next]_vars

(* The loop goes on, and time does, however often descriptors are ready.   *)
FairSpec == Spec /\ WF_vars(LoopStep) /\ SF_vars(Tick)

-----------------------------------------------------------------------------
Entry == Nat \X TimerIds
Ordered == \A i, j \in DOMAIN m_setStTimeEvents :
               i < j => Due(m_setStTimeEvents[i]) <= Due(m_setStTimeEvents[j])

TypeOK ==
    /\ m_setStTimeEvents \in Seq(Entry) /\ Ordered
    /\ Len(m_setStTimeEvents) <= Cardinality(TimerIds)
    /\ m_mapTimeEventIndexs \in [TimerIds -> Nat \cup {NoTime}]
    /\ now \in 0 .. MaxTime /\ ddwTimeNow \in 0 .. now
    /\ pc \in {"round", "fire", "callback", "wait", "handler"}
    /\ wakeAt \in Nat /\ busy \in 0 .. MaxBusy
    /\ fired \in Entry \cup {Nothing} /\ adds \in 0 .. MaxAdds

(* The index and the multiset tell the same: an id's timer is in the       *)
(* multiset exactly when it is in the index, once, and with the same due   *)
(* time.  Otherwise delTimer would leave a timer that nobody can stop.     *)
IndexMatchesSet ==
    /\ \A i \in DOMAIN m_setStTimeEvents :
           /\ m_mapTimeEventIndexs[Id(m_setStTimeEvents[i])] = Due(m_setStTimeEvents[i])
           /\ \A j \in DOMAIN m_setStTimeEvents :
                  Id(m_setStTimeEvents[i]) = Id(m_setStTimeEvents[j]) => i = j
    /\ \A id \in TimerIds : m_mapTimeEventIndexs[id] # NoTime =>
           \E i \in DOMAIN m_setStTimeEvents : m_setStTimeEvents[i] = <<m_mapTimeEventIndexs[id], id>>

(* A callback begins only for a timer that is still registered with the    *)
(* due time it was given last - never for a deleted or a replaced one -,   *)
(* never before that time, and never while an earlier one is registered.   *)
FiresRight ==
    [][pc = "fire" /\ pc' = "callback" =>
        /\ Due(fired') <= now
        /\ m_mapTimeEventIndexs[Id(fired')] = Due(fired')
        /\ \A id \in TimerIds : m_mapTimeEventIndexs[id] # NoTime =>
               m_mapTimeEventIndexs[id] >= Due(fired')]_vars

(* No timer is later than twice the time handlers may take: once because   *)
(* the wait is computed from a clock read before the callbacks ran, once   *)
(* for the handlers and callbacks that run between the wait and its own.   *)
(* A timer that is in the index is in the multiset, where the loop looks.  *)
Punctual ==
    /\ TypeOK /\ IndexMatchesSet
    /\ \A id \in TimerIds : m_mapTimeEventIndexs[id] # NoTime =>
           now <= m_mapTimeEventIndexs[id] + 2 * MaxBusy

(* Under fairness: a timer whose time comes fires, is deleted or replaced. *)
EveryTimerFires ==
    \A id \in TimerIds : \A t \in 0 .. MaxTime - MaxBusy :
        m_mapTimeEventIndexs[id] = t ~> m_mapTimeEventIndexs[id] # t
=============================================================================
