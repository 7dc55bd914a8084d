--------------------------- MODULE EventMessages ---------------------------
(***************************************************************************)
(* CEvent's messages: any thread, the loop's own handlers included, calls  *)
(* addMessage, which queues the message and writes one byte into a pipe    *)
(* while it holds m_lock; the loop, woken by the pipe, takes one message   *)
(* for each byte, under the same lock, and calls its handler without it.   *)
(* Only the pipe's reading end is non-blocking.                            *)
(***************************************************************************)
EXTENDS Naturals, Sequences, FiniteSets

CONSTANTS
    Threads,        (* the threads other than the loop's that send messages  *)
    Loop,           (* the loop's thread                                     *)
    Free,           (* m_lock's holder when nobody holds it                  *)
    PipeSize,       (* bytes the pipe takes before a write blocks            *)
    MaxPending,     (* bound: messages sent and not yet taken                *)
    MaxMessages     (* bound: messages ever sent                             *)

Senders == Threads \cup {Loop}

ASSUME EventMessagesAssumption ==
    /\ Loop \notin Threads /\ Free \notin Senders
    /\ PipeSize \in Nat \ {0} /\ MaxPending \in Nat /\ MaxMessages \in Nat

VARIABLES
    m_queMsgEvents, (* the queue                                             *)
    pipe,           (* bytes in m_iMsgFd                                     *)
    m_lock,         (* who holds it                                          *)
    pc,             (* each sender, in addMessage: idle, lock, write         *)
    at,             (* the loop: wait, lock, read, message, timer            *)
    sent,           (* the messages in the order in which they were queued   *)
    handled         (* the messages whose handler was called, in order       *)

vars == <<m_queMsgEvents, pipe, m_lock, pc, at, sent, handled>>

Init ==
    /\ m_queMsgEvents = <<>> /\ pipe = 0 /\ m_lock = Free
    /\ pc = [t \in Senders |-> "idle"] /\ at = "wait"
    /\ sent = <<>> /\ handled = <<>>

-----------------------------------------------------------------------------
Calling == {t \in Senders : pc[t] = "lock"}

\* The loop's thread calls addMessage from a handler.
Send(t) ==
    /\ pc[t] = "idle"
    /\ t = Loop => at \in {"message", "timer"}
    /\ Len(m_queMsgEvents) + Cardinality(Calling) < MaxPending
    /\ Len(sent) + Cardinality(Calling) < MaxMessages
    /\ pc' = [pc EXCEPT ![t] = "lock"]
    /\ UNCHANGED <<m_queMsgEvents, pipe, m_lock, at, sent, handled>>


Push(t) ==
    /\ pc[t] = "lock" /\ m_lock = Free
    /\ m_lock' = t
    /\ m_queMsgEvents' = Append(m_queMsgEvents, <<t, Len(sent) + 1>>)
    /\ sent' = Append(sent, <<t, Len(sent) + 1>>)
    /\ pc' = [pc EXCEPT ![t] = "write"]
    /\ UNCHANGED <<pipe, at, handled>>

\* write(2) blocks while the pipe is full, and the lock is held meanwhile.
Write_OnlyIfEmpty(t) ==
    /\ pc[t] = "write" /\ pipe < PipeSize
    /\ pipe' = IF pipe = 0 THEN 1 ELSE pipe
    /\ m_lock' = Free
    /\ pc' = [pc EXCEPT ![t] = "idle"]
    /\ UNCHANGED <<m_queMsgEvents, at, sent, handled>>

Write(t) ==
    /\ pc[t] = "write" /\ pipe < PipeSize
    /\ pipe' = pipe + 1
    /\ m_lock' = Free
    /\ pc' = [pc EXCEPT ![t] = "idle"]
    /\ UNCHANGED <<m_queMsgEvents, at, sent, handled>>

-----------------------------------------------------------------------------
\* epoll_wait returns the pipe's entry.
Wake ==
    /\ at = "wait" /\ pipe > 0
    /\ at' = "lock"
    /\ UNCHANGED <<m_queMsgEvents, pipe, m_lock, pc, sent, handled>>

\* A timer's or a descriptor's handler.
OtherHandler ==
    /\ at = "wait"
    /\ at' = "timer"
    /\ UNCHANGED <<m_queMsgEvents, pipe, m_lock, pc, sent, handled>>

LoopLock ==
    /\ at = "lock" /\ m_lock = Free
    /\ m_lock' = Loop /\ at' = "read"
    /\ UNCHANGED <<m_queMsgEvents, pipe, pc, sent, handled>>

Oldest_Last == m_queMsgEvents[Len(m_queMsgEvents)]
Oldest == Head(m_queMsgEvents)

\* One byte read, one message taken; m_lock is released before the handler.
Take ==
    /\ at = "read" /\ pipe > 0 /\ m_queMsgEvents # <<>>
    /\ pipe' = pipe - 1
    /\ m_queMsgEvents' = Tail(m_queMsgEvents)
    /\ handled' = Append(handled, Oldest)
    /\ m_lock' = Free /\ at' = "message"
    /\ UNCHANGED <<pc, sent>>

\* The read fails, or there is a byte and no message: the loop goes on.
NothingTaken ==
    /\ at = "read" /\ (pipe = 0 \/ m_queMsgEvents = <<>>)
    /\ pipe' = IF pipe = 0 THEN 0 ELSE pipe - 1
    /\ m_lock' = Free /\ at' = "wait"
    /\ UNCHANGED <<m_queMsgEvents, pc, sent, handled>>

\* A message's handler is followed by the next read, another one by epoll_wait.
Return ==
    /\ at \in {"message", "timer"} /\ pc[Loop] = "idle"
    /\ at' = IF at = "message" THEN "lock" ELSE "wait"
    /\ UNCHANGED <<m_queMsgEvents, pipe, m_lock, pc, sent, handled>>

-----------------------------------------------------------------------------
AddMessage(t) == Push(t) \/ Write(t)
LoopStep == Wake \/ LoopLock \/ Take \/ NothingTaken \/ Return
Next == (\E t \in Senders : Send(t) \/ AddMessage(t)) \/ LoopStep \/ OtherHandler

Spec == Init /\ [][Next]_vars

(* Every thread runs; epoll_wait reports the pipe in whatever round it is  *)
(* called; whoever waits for m_lock gets it in the end.                    *)
Fairness ==
    /\ WF_vars(LoopStep) /\ SF_vars(Wake) /\ SF_vars(LoopLock)
    /\ \A t \in Senders : SF_vars(AddMessage(t))
FairSpec == Spec /\ Fairness

-----------------------------------------------------------------------------
Message == Senders \X (Nat \ {0})

TypeOK ==
    /\ m_queMsgEvents \in Seq(Message) /\ sent \in Seq(Message) /\ handled \in Seq(Message)
    /\ pipe \in 0 .. PipeSize
    /\ m_lock \in Senders \cup {Free}
    /\ pc \in [Senders -> {"idle", "lock", "write"}]
    /\ at \in {"wait", "lock", "read", "message", "timer"}

(* m_lock is held exactly by the sender that is writing its byte, or by    *)
(* the loop's thread while it reads one: never by two at once, although    *)
(* the loop's thread is on both sides of it.                               *)
LockHolder ==
    /\ \A t \in Senders : pc[t] = "write" => m_lock = t
    /\ at = "read" => m_lock = Loop /\ pc[Loop] = "idle"
    /\ m_lock # Free => at = "read" \/ pc[m_lock] = "write"

(* The pipe holds one byte for each queued message, but for the one whose  *)
(* sender is still at its write: no message is left without the wake-up    *)
(* that makes the loop take it, and no byte is left without a message.     *)
Unwritten == IF m_lock # Free /\ pc[m_lock] = "write" THEN 1 ELSE 0
OneBytePerMessage == Len(m_queMsgEvents) = pipe + Unwritten

(* The messages handled, then those still queued, are exactly the messages *)
(* sent, in the order in which they were sent.                             *)
HandledInOrder == handled \o m_queMsgEvents = sent

(* Under fairness: every message is handled.                               *)
AllHandled == \A n \in 1 .. MaxMessages : Len(sent) >= n ~> Len(handled) >= n

(* Sending a message does not block: the thread that holds m_lock is never *)
(* held up by a full pipe, which only the loop could empty, and only once  *)
(* it has m_lock itself.                                                   *)
NeverBlocks == \A t \in Senders : pc[t] = "write" => pipe < PipeSize
=============================================================================
