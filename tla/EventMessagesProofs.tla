------------------------ MODULE EventMessagesProofs ------------------------
(***************************************************************************)
(* Proofs about EventMessages, for any number of threads and any size of   *)
(* the pipe: m_lock has one holder, the pipe holds one byte for each       *)
(* queued message, and messages are handled in the order they were sent.   *)
(***************************************************************************)
EXTENDS EventMessages, SequenceTheorems, TLAPS

(* What LockHolder lacks to be inductive: the loop's thread is in          *)
(* addMessage only from one of its own handlers, so it never comes to wait *)
(* for m_lock on both sides.                                               *)
LoopSendsFromHandlers == pc[Loop] # "idle" => at \in {"message", "timer"}

IInv == TypeOK /\ LockHolder /\ LoopSendsFromHandlers

LEMMA LoopIsASender == Loop \in Senders /\ Free \notin Senders
BY EventMessagesAssumption DEF Senders

-----------------------------------------------------------------------------
(* Sequences: moving the first element of one to the end of another.       *)
LEMMA AppendAtEnd ==
    ASSUME NEW S, NEW h \in Seq(S), NEW q \in Seq(S), NEW e \in S
    PROVE  h \o Append(q, e) = Append(h \o q, e)
<1>1. h \o q \in Seq(S) /\ <<e>> \in Seq(S)
  BY ConcatProperties
<1>2. Append(q, e) = q \o <<e>> /\ Append(h \o q, e) = (h \o q) \o <<e>>
  BY <1>1, AppendIsConcat
<1>. QED  BY <1>1, <1>2, ConcatAssociative

LEMMA MoveHead ==
    ASSUME NEW S, NEW h \in Seq(S), NEW q \in Seq(S), q # <<>>
    PROVE  Append(h, Head(q)) \o Tail(q) = h \o q
<1>1. Head(q) \in S /\ Tail(q) \in Seq(S) /\ <<Head(q)>> \in Seq(S)
  BY HeadTailProperties
<1>2. q = <<Head(q)>> \o Tail(q)
  <2>1. <<Head(q)>> \o Tail(q) \in Seq(S) /\ Len(<<Head(q)>> \o Tail(q)) = Len(q)
    BY <1>1, HeadTailProperties, ConcatProperties
  <2>2. \A i \in 1 .. Len(q) : (<<Head(q)>> \o Tail(q))[i] = q[i]
    BY <1>1, HeadTailProperties, ConcatProperties
  <2>. QED  BY <2>1, <2>2, SeqEqual
<1>3. Append(h, Head(q)) = h \o <<Head(q)>>
  BY <1>1, AppendIsConcat
<1>. QED  BY <1>1, <1>2, <1>3, ConcatAssociative

-----------------------------------------------------------------------------
LEMMA InitIInv == Init => IInv
BY LoopIsASender, EventMessagesAssumption
   DEF Init, IInv, TypeOK, LockHolder, LoopSendsFromHandlers

LEMMA TypeNext == TypeOK /\ LockHolder /\ [Next]_vars => TypeOK'
<1>. SUFFICES ASSUME TypeOK, LockHolder, [Next]_vars PROVE TypeOK'
  OBVIOUS
<1>. USE DEF TypeOK
<1>1. ASSUME NEW t \in Senders, Send(t) PROVE TypeOK'
  BY <1>1 DEF Send
<1>2. ASSUME NEW t \in Senders, Push(t) PROVE TypeOK'
  <2>1. <<t, Len(sent) + 1>> \in Message
    BY <1>2 DEF Message
  <2>. QED  BY <1>2, <2>1 DEF Push
<1>3. ASSUME NEW t \in Senders, Write(t) PROVE TypeOK'
  BY <1>3, EventMessagesAssumption DEF Write
<1>4. CASE Wake
  BY <1>4 DEF Wake
<1>5. CASE LoopLock
  BY <1>5, LoopIsASender DEF LoopLock
<1>6. CASE Take
  <2>1. Oldest \in Message /\ Tail(m_queMsgEvents) \in Seq(Message)
    BY <1>6, HeadTailProperties DEF Take, Oldest
  <2>. QED  BY <1>6, <2>1, EventMessagesAssumption DEF Take
<1>7. CASE NothingTaken
  BY <1>7, EventMessagesAssumption DEF NothingTaken
<1>8. CASE Return
  BY <1>8 DEF Return
<1>9. CASE OtherHandler
  BY <1>9 DEF OtherHandler
<1>10. CASE UNCHANGED vars
  BY <1>10 DEF vars
<1>. QED
  BY <1>1, <1>2, <1>3, <1>4, <1>5, <1>6, <1>7, <1>8, <1>9, <1>10
     DEF Next, AddMessage, LoopStep

LEMMA IInvNext == IInv /\ [Next]_vars => IInv'
<1>. SUFFICES ASSUME IInv, [Next]_vars PROVE (LockHolder /\ LoopSendsFromHandlers)'
  BY TypeNext DEF IInv
<1>. USE LoopIsASender DEF IInv, TypeOK, LockHolder, LoopSendsFromHandlers
<1>1. ASSUME NEW t \in Senders, Send(t) PROVE (LockHolder /\ LoopSendsFromHandlers)'
  BY <1>1 DEF Send
<1>2. ASSUME NEW t \in Senders, Push(t) PROVE (LockHolder /\ LoopSendsFromHandlers)'
  BY <1>2 DEF Push
<1>3. ASSUME NEW t \in Senders, Write(t) PROVE (LockHolder /\ LoopSendsFromHandlers)'
  BY <1>3 DEF Write
<1>4. CASE Wake
  BY <1>4 DEF Wake
<1>5. CASE LoopLock
  BY <1>5 DEF LoopLock
<1>6. CASE Take
  BY <1>6 DEF Take
<1>7. CASE NothingTaken
  BY <1>7 DEF NothingTaken
<1>8. CASE Return
  BY <1>8 DEF Return
<1>9. CASE OtherHandler
  BY <1>9 DEF OtherHandler
<1>10. CASE UNCHANGED vars
  BY <1>10 DEF vars
<1>. QED
  BY <1>1, <1>2, <1>3, <1>4, <1>5, <1>6, <1>7, <1>8, <1>9, <1>10
     DEF Next, AddMessage, LoopStep

LEMMA IInvAlways == Spec => []IInv
BY InitIInv, IInvNext, PTL DEF Spec

(* The variables hold what they are declared to hold.                      *)
THEOREM TypeCorrect == Spec => []TypeOK
BY IInvAlways, PTL DEF IInv

(* m_lock is held by one thread, and the loop's is never on both sides.    *)
THEOREM OneLockHolder == Spec => []LockHolder
BY IInvAlways, PTL DEF IInv

-----------------------------------------------------------------------------
LEMMA OneByteNext == IInv /\ OneBytePerMessage /\ [Next]_vars => OneBytePerMessage'
<1>. SUFFICES ASSUME IInv, OneBytePerMessage, [Next]_vars PROVE OneBytePerMessage'
  OBVIOUS
<1>. USE LoopIsASender DEF IInv, TypeOK, LockHolder, OneBytePerMessage, Unwritten
<1>1. ASSUME NEW t \in Senders, Send(t) PROVE OneBytePerMessage'
  <2>1. m_lock = t => pc[t] # "write" /\ pc'[t] # "write"
    BY <1>1 DEF Send
  <2>. QED  BY <1>1, <2>1 DEF Send
<1>2. ASSUME NEW t \in Senders, Push(t) PROVE OneBytePerMessage'
  <2>1. Len(m_queMsgEvents') = Len(m_queMsgEvents) + 1
    BY <1>2, AppendProperties, SMTT(30) DEF Push, Message
  <2>. QED  BY <1>2, <2>1 DEF Push
<1>3. ASSUME NEW t \in Senders, Write(t) PROVE OneBytePerMessage'
  BY <1>3 DEF Write
<1>4. CASE Wake
  BY <1>4 DEF Wake
<1>5. CASE LoopLock
  BY <1>5 DEF LoopLock
<1>6. CASE Take
  <2>1. Len(m_queMsgEvents') = Len(m_queMsgEvents) - 1
    BY <1>6, HeadTailProperties DEF Take
  <2>. QED  BY <1>6, <2>1 DEF Take
<1>7. CASE NothingTaken
  <2>1. Len(m_queMsgEvents) = pipe
    BY <1>7 DEF NothingTaken
  <2>2. pipe = 0
    BY <1>7, <2>1, EmptySeq DEF NothingTaken
  <2>. QED  BY <1>7, <2>1, <2>2 DEF NothingTaken
<1>8. CASE Return
  BY <1>8 DEF Return
<1>9. CASE OtherHandler
  BY <1>9 DEF OtherHandler
<1>10. CASE UNCHANGED vars
  BY <1>10 DEF vars
<1>. QED
  BY <1>1, <1>2, <1>3, <1>4, <1>5, <1>6, <1>7, <1>8, <1>9, <1>10
     DEF Next, AddMessage, LoopStep

(* Every queued message has its wake-up: one byte in the pipe, or a sender *)
(* that holds m_lock and is about to write it.                             *)
THEOREM WakeupPerMessage == Spec => []OneBytePerMessage
<1>1. Init => OneBytePerMessage
  BY DEF Init, OneBytePerMessage, Unwritten
<1>. QED  BY <1>1, OneByteNext, IInvAlways, PTL DEF Spec

LEMMA HandledNext == TypeOK /\ HandledInOrder /\ [Next]_vars => HandledInOrder'
<1>. SUFFICES ASSUME TypeOK, HandledInOrder, [Next]_vars PROVE HandledInOrder'
  OBVIOUS
<1>. USE DEF TypeOK, HandledInOrder
<1>1. ASSUME NEW t \in Senders, Push(t) PROVE HandledInOrder'
  <2>1. <<t, Len(sent) + 1>> \in Message
    BY DEF Message
  <2>2. handled \o Append(m_queMsgEvents, <<t, Len(sent) + 1>>)
            = Append(handled \o m_queMsgEvents, <<t, Len(sent) + 1>>)
    BY <2>1, AppendAtEnd
  <2>. QED  BY <1>1, <2>2 DEF Push
<1>2. CASE Take
  BY <1>2, MoveHead DEF Take, Oldest
<1>3. CASE UNCHANGED <<m_queMsgEvents, sent, handled>>
  BY <1>3
<1>. QED
  BY <1>1, <1>2, <1>3 DEF Next, AddMessage, LoopStep, vars, Send, Write, Wake,
     LoopLock, NothingTaken, Return, OtherHandler

(* Messages are handled in the order in which they were sent, each once.   *)
THEOREM InOrder == Spec => []HandledInOrder
<1>1. Init => HandledInOrder
  BY DEF Init, HandledInOrder
<1>. QED  BY <1>1, HandledNext, TypeCorrect, PTL DEF Spec
=============================================================================
