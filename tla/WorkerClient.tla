---------------------------- MODULE WorkerClient ----------------------------
(***************************************************************************)
(* One client that a CNetWorker connects: connect and onTcpConnect, write  *)
(* with the buffer of what the kernel would not take, onWrite, close, and  *)
(* the handlers its descriptor has in CEvent.  Everything runs in the      *)
(* worker's thread; the callback onConnect may write and close.  A message *)
(* is two pieces; the kernel takes any number of them.  addFdEvent and     *)
(* delFdEvent are taken to succeed.                                        *)
(***************************************************************************)
EXTENDS Integers, Sequences

CONSTANTS
    MaxSends,           (* maxima of the send buffer, in pieces              *)
    MaxWrites           (* bound: calls of write                             *)

VARIABLES
    dwMaxSendBufLen,
    client,             (* "none", "open", "closed": m_vecClients[iFd]       *)
    bNeedClose,
    sendBuf,            (* pSocketSendBuf's data; write takes NULL for empty *)
    watchRead,          (* EV_READ                                           *)
    watchWrite,         (* EV_WRITE: "none", or the handler                  *)
    peerState,          (* "connecting", "up", "ended", "broken"             *)
    callback,           (* "no", "connect", "connectNow", "connectFail"      *)
    told,               (* onConnect(true) has been called                   *)
    unwatched,          (* why nobody reads: connected at once, or written to *)
                        (* before it was connected                           *)
    sent,               (* pieces the kernel took                            *)
    owed,               (* pieces of the writes that returned 0              *)
    torn,               (* a write sent a part and returned -1               *)
    closeDue,           (* the last write asked to close and returned 0      *)
    drained,            (* closed because everything was sent                *)
    writes

clientVars == <<dwMaxSendBufLen, client, bNeedClose, sendBuf, watchRead, watchWrite, peerState, callback,
                told, unwatched, sent, owed, torn, closeDue, drained, writes>>
buffers == <<bNeedClose, sendBuf>>
history == <<dwMaxSendBufLen, sent, owed, torn, closeDue, drained, writes>>

ClientInit ==
    /\ dwMaxSendBufLen \in MaxSends
    /\ client = "none" /\ bNeedClose = FALSE
    /\ sendBuf = <<>>
    /\ watchRead = FALSE /\ watchWrite = "none"
    /\ peerState = "connecting" /\ callback = "no"
    /\ told = FALSE /\ unwatched = FALSE
    /\ sent = <<>> /\ owed = <<>> /\ torn = FALSE /\ closeDue = FALSE /\ drained = FALSE
    /\ writes = 0

\* isClose; and close(int), which drops the buffer and both handlers.
IsClose == client # "open"
CloseClient ==
    /\ client' = "closed"
    /\ sendBuf' = <<>>
    /\ watchRead' = FALSE /\ watchWrite' = "none"
StaysOpen(buffer, handler) ==
    /\ client' = "open" /\ sendBuf' = buffer
    /\ watchWrite' = handler
    /\ UNCHANGED watchRead
NothingSent == UNCHANGED <<client, sendBuf, watchRead, watchWrite>>

\* lce::Send of s: how many pieces the kernel may take; -1 for an error that is
\* neither EAGAIN nor EINTR.
SendResult(s) ==
    CASE peerState = "connecting" -> {0}
      [] peerState \in {"up", "ended"} -> -1 .. Len(s)
      [] peerState = "broken" -> {-1}

-----------------------------------------------------------------------------
\* connect: fails at once, succeeds at once without a descriptor in epoll, or
\* waits for the descriptor to become writable.
ConnectNow ==
    /\ client = "none"
    /\ client' = "open" /\ peerState' = "up"
    /\ callback' = "connectNow" /\ told' = TRUE /\ unwatched' = TRUE
    /\ UNCHANGED <<buffers, watchRead, watchWrite, history>>
ConnectWaits ==
    /\ client = "none"
    /\ client' = "open" /\ watchWrite' = "onTcpConnect"
    /\ UNCHANGED <<buffers, watchRead, peerState, callback, told, unwatched, history>>
ConnectFails ==
    /\ client = "none" /\ client' = "closed"
    /\ UNCHANGED <<buffers, watchRead, watchWrite, peerState, callback, told, unwatched, history>>

\* onTcpConnect takes its handler away, then calls back.
OnTcpConnect ==
    /\ callback = "no" /\ watchWrite = "onTcpConnect" /\ peerState # "connecting"
    /\ watchWrite' = "none"
    /\ callback' = IF peerState = "broken" THEN "connectFail" ELSE "connect"
    /\ told' = (peerState # "broken")
    /\ UNCHANGED <<client, buffers, watchRead, peerState, unwatched, history>>
\* What follows the callback: EV_READ, if it has not closed; or close.
ConnectReturns ==
    /\ callback # "no" /\ callback' = "no"
    /\ IF callback = "connectFail" /\ ~IsClose THEN CloseClient
       ELSE /\ watchRead' = (watchRead \/ (callback = "connect" /\ ~IsClose))
            /\ UNCHANGED <<client, sendBuf, watchWrite>>
    /\ UNCHANGED <<bNeedClose, peerState, told, unwatched, history>>

-----------------------------------------------------------------------------
\* addData: refused when it would exceed the maximum.
Fit(buffer, s) == Len(buffer) + Len(s) <= dwMaxSendBufLen

\* The outcomes of write: 0 or -1, with the pieces taken in all.
Accepted(msg, taken, bClose) ==
    /\ sent' = sent \o taken /\ owed' = owed \o msg /\ closeDue' = bClose
    /\ UNCHANGED torn
Refused(taken, tears) ==
    /\ sent' = sent \o taken /\ torn' = (torn \/ tears) /\ closeDue' = FALSE
    /\ UNCHANGED owed

\* A message while earlier data waits: kept behind them, or refused; before is
\* what the kernel has just taken of the earlier data.
Kept(msg, before, buffer, bClose) ==
    IF Fit(buffer, msg)
    THEN StaysOpen(buffer \o msg, "onWrite") /\ Accepted(msg, before, bClose) /\ UNCHANGED drained
    ELSE StaysOpen(buffer, watchWrite) /\ Refused(before, FALSE) /\ UNCHANGED drained

\* With nothing before it: sent at once, and what is not taken kept.
SendNew_Restarts(msg, before, bClose) ==
    \E k \in SendResult(msg) :
        LET rest == IF k > 0 THEN msg ELSE SubSeq(msg, k + 1, Len(msg))
            taken == before \o SubSeq(msg, 1, k)
        IN IF k = -1 THEN StaysOpen(<<>>, watchWrite) /\ Refused(before, FALSE) /\ UNCHANGED drained
           ELSE StaysOpen(rest, "onWrite") /\ Accepted(msg, taken, bClose) /\ UNCHANGED drained
SendNew(msg, before, bClose) ==
    \E k \in SendResult(msg) :
        LET rest == SubSeq(msg, k + 1, Len(msg))
            taken == before \o SubSeq(msg, 1, k)
        IN \/ k = -1 /\ StaysOpen(<<>>, watchWrite) /\ Refused(before, FALSE) /\ UNCHANGED drained
           \/ /\ k \in 0 .. Len(msg) - 1 /\ Fit(<<>>, rest)
              /\ StaysOpen(rest, "onWrite") /\ Accepted(msg, taken, bClose) /\ UNCHANGED drained
           \/ /\ k \in 0 .. Len(msg) - 1 /\ ~Fit(<<>>, rest)
              /\ StaysOpen(<<>>, watchWrite) /\ Refused(taken, k > 0) /\ UNCHANGED drained
           \/ /\ k = Len(msg) /\ Accepted(msg, taken, bClose)
              /\ IF bClose THEN CloseClient /\ drained' = TRUE
                           ELSE StaysOpen(<<>>, "none") /\ UNCHANGED drained

\* write(session, message, bClose): bNeedClose first, then the earlier data.
WriteBuffered(msg, bClose) ==
    \E k \in SendResult(sendBuf) :
        IF k = -1 THEN NothingSent /\ Refused(<<>>, FALSE) /\ UNCHANGED drained
        ELSE IF k < Len(sendBuf)
        THEN Kept(msg, SubSeq(sendBuf, 1, k), SubSeq(sendBuf, k + 1, Len(sendBuf)), bClose)
        ELSE SendNew(msg, sendBuf, bClose)
WorkerWrite(bClose) ==
    /\ ~IsClose /\ writes < MaxWrites
    /\ writes' = writes + 1
    /\ bNeedClose' = bClose
    /\ LET msg == <<2 * writes + 1, 2 * writes + 2>>
       IN IF sendBuf = <<>> THEN SendNew(msg, <<>>, bClose) ELSE WriteBuffered(msg, bClose)
    /\ unwatched' = (unwatched \/ watchWrite = "onTcpConnect")
    /\ UNCHANGED <<dwMaxSendBufLen, peerState, callback, told>>

\* onWrite and write(int).
OnWrite ==
    /\ callback = "no" /\ watchWrite = "onWrite" /\ peerState # "connecting"
    /\ \E k \in IF sendBuf = <<>> THEN {0} ELSE SendResult(sendBuf) :
        IF k = -1 THEN CloseClient /\ UNCHANGED <<sent, drained>>
        ELSE /\ sent' = sent \o SubSeq(sendBuf, 1, k)
             /\ IF k < Len(sendBuf)
                THEN StaysOpen(SubSeq(sendBuf, k + 1, Len(sendBuf)), watchWrite) /\ UNCHANGED drained
                ELSE IF bNeedClose THEN CloseClient /\ drained' = TRUE
                     ELSE StaysOpen(<<>>, "none") /\ UNCHANGED drained
    /\ UNCHANGED <<dwMaxSendBufLen, bNeedClose, peerState, callback, told, unwatched, owed, torn, closeDue, writes>>

\* The application, or onTcpRead at the end of the stream or on an error.
AppCloses ==
    /\ ~IsClose /\ CloseClient
    /\ UNCHANGED <<bNeedClose, peerState, callback, told, unwatched, history>>
ReadCloses ==
    /\ callback = "no" /\ watchRead /\ peerState \in {"ended", "broken"}
    /\ CloseClient
    /\ UNCHANGED <<bNeedClose, peerState, callback, told, unwatched, history>>

PeerChanges ==
    /\ client = "open"
    /\ peerState' \in CASE peerState = "connecting" -> {"up", "broken"}
                        [] peerState = "up" -> {"ended", "broken"}
                        [] OTHER -> {"broken"}
    /\ UNCHANGED <<client, buffers, watchRead, watchWrite, callback, told, unwatched, history>>

ClientNext ==
    \/ ConnectNow \/ ConnectWaits \/ ConnectFails \/ OnTcpConnect \/ ConnectReturns
    \/ (\E bClose \in BOOLEAN : WorkerWrite(bClose))
    \/ OnWrite \/ AppCloses \/ ReadCloses \/ PeerChanges
ClientSpec == ClientInit /\ [][ClientNext]_clientVars

-----------------------------------------------------------------------------
\* What writes promised goes out once and in order, until a write that returned
\* -1 has sent a part of its message; what a callback, a timer or a partial send
\* left behind has the handler that will send it; a client is closed as drained
\* only with everything sent, and is when the last write that was taken asked so;
\* a client that was told is read, unless its connect succeeded at once or the
\* write handler took the place of onTcpConnect.
WireInOrder ==
    ~torn => IF IsClose THEN sent = SubSeq(owed, 1, Len(sent)) /\ Len(sent) <= Len(owed)
             ELSE sent \o sendBuf = owed
QueueWatched ==
    sendBuf # <<>> => watchWrite = "onWrite"
ClosedWhenDrained ==
    /\ drained /\ ~torn => sent = owed
    /\ ~IsClose /\ closeDue => sendBuf # <<>>
Served ==
    ~IsClose /\ ~unwatched /\ callback = "no" =>
        IF told THEN watchRead ELSE watchWrite = "onTcpConnect"
WorkerWrites == WireInOrder /\ QueueWatched /\ ClosedWhenDrained /\ Served
=============================================================================
