------------------------------ MODULE CommMgr ------------------------------
(***************************************************************************)
(* CCommMgr: one thread runs CEvent's loop, accepts and opens TCP          *)
(* connections, reads packages, writes answers and calls the application   *)
(* back; the application calls write, close and connect from inside those  *)
(* callbacks.  A session names a connection by its descriptor, and the     *)
(* kernel gives a closed descriptor to the next connection.                *)
(*                                                                         *)
(* Connections are numbered in the order in which they come into being; a  *)
(* write sends one unit of two pieces, tagged with the session it was      *)
(* written to.  Between two steps of the loop the peers connect, send,     *)
(* stop reading, close or reset.                                           *)
(***************************************************************************)
EXTENDS FdEvents, Sequences, SequencesExt, FiniteSetsExt

CONSTANTS
    MaxClient,      (* m_dwMaxClient                                         *)
    SendMax,        (* dwMaxSendBufLen, in pieces                            *)
    Listener,       (* the listening socket's entry in epoll                 *)
    NoFd, NoBuf,    (* no descriptor; a NULL buffer pointer                  *)
    MaxConns,       (* bound: connections ever made                          *)
    MaxWrites,      (* bound: calls of write                                 *)
    Items,          (* what peers send: "pkg", a whole package; "part" of    *)
                    (* one that is too large; "bad", what is no package      *)
    MaxInbox        (* bound: what a peer may have sent and not yet been read*)

Conns == 1 .. MaxConns
NoConn == 0
Piece == Conns \X {1, 2}
Unit(s) == << <<s, 1>>, <<s, 2>> >>

\* A NULL pointer is no buffer, whatever the buffer holds.
ASSUME CommMgrAssumption ==
    /\ {MaxClient, SendMax, MaxConns, MaxWrites, MaxInbox} \subseteq Nat
    /\ Listener \notin Fds /\ NoFd \notin Fds
    /\ NoBuf \notin Seq(Piece) /\ NoBuf \notin Seq(Items)

VARIABLES
    client,         (* m_vecClients                                          *)
    m_dwClientNum,
    pc,             (* the loop is here, or inside a handler's loop          *)
    call,           (* the callback the application is in                    *)
    batch,          (* what epoll_wait returned and is not yet handled       *)
    cur,            (* the entry whose EPOLLIN is handled and EPOLLOUT not   *)
    conn,           (* kernel: the connection a descriptor stands for        *)
    net,            (* kernel and peer: the state of each connection         *)
    backlog,        (* kernel: connections waiting for accept                *)
    reopened,       (* descriptors given out since the last epoll_wait       *)
    writes          (* calls of write so far                                 *)

slots == <<client, m_dwClientNum>>
loop  == <<pc, call, batch, cur>>
world == <<conn, net, backlog, reopened>>
vars  == <<eventVars, slots, loop, world, writes>>

Link == {"unused", "up", "connecting", "refused", "fin", "rst", "closed", "drained"}

Queue(f) == IF client[f].send = NoBuf THEN <<>> ELSE client[f].send
IsClose(f) == ~client[f].iFd

\* A connection nobody has used.
Fresh == [link |-> "unused", inbox |-> <<>>, room |-> TRUE, sent |-> <<>>,
          fd |-> NoFd, known |-> FALSE, owed |-> <<>>, whole |-> TRUE]

Init ==
    /\ FdEventsInit
    /\ client = [f \in Fds |-> [iFd |-> FALSE, iSrvId |-> "srv", bNeedClose |-> FALSE,
                                recv |-> NoBuf, send |-> NoBuf]]
    /\ m_dwClientNum = 0
    /\ pc = "loop" /\ cur = NoFd
    /\ call = [on |-> "none", fd |-> NoFd, conn |-> NoConn]
    /\ batch = [e \in Fds \cup {Listener} |-> {}]
    /\ conn = [f \in Fds |-> NoConn]
    /\ net = [c \in Conns |-> Fresh]
    /\ backlog = <<>> /\ reopened = {} /\ writes = 0

-----------------------------------------------------------------------------
(* The kernel's side of a descriptor.                                      *)
ConnOf(f) == IF f = NoFd THEN NoConn ELSE conn[f]
LinkOf(f) == IF conn[f] = NoConn THEN "none" ELSE net[conn[f]].link
FreeFds == {f \in Fds : conn[f] = NoConn}
Unused == {c \in Conns : net[c].link = "unused"}

\* A connection's end: the descriptor is free, what was not read is gone.
Ended(n, c, how) ==
    IF c = NoConn THEN n
    ELSE IF how = "drained" THEN [n EXCEPT ![c].link = how, ![c].inbox = <<>>]
    ELSE [n EXCEPT ![c] = [Fresh EXCEPT !.link = how, !.fd = n[c].fd, !.known = n[c].known]]

\* send(): the pieces taken of n offered; 0 is EAGAIN.
SendFails(f) == LinkOf(f) \in {"none", "refused", "rst"}
SendSizes(f, n) ==
    IF n > 0 /\ LinkOf(f) \in {"up", "fin"} /\ net[conn[f]].room THEN 1 .. n ELSE {0}
Transmitted(f, out, k) ==
    IF k = 0 THEN net
    ELSE [net EXCEPT ![conn[f]].sent = @ \o SubSeq(out, 1, k), ![conn[f]].room = k = Len(out)]

Ready(f) ==
    LET c == conn[f] broken == LinkOf(f) \in {"rst", "refused"} IN
    IF interest[f] = {} THEN {} ELSE
       (IF broken \/ ("EV_READ" \in interest[f] /\ (net[c].inbox # <<>> \/ net[c].link = "fin"))
        THEN {"IN"} ELSE {})
       \cup
       (IF "EV_WRITE" \in interest[f]
           /\ (broken \/ (net[c].link \in {"up", "fin"} /\ net[c].room))
        THEN {"OUT"} ELSE {})

-----------------------------------------------------------------------------
\* Only the clients of a server are counted.
Counted_All(slot) == 1
Counted(slot) == IF slot.iSrvId = "srv" THEN 1 ELSE 0

(* close(int): slot is the client's record as its caller leaves it, n the  *)
(* network after the caller's sends.                                       *)
Close(f, slot, n, how) ==
    /\ client' = [client EXCEPT ![f] = [slot EXCEPT !.iFd = FALSE, !.recv = NoBuf, !.send = NoBuf]]
    /\ m_dwClientNum' = m_dwClientNum - Counted(slot)
    /\ DelFdEvent(f, EvType)
    /\ conn' = [conn EXCEPT ![f] = NoConn]
    /\ net' = Ended(n, conn[f], how)
    /\ UNCHANGED <<backlog, reopened>>

\* A callback begins; it ends with one of the Return actions.
CallBack(on, f, c) ==
    /\ pc' = "callback"
    /\ call' = [on |-> on, fd |-> f, conn |-> c]

ResumeAt(p) == pc' = p /\ call' = [on |-> "none", fd |-> NoFd, conn |-> NoConn]

-----------------------------------------------------------------------------
(* CEvent::run: epoll_wait, then the entries one by one.                   *)
Quiet == \A e \in DOMAIN batch : batch[e] = {}

Poll ==
    /\ pc = "loop" /\ Quiet
    /\ batch' = [e \in DOMAIN batch |->
                    IF e = Listener THEN IF backlog = <<>> THEN {} ELSE {"IN"} ELSE Ready(e)]
    /\ batch' # batch
    /\ reopened' = {}
    /\ UNCHANGED <<eventVars, slots, pc, call, cur, conn, net, backlog, writes>>

\* The next entry's EPOLLIN half.
TakeIn(e) ==
    /\ pc = "loop" /\ cur = NoFd /\ "IN" \in batch[e]
    /\ batch' = [batch EXCEPT ![e] = @ \ {"IN"}]
    /\ cur' = IF "OUT" \in batch[e] THEN e ELSE NoFd

\* Its EPOLLOUT half, before any other entry.
TakeOut(e) ==
    /\ pc = "loop" /\ cur \in {NoFd, e} /\ batch[e] = {"OUT"}
    /\ batch' = [batch EXCEPT ![e] = {}]
    /\ cur' = NoFd

-----------------------------------------------------------------------------
(* onAccept: accept until it fails.                                        *)
OnAccept ==
    /\ TakeIn(Listener)
    /\ pc' = "accept"
    /\ UNCHANGED <<eventVars, slots, call, world, writes>>

TooMany == m_dwClientNum > MaxClient

\* More clients than m_dwMaxClient: the new socket is closed at once.
AcceptReject ==
    /\ pc = "accept" /\ backlog # <<>> /\ FreeFds # {}
    /\ TooMany
    /\ net' = Ended(net, Head(backlog), "closed")
    /\ backlog' = Tail(backlog)
    /\ UNCHANGED <<eventVars, slots, loop, conn, reopened, writes>>

AcceptOne(f) ==
    /\ pc = "accept" /\ backlog # <<>> /\ f \in FreeFds
    /\ ~TooMany
    /\ LET c == Head(backlog) IN
       /\ conn' = [conn EXCEPT ![f] = c]
       /\ net' = [net EXCEPT ![c].fd = f, ![c].known = TRUE]
    /\ backlog' = Tail(backlog)
    /\ reopened' = reopened \cup {f}
    /\ client' = [client EXCEPT ![f].iFd = TRUE, ![f].iSrvId = "srv"]
    /\ m_dwClientNum' = m_dwClientNum + 1
    /\ CallBack("accept", f, Head(backlog))
    /\ UNCHANGED <<eventVars, batch, cur, writes>>

\* EAGAIN, or an error such as EMFILE.
AcceptDone ==
    /\ pc = "accept"
    /\ pc' = "loop"
    /\ UNCHANGED <<eventVars, slots, call, batch, cur, world, writes>>

\* The application closed it, or it is watched from now on, or it is dropped
\* with the kernel's close alone: the slot and the count keep it.
ReturnAccept ==
    /\ pc = "callback" /\ call.on = "accept"
    /\ LET f == call.fd IN
       \/ IsClose(f) /\ UNCHANGED <<eventVars, conn, net>>
       \/ ~IsClose(f) /\ AddFdEvent(f, "EV_READ", "none", TRUE) /\ UNCHANGED <<conn, net>>
       \/ /\ ~IsClose(f) /\ AddFdEvent(f, "EV_READ", "none", FALSE)
          /\ conn' = [conn EXCEPT ![f] = NoConn]
          /\ net' = Ended(net, conn[f], "closed")
    /\ ResumeAt("accept")
    /\ UNCHANGED <<slots, batch, cur, backlog, reopened, writes>>

-----------------------------------------------------------------------------
(* onTcpRead: one recv, then the packages that are whole.                  *)
SkipRead(f) ==
    /\ TakeIn(f)
    /\ "EV_READ" \notin fdEvents[f].iEventType \/ IsClose(f)
    /\ UNCHANGED <<eventVars, slots, pc, call, world, writes>>

OnTcpRead(f) ==
    /\ TakeIn(f)
    /\ "EV_READ" \in fdEvents[f].iEventType /\ ~IsClose(f)
    /\ UNCHANGED writes

RecvBuf(f) == IF client[f].recv = NoBuf THEN <<>> ELSE client[f].recv
FreeSize(f) == IF Contains(RecvBuf(f), "part") THEN 0 ELSE 1
Inbox(f) == IF conn[f] = NoConn THEN <<>> ELSE net[conn[f]].inbox

\* No room left for the rest of the package, or recv failed.
ReadError(f) ==
    /\ OnTcpRead(f)
    /\ FreeSize(f) = 0 \/ (Inbox(f) = <<>> /\ LinkOf(f) \in {"none", "refused"})
    /\ Close(f, client[f], net, "closed")
    /\ UNCHANGED <<pc, call>>

ReadNothing(f) ==
    /\ OnTcpRead(f)
    /\ FreeSize(f) # 0 /\ Inbox(f) = <<>> /\ LinkOf(f) \in {"up", "connecting"}
    /\ client' = [client EXCEPT ![f].recv = RecvBuf(f)]
    /\ UNCHANGED <<eventVars, m_dwClientNum, pc, call, world>>

ReadEof(f) ==
    /\ OnTcpRead(f)
    /\ FreeSize(f) # 0 /\ Inbox(f) = <<>> /\ LinkOf(f) \in {"fin", "rst"}
    /\ client' = [client EXCEPT ![f].recv = RecvBuf(f)]
    /\ CallBack("eof", f, conn[f])
    /\ UNCHANGED <<eventVars, m_dwClientNum, world>>

ReadData(f) ==
    /\ OnTcpRead(f)
    /\ FreeSize(f) # 0
    /\ \E k \in 1 .. Len(Inbox(f)) :
        LET got == SubSeq(Inbox(f), 1, k) IN
        /\ ~Contains(Front(got), "part")
        /\ client' = [client EXCEPT ![f].recv = RecvBuf(f) \o got]
        /\ net' = [net EXCEPT ![conn[f]].inbox = SubSeq(@, k + 1, Len(@))]
    /\ pc' = "parse" /\ call' = [on |-> "none", fd |-> f, conn |-> conn[f]]
    /\ UNCHANGED <<eventVars, m_dwClientNum, conn, backlog, reopened>>

Parsing(next) ==
    /\ pc = "parse"
    /\ (IF RecvBuf(call.fd) = <<>> THEN "part" ELSE Head(RecvBuf(call.fd))) = next
    /\ UNCHANGED <<batch, cur, writes>>

DeliverPackage ==
    /\ Parsing("pkg")
    /\ CallBack("read", call.fd, call.conn)
    /\ UNCHANGED <<eventVars, slots, world>>

\* A server without a package filter does this with whatever it receives first.
InvalidPackage ==
    /\ Parsing("bad")
    /\ Close(call.fd, client[call.fd], net, "closed")
    /\ ResumeAt("loop")

NoWholePackage ==
    /\ Parsing("part")
    /\ ResumeAt("loop")
    /\ UNCHANGED <<eventVars, slots, world>>

ReturnRead_NoCheck ==
    /\ pc = "callback" /\ call.on = "read"
    /\ pc' = "parse" /\ call' = [call EXCEPT !.on = "none"]
    /\ client' = [client EXCEPT ![call.fd].recv = IF @ = NoBuf THEN @ ELSE Tail(@)]
    /\ UNCHANGED <<eventVars, m_dwClientNum, batch, cur, world, writes>>

ReturnRead ==
    /\ pc = "callback" /\ call.on = "read"
    /\ IF IsClose(call.fd)
       THEN ResumeAt("loop") /\ UNCHANGED client
       ELSE /\ client' = [client EXCEPT ![call.fd].recv = Tail(@)]
            /\ pc' = "parse" /\ call' = [call EXCEPT !.on = "none"]
    /\ UNCHANGED <<eventVars, m_dwClientNum, batch, cur, world, writes>>

-----------------------------------------------------------------------------
(* EPOLLOUT: onConnect while a connect is under way, onWrite afterwards.   *)
SkipWrite(f) ==
    /\ TakeOut(f)
    /\ "EV_WRITE" \notin fdEvents[f].iEventType \/ IsClose(f)
    /\ UNCHANGED <<eventVars, slots, pc, call, world, writes>>

Writable(f, handler) ==
    /\ TakeOut(f)
    /\ "EV_WRITE" \in fdEvents[f].iEventType /\ ~IsClose(f)
    /\ fdEvents[f].onWrite = handler
    /\ UNCHANGED writes

\* SO_ERROR; it is 0 also while the connect is still under way.
SoError_Ignored(f) == FALSE
SoError(f) == LinkOf(f) \in {"refused", "rst"}

OnConnect(f) ==
    /\ Writable(f, "onConnect")
    /\ DelFdEvent(f, {"EV_WRITE"})
    /\ CallBack(IF SoError(f) THEN "connectFail" ELSE "connect", f, conn[f])
    /\ net' = [net EXCEPT ![conn[f]].known = TRUE]
    /\ UNCHANGED <<slots, conn, backlog, reopened>>

\* addFdEvent's failure is reported and nothing else.
ReturnConnect ==
    /\ pc = "callback" /\ call.on = "connect"
    /\ \/ IsClose(call.fd) /\ UNCHANGED eventVars
       \/ ~IsClose(call.fd) /\ \E ok \in BOOLEAN : AddFdEvent(call.fd, "EV_READ", "none", ok)
    /\ ResumeAt("loop")
    /\ UNCHANGED <<slots, batch, cur, world, writes>>

\* The callbacks after which the loop closes the connection.
ReturnClosing_NoClose ==
    /\ pc = "callback" /\ call.on \in {"connectFail", "eof"}
    /\ ResumeAt("loop")
    /\ UNCHANGED <<eventVars, slots, world, batch, cur, writes>>

ReturnClosing ==
    /\ pc = "callback" /\ call.on \in {"connectFail", "eof"}
    /\ IF IsClose(call.fd) THEN UNCHANGED <<eventVars, slots, world>>
                           ELSE Close(call.fd, client[call.fd], net, "closed")
    /\ ResumeAt("loop")
    /\ UNCHANGED <<batch, cur, writes>>

\* write(int)
FlushFails(f) ==
    /\ Writable(f, "onWrite")
    /\ client[f].send # <<>> /\ SendFails(f)
    /\ Close(f, client[f], net, "closed")
    /\ UNCHANGED <<pc, call>>

Flush(f) ==
    /\ Writable(f, "onWrite")
    /\ client[f].send # <<>> => ~SendFails(f)
    /\ \E k \in SendSizes(f, Len(client[f].send)) :
        LET rest == SubSeq(client[f].send, k + 1, Len(client[f].send))
            n == Transmitted(f, client[f].send, k)
        IN \/ /\ rest = <<>> /\ client[f].bNeedClose
              /\ Close(f, client[f], n, "drained")
           \/ /\ rest = <<>> => ~client[f].bNeedClose
              /\ client' = [client EXCEPT ![f].send = rest]
              /\ IF rest = <<>> THEN DelFdEvent(f, {"EV_WRITE"}) ELSE UNCHANGED eventVars
              /\ net' = n
              /\ UNCHANGED <<m_dwClientNum, conn, backlog, reopened>>
    /\ UNCHANGED <<pc, call>>

-----------------------------------------------------------------------------
(* What the application does inside a callback.                            *)
\* A callback of a connection, or a timer's or a message's between two entries.
InCallback == pc = "callback" \/ (pc = "loop" /\ cur = NoFd)

(* An application that uses a session only until its descriptor is given   *)
(* to another connection; WorkerPool is about one that goes on using it.   *)
MayUse(s) == InCallback /\ net[s].known /\ conn[net[s].fd] \in {NoConn, s}

AppClose(s) ==
    /\ MayUse(s) /\ ~IsClose(net[s].fd)
    /\ Close(net[s].fd, client[net[s].fd], net, "closed")
    /\ UNCHANGED <<loop, writes>>

\* write(session): what it offers the kernel is what is queued, then the unit.
Write(s) ==
    /\ MayUse(s) /\ writes < MaxWrites
    /\ writes' = writes + 1
    /\ UNCHANGED loop

Out_NewFirst(s) == Unit(s) \o Queue(net[s].fd)
Out(s) == Queue(net[s].fd) \o Unit(s)
Sends(s, k) ==
    /\ ~IsClose(net[s].fd) /\ ~SendFails(net[s].fd)
    /\ k \in SendSizes(net[s].fd, Len(Out(s)))
Rest_OfQueue(s, k) == SubSeq(Queue(net[s].fd), k + 1, Len(Queue(net[s].fd)))
Rest(s, k) == SubSeq(Out(s), k + 1, Len(Out(s)))

\* What the caller was told of its unit: 0, or -1.
Promised(n, c, s) == [n EXCEPT ![c].owed = @ \o Unit(s)]
Broken(n, c) == IF c = NoConn THEN n ELSE [n EXCEPT ![c].whole = FALSE]

WriteRefused(s) ==
    /\ Write(s) /\ IsClose(net[s].fd)
    /\ UNCHANGED <<eventVars, slots, world>>

WriteFails(s, bClose) ==
    LET f == net[s].fd IN
    /\ Write(s) /\ ~IsClose(f) /\ SendFails(f)
    /\ client' = [client EXCEPT ![f].bNeedClose = bClose]
    /\ net' = Broken(net, conn[f])
    /\ UNCHANGED <<eventVars, m_dwClientNum, conn, backlog, reopened>>

WriteSent(s, bClose, k) ==
    LET f == net[s].fd
        n == Promised(Transmitted(f, Out(s), k), conn[f], s)
    IN
    /\ Write(s) /\ Sends(s, k) /\ Rest(s, k) = <<>>
    /\ IF bClose
       THEN Close(f, [client[f] EXCEPT !.bNeedClose = TRUE], n, "drained")
       ELSE /\ client' = [client EXCEPT ![f].bNeedClose = FALSE,
                                        ![f].send = IF @ = NoBuf THEN NoBuf ELSE <<>>]
            /\ DelFdEvent(f, {"EV_WRITE"})
            /\ net' = n
            /\ UNCHANGED <<m_dwClientNum, conn, backlog, reopened>>

WriteQueued(s, bClose, k) ==
    LET f == net[s].fd
        n == Transmitted(f, Out(s), k)
    IN
    /\ Write(s) /\ Sends(s, k)
    /\ Rest(s, k) # <<>> /\ Len(Rest(s, k)) <= SendMax
    /\ client' = [client EXCEPT ![f].bNeedClose = bClose, ![f].send = Rest(s, k)]
    /\ \E ok \in BOOLEAN :
        /\ AddFdEvent(f, "EV_WRITE", "onWrite", ok)
        /\ net' = IF ok THEN Promised(n, conn[f], s) ELSE Broken(n, conn[f])
    /\ UNCHANGED <<m_dwClientNum, conn, backlog, reopened>>

\* addData has no room for the new data: what was queued before stays.
WriteOverflow(s, bClose, k) ==
    LET f == net[s].fd IN
    /\ Write(s) /\ Sends(s, k) /\ Len(Rest(s, k)) > SendMax
    /\ client' = [client EXCEPT ![f].bNeedClose = bClose,
                                ![f].send = SubSeq(Queue(f), k + 1, Len(Queue(f)))]
    /\ net' = Broken(Transmitted(f, Out(s), k), conn[f])
    /\ UNCHANGED <<eventVars, m_dwClientNum, conn, backlog, reopened>>

(* connect() comes back with EINPROGRESS or an error.  An application that *)
(* has closed the connection it is called back for opens no other one      *)
(* before the callback ends: the loop would take the new connection, which *)
(* the kernel gives the same descriptor, for the old one.                  *)
MayConnect(f) ==
    /\ InCallback /\ f \in FreeFds
    /\ ConnOf(call.fd) = call.conn
    /\ UNCHANGED <<m_dwClientNum, loop, backlog, writes>>

AppConnect_WatchesRead(f) ==
    /\ MayConnect(f) /\ Unused # {}
    /\ AddFdEvent(f, "EV_READ", "onConnect", TRUE)
    /\ client' = [client EXCEPT ![f].iFd = TRUE, ![f].iSrvId = "conn"]
    /\ conn' = [conn EXCEPT ![f] = Min(Unused)]
    /\ net' = [net EXCEPT ![Min(Unused)].link = "connecting", ![Min(Unused)].fd = f]
    /\ reopened' = reopened \cup {f}

AppConnect(f) ==
    /\ MayConnect(f) /\ Unused # {}
    /\ AddFdEvent(f, "EV_WRITE", "onConnect", TRUE)
    /\ client' = [client EXCEPT ![f].iFd = TRUE, ![f].iSrvId = "conn"]
    /\ conn' = [conn EXCEPT ![f] = Min(Unused)]
    /\ net' = [net EXCEPT ![Min(Unused)].link = "connecting", ![Min(Unused)].fd = f]
    /\ reopened' = reopened \cup {f}

\* connect or addFdEvent fails, and close follows.
AppConnectFails(f) ==
    /\ MayConnect(f)
    /\ client' = [client EXCEPT ![f].iFd = FALSE, ![f].iSrvId = "conn",
                                ![f].recv = NoBuf, ![f].send = NoBuf]
    /\ \/ DelFdEvent(f, EvType)
       \/ /\ EpollCtl(f, FALSE)
          /\ fdEvents' = [fdEvents EXCEPT ![f] = [iEventType |-> {}, onWrite |-> "none"]]
          /\ UNCHANGED interest
    /\ UNCHANGED <<conn, net, reopened>>

-----------------------------------------------------------------------------
(* The peers and the network.                                              *)
Peer == pc = "loop" /\ cur = NoFd /\ UNCHANGED <<eventVars, slots, loop, conn, reopened, writes>>

PeerConnect ==
    /\ Unused # {}
    /\ net' = [net EXCEPT ![Min(Unused)].link = "up"]
    /\ backlog' = Append(backlog, Min(Unused))
    /\ Peer

Moves(c, from, to) ==
    /\ net[c].link \in from
    /\ net' = [net EXCEPT ![c].link = to]
    /\ Peer /\ UNCHANGED backlog

PeerFin(c) == Moves(c, {"up"}, "fin")
PeerReset(c) == Moves(c, {"up", "fin"}, "rst")
ConnectOk(c) == Moves(c, {"connecting"}, "up")
ConnectRefused(c) == Moves(c, {"connecting"}, "refused")

\* What follows the start of a package that is too large is more of it.
Oversize(c) == Contains(net[c].inbox, "part") \/ \E f \in Fds : conn[f] = c /\ FreeSize(f) = 0

\* What arrives before accept does its work only afterwards.
PeerSend(c, item) ==
    /\ net[c].link = "up" /\ net[c].fd # NoFd /\ Len(net[c].inbox) < MaxInbox
    /\ Oversize(c) => item = "part"
    /\ net' = [net EXCEPT ![c].inbox = Append(@, item)]
    /\ Peer /\ UNCHANGED backlog

PeerReads(c) ==
    /\ net[c].link \in {"up", "fin"} /\ ~net[c].room
    /\ net' = [net EXCEPT ![c].room = TRUE]
    /\ Peer /\ UNCHANGED backlog

-----------------------------------------------------------------------------
Accepting == AcceptReject \/ (\E f \in Fds : AcceptOne(f)) \/ AcceptDone
Reading(f) == SkipRead(f) \/ ReadError(f) \/ ReadNothing(f) \/ ReadEof(f) \/ ReadData(f)
Packages == DeliverPackage \/ InvalidPackage \/ NoWholePackage
Writing(f) == SkipWrite(f) \/ OnConnect(f) \/ FlushFails(f) \/ Flush(f)
Handlers ==
    Poll \/ OnAccept \/ Accepting \/ Packages \/ (\E f \in Fds : Reading(f) \/ Writing(f))

Returns == ReturnAccept \/ ReturnRead \/ ReturnConnect \/ ReturnClosing

AppWrites(s) ==
    \/ WriteRefused(s)
    \/ \E bClose \in BOOLEAN :
        \/ WriteFails(s, bClose)
        \/ \E k \in 0 .. SendMax + 2 :
            WriteSent(s, bClose, k) \/ WriteQueued(s, bClose, k) \/ WriteOverflow(s, bClose, k)
App ==
    \/ \E s \in Conns : AppClose(s) \/ AppWrites(s)
    \/ \E f \in Fds : AppConnect(f) \/ AppConnectFails(f)

Resolves(c) == ConnectOk(c) \/ ConnectRefused(c)
Peers ==
    \/ PeerConnect
    \/ \E c \in Conns :
        \/ PeerFin(c) \/ PeerReset(c) \/ Resolves(c) \/ PeerReads(c)
        \/ \E item \in Items : PeerSend(c, item)

Next == Handlers \/ Returns \/ App \/ Peers

Spec == Init /\ [][Next]_vars

(* run() goes round for ever, so a handler's step that stays possible is   *)
(* taken whatever tasks come between; a callback returns; and for the      *)
(* peers, who move between two entries only: a connect is answered, a peer *)
(* that is there goes on reading.                                          *)
Fairness ==
    /\ SF_vars(Handlers) /\ WF_vars(Returns)
    /\ \A c \in Conns : SF_vars(Resolves(c)) /\ SF_vars(PeerReads(c))
FairSpec == Spec /\ Fairness

-----------------------------------------------------------------------------
Slot == [iFd : BOOLEAN, iSrvId : {"srv", "conn"}, bNeedClose : BOOLEAN,
         recv : {NoBuf} \cup Seq(Items), send : {NoBuf} \cup Seq(Piece)]
Net == [link : Link, inbox : Seq(Items), room : BOOLEAN, sent : Seq(Piece),
        fd : Fds \cup {NoFd}, known : BOOLEAN, owed : Seq(Piece), whole : BOOLEAN]
Call == [on : {"none", "accept", "read", "eof", "connect", "connectFail"},
         fd : Fds \cup {NoFd}, conn : Conns \cup {NoConn}]

(* The type invariant.  The client count stays within what onAccept's test *)
(* admits, one more than m_dwMaxClient, and never wraps below zero.        *)
TypeOK ==
    /\ FdEventsType
    /\ client \in [Fds -> Slot]
    /\ m_dwClientNum \in 0 .. MaxClient + 1
    /\ pc \in {"loop", "accept", "parse", "callback"} /\ call \in Call
    /\ batch \in [Fds \cup {Listener} -> SUBSET {"IN", "OUT"}]
    /\ cur \in Fds \cup {NoFd}
    /\ conn \in [Fds -> Conns \cup {NoConn}]
    /\ net \in [Conns -> Net]
    /\ backlog \in Seq(Conns) /\ reopened \subseteq Fds /\ writes \in 0 .. MaxWrites

Open(f) == client[f].iFd

(* While the kernel has refused no epoll ADD, the three records of what is *)
(* open agree: a client slot is in use exactly while the kernel has the    *)
(* descriptor open, and CEvent's table is the kernel's interest list.      *)
TablesAgree ==
    refusals = 0 =>
        \A f \in Fds : /\ Open(f) <=> conn[f] # NoConn
                       /\ fdEvents[f].iEventType = interest[f]

(* m_dwClientNum never falls below the number of clients a server has, and *)
(* is exactly that number while the kernel has refused no ADD: whatever    *)
(* way a connection ends, it is taken off once.  Every table, and the      *)
(* count, stays within its type.                                           *)
ClientCount ==
    LET clients == {f \in Fds : Open(f) /\ client[f].iSrvId = "srv"} IN
    /\ TypeOK
    /\ Cardinality(clients) <= m_dwClientNum
    /\ refusals = 0 => m_dwClientNum = Cardinality(clients)

(* Outside its own first callback, an open connection is always watched:   *)
(* for reading, or for the outcome of its connect; and one with data left  *)
(* to send is watched for room with write(int) as the handler.  Nothing    *)
(* the application does in a callback leaves a connection that no event    *)
(* can reach.                                                              *)
Watched(f, type) == type \in interest[f]
Beginning(f) == pc = "callback" /\ call.fd = f /\ call.on \in {"accept", "connect", "connectFail"}
NoConnectionForgotten ==
    \A f \in Fds : refusals = 0 /\ Open(f) =>
        /\ \/ Beginning(f) \/ Watched(f, "EV_READ")
           \/ Watched(f, "EV_WRITE") /\ fdEvents[f].onWrite = "onConnect"
        /\ Queue(f) # <<>> => Watched(f, "EV_WRITE") /\ fdEvents[f].onWrite = "onWrite"

(* No handler follows a NULL buffer: onWrite is never due for a slot with  *)
(* no send buffer, and the package loop of onTcpRead always works on the   *)
(* open connection it began with, although its callbacks may close it.     *)
NoNullBuffer ==
    /\ \A f \in Fds : Open(f) /\ fdEvents[f].onWrite = "onWrite" => client[f].send # NoBuf
    /\ pc = "parse" => /\ Open(call.fd) /\ client[call.fd].recv # NoBuf
                       /\ conn[call.fd] = call.conn

(* What has gone out on a connection, followed by what is queued for it,   *)
(* is exactly the sequence of units whose write returned 0, as long as no  *)
(* write on it returned -1: partial sends, EAGAIN and later writes neither *)
(* lose, repeat nor reorder a piece.                                       *)
FrameIntegrity ==
    \A f \in Fds : refusals = 0 /\ Open(f) /\ net[conn[f]].whole =>
        net[conn[f]].sent \o Queue(f) = net[conn[f]].owed

(* A connection closed because the application asked for it with its last  *)
(* write (bClose) is closed only after every accepted byte, and none but   *)
(* those, was handed to the kernel.  After a refused ADD it need not be: a *)
(* slot that onAccept gave up keeps the queue of its last owner.           *)
DrainedWhole ==
    refusals = 0 => \A c \in Conns : net[c].link = "drained" /\ net[c].whole => net[c].sent = net[c].owed

(* onConnect(true) is called only for a connection that is established,    *)
(* except when its descriptor was given out after epoll_wait returned: an  *)
(* EPOLLOUT meant for the descriptor's last owner is then taken for its    *)
(* own while the connect is still under way.                               *)
ToldConnected ==
    pc = "callback" /\ call.on = "connect" /\ conn[call.fd] = call.conn =>
        \/ LinkOf(call.fd) \in {"up", "fin"}
        \/ LinkOf(call.fd) = "connecting" /\ call.fd \in reopened

(* Under fairness: when the peer has closed, reset or refused a connection *)
(* that has a descriptor here, the loop gives the descriptor back.         *)
PeerGoneNoticed ==
    \A c \in Conns :
        net[c].link \in {"fin", "rst", "refused"} /\ net[c].fd # NoFd
            ~> net[c].link \in {"closed", "drained"}

(* Under fairness: what is queued is sent, or the connection ends.         *)
QueueFlushed == \A f \in Fds : Queue(f) # <<>> ~> Queue(f) = <<>>

(* Under fairness: whoever called connect is told how it went.             *)
ConnectAnswered == \A c \in Conns : net[c].link = "connecting" ~> net[c].known
=============================================================================
