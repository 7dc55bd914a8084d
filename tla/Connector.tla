----------------------------- MODULE Connector -----------------------------
(***************************************************************************)
(* CTcpConnector and CUdpConnector: a caller writes a request and reads    *)
(* its answer, with timeouts; a TCP write connects again by itself after   *)
(* the connection was closed.  The answer to request r is the two cells    *)
(* <<r, 1>>, <<r, 2>>.  A call that changes nothing (a read that times     *)
(* out, a call without a connection) is no step.                           *)
(***************************************************************************)
EXTENDS Integers, SequencesExt

CONSTANTS MaxAsked, MaxSockets      (* bounds: requests sent, sockets opened *)

VARIABLES
    kind,               (* "tcp" or "udp"                                    *)
    m_iFd, m_bConnect,  (* NoFd for -1                                       *)
    opened,             (* the sockets the kernel holds open, by number      *)
    lastSocket,
    peer,               (* "up", "ended" (FIN), "reset"                      *)
    toServer, toClient, (* cells to be answered, and answered, on this socket *)
    gathering,          (* readn under way: what it has; "no" otherwise      *)
    asked, reply,       (* the last request sent and the cells read since    *)
    mixed,              (* the caller asked again before it had the whole answer, *)
                        (* or a readn timed out with a part of it            *)
    overlaid            (* sockets whose number a second UDP connect wrote over *)

connVars == <<kind, m_iFd, m_bConnect, opened, lastSocket, peer, toServer, toClient,
              gathering, asked, reply, mixed, overlaid>>

NoFd == 0
NoReadn == <<<<0, 0>>>>
Reading == gathering # NoReadn
Answer(r) == <<<<r, 1>>, <<r, 2>>>>

ConnInit ==
    /\ kind \in {"tcp", "udp"}
    /\ m_iFd = NoFd /\ m_bConnect = FALSE
    /\ opened = {} /\ lastSocket = 0 /\ overlaid = {}
    /\ peer = "up" /\ toServer = <<>> /\ toClient = <<>>
    /\ gathering = NoReadn
    /\ asked = 0 /\ reply = <<>> /\ mixed = FALSE

\* The state of a caller with socket fd, a new one or none: what was on the old
\* one can no longer be read.
OnSocket(fd, connected, sockets, request) ==
    /\ m_iFd' = fd /\ m_bConnect' = connected /\ opened' = sockets
    /\ lastSocket' = IF fd = NoFd THEN lastSocket ELSE fd
    /\ peer' = "up" /\ toClient' = <<>> /\ toServer' = request
    /\ mixed' = (fd = NoFd /\ mixed) /\ gathering' = NoReadn

Close(request) == OnSocket(NoFd, FALSE, opened \ {m_iFd}, request)

\* _imp_connect.  A connect that succeeds at once leaves m_bConnect false; every
\* failure closes the socket.
Closing_Nothing == opened
Closing == IF m_iFd = NoFd THEN opened ELSE opened \ {m_iFd}
Connected(connected, request) ==
    /\ lastSocket < MaxSockets
    /\ OnSocket(lastSocket + 1, connected, Closing \cup {lastSocket + 1}, request)
ConnectFailed == OnSocket(NoFd, FALSE, Closing, <<>>)

TcpConnect ==
    /\ kind = "tcp" /\ ~Reading
    /\ (\E waited \in BOOLEAN : Connected(waited, <<>>)) \/ ConnectFailed
    /\ asked' = 0 /\ reply' = <<>>
    /\ UNCHANGED <<kind, overlaid>>

\* write without a connection makes one, and looks no further than whether send
\* then works; with one, a send that fails closes it.
Asks ==
    /\ asked < MaxAsked
    /\ asked' = asked + 1 /\ reply' = <<>>
TcpWriteConnects ==
    /\ kind = "tcp" /\ ~Reading /\ ~m_bConnect
    /\ Asks
    /\ (\E waited \in BOOLEAN : Connected(waited, Answer(asked + 1))) \/ ConnectFailed
    /\ UNCHANGED <<kind, overlaid>>
SendWorks ==
    /\ toServer' = IF peer = "up" THEN toServer \o Answer(asked + 1) ELSE <<>>
    /\ mixed' = (mixed \/ (asked # 0 /\ reply # Answer(asked)))
    /\ UNCHANGED <<m_iFd, m_bConnect, opened, lastSocket, peer, toClient, gathering>>
TcpWrite ==
    /\ kind = "tcp" /\ ~Reading /\ m_bConnect
    /\ Asks
    /\ SendWorks \/ Close(<<>>)
    /\ UNCHANGED <<kind, overlaid>>

-----------------------------------------------------------------------------
\* read into a buffer of n cells; recv gives any part that has come, then the end
\* (which closes) or the error of a reset (which does not).
Readable == kind = "tcp" /\ m_bConnect
TcpRead(n) ==
    /\ Readable /\ ~Reading
    /\ n <= Len(toClient)
    /\ toClient' = SubSeq(toClient, n + 1, Len(toClient))
    /\ reply' = reply \o SubSeq(toClient, 1, n)
    /\ UNCHANGED <<kind, m_iFd, m_bConnect, opened, lastSocket, peer, toServer, gathering, asked,
                   mixed, overlaid>>
TcpReadEnd ==
    /\ Readable /\ ~Reading /\ toClient = <<>>
    /\ \/ peer = "ended" /\ Close(<<>>)
       \/ /\ peer = "reset" /\ peer' = "ended"
          /\ UNCHANGED <<m_iFd, m_bConnect, opened, lastSocket, toServer, toClient, gathering, mixed>>
    /\ UNCHANGED <<kind, asked, reply, overlaid>>

\* readn of the two cells of an answer, one recv at a time.
ReadnBegins ==
    /\ Readable /\ ~Reading
    /\ gathering' = <<>>
    /\ UNCHANGED <<kind, m_iFd, m_bConnect, opened, lastSocket, peer, toServer, toClient, asked,
                   reply, mixed, overlaid>>
ReadnReceives(n) ==
    /\ Reading /\ n <= Len(toClient) /\ Len(gathering) + n <= 2
    /\ toClient' = SubSeq(toClient, n + 1, Len(toClient))
    /\ LET got == gathering \o SubSeq(toClient, 1, n)
       IN IF Len(got) = 2 THEN gathering' = NoReadn /\ reply' = reply \o got
                          ELSE gathering' = got /\ UNCHANGED reply
    /\ UNCHANGED <<kind, m_iFd, m_bConnect, opened, lastSocket, peer, toServer, asked, mixed, overlaid>>
\* The end closes and returns the part; a timeout or an error returns -1 alone.
ReadnEnds ==
    /\ Reading /\ toClient = <<>> /\ peer = "ended"
    /\ Close(<<>>)
    /\ reply' = reply \o gathering
    /\ UNCHANGED <<kind, asked, overlaid>>
ReadnFails ==
    /\ Reading /\ toClient = <<>>
    /\ peer' = IF peer = "reset" THEN "ended" ELSE peer
    /\ mixed' = (mixed \/ gathering # <<>>)
    /\ gathering' = NoReadn
    /\ UNCHANGED <<kind, m_iFd, m_bConnect, opened, lastSocket, toServer, toClient, asked, reply, overlaid>>

-----------------------------------------------------------------------------
\* UDP: connect makes a socket without looking at the one there is, write fails
\* with 0, read looks only at the socket.
UdpConnect ==
    /\ kind = "udp"
    /\ \/ /\ lastSocket < MaxSockets
          /\ OnSocket(lastSocket + 1, TRUE, opened \cup {lastSocket + 1}, <<>>)
       \/ OnSocket(NoFd, FALSE, opened, <<>>)          \* bind fails: its socket is closed
       \/ OnSocket(NoFd, m_bConnect, opened, <<>>)     \* no socket: m_bConnect stays
    /\ overlaid' = overlaid \cup ({m_iFd} \ {NoFd})
    /\ asked' = 0 /\ reply' = <<>>
    /\ UNCHANGED kind
UdpWrite ==
    /\ kind = "udp" /\ m_bConnect /\ m_iFd # NoFd
    /\ Asks /\ SendWorks
    /\ UNCHANGED <<kind, overlaid>>
UdpRead ==
    /\ kind = "udp" /\ m_iFd # NoFd /\ toClient # <<>>
    /\ reply' = Append(reply, Head(toClient)) /\ toClient' = Tail(toClient)
    /\ UNCHANGED <<kind, m_iFd, m_bConnect, opened, lastSocket, peer, toServer, gathering, asked,
                   mixed, overlaid>>

CloseCalled ==
    /\ ~Reading
    /\ Close(<<>>)
    /\ asked' = 0 /\ reply' = <<>>
    /\ UNCHANGED <<kind, overlaid>>

-----------------------------------------------------------------------------
\* The server answers in order, or ends the connection; datagrams come in any
\* order, or not at all.
Moves(i) == toServer' = RemoveAt(toServer, i)
ServerUnchanged == UNCHANGED <<kind, m_iFd, m_bConnect, opened, lastSocket, gathering, asked, reply,
                               mixed, overlaid>>
ServerAnswers(i) ==
    /\ i <= Len(toServer) /\ (kind = "tcp" => i = 1)
    /\ Moves(i) /\ toClient' = Append(toClient, toServer[i])
    /\ UNCHANGED peer /\ ServerUnchanged
DatagramLost(i) ==
    /\ kind = "udp" /\ i <= Len(toServer)
    /\ Moves(i)
    /\ UNCHANGED <<peer, toClient>> /\ ServerUnchanged
PeerLeaves ==
    /\ kind = "tcp" /\ m_iFd # NoFd /\ peer = "up"
    /\ toServer' = <<>>
    /\ \/ peer' = "ended" /\ UNCHANGED toClient
       \/ peer' = "reset" /\ toClient' = <<>>
    /\ ServerUnchanged

ConnNext ==
    \/ TcpConnect \/ TcpWriteConnects \/ TcpWrite
    \/ TcpReadEnd \/ ReadnBegins \/ ReadnEnds \/ ReadnFails
    \/ \E n \in 1 .. 2 : TcpRead(n) \/ ReadnReceives(n)
    \/ UdpConnect \/ UdpWrite \/ UdpRead \/ CloseCalled
    \/ \E i \in 1 .. Len(toServer) : ServerAnswers(i) \/ DatagramLost(i)
    \/ PeerLeaves
ConnSpec == ConnInit /\ [][ConnNext]_connVars

-----------------------------------------------------------------------------
\* Whatever was closed, reset and connected again on the way, a caller who asks
\* only when it has the whole answer reads nothing but the answer to the request
\* it sent last, on TCP in order from its first byte on; and the connector holds
\* no socket but the one it uses, nor one it lost count of, except those that a
\* UDP connect on a connected connector wrote over.
AnswersAndSockets ==
    /\ ~mixed => IF kind = "tcp" THEN IsPrefix(reply, Answer(asked))
                 ELSE \A i \in DOMAIN reply : reply[i][1] = asked
    /\ kind = "tcp" /\ ~mixed /\ Reading => IsPrefix(reply \o gathering, Answer(asked))
    /\ opened = overlaid \cup ({m_iFd} \ {NoFd})
    /\ kind = "tcp" => overlaid = {} /\ (m_bConnect => m_iFd # NoFd)
=============================================================================
