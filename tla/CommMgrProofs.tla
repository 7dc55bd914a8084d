--------------------------- MODULE CommMgrProofs ---------------------------
(***************************************************************************)
(* Proofs about CommMgr, for any number of descriptors, connections,       *)
(* writes and refused epoll ADDs.                                          *)
(***************************************************************************)
EXTENDS CommMgr, FiniteSetTheorems, SequenceTheorems, TLAPS

Unlisted == [iEventType |-> {}, onWrite |-> "none"]
Live == {"up", "connecting", "refused", "fin", "rst"}

(* One descriptor: the client's slot, CEvent's entry and the kernel's.     *)
SlotInv(f) ==
    /\ ~Open(f) => client[f].recv = NoBuf /\ client[f].send = NoBuf /\ fdEvents[f] = Unlisted
    /\ conn[f] # NoConn => Open(f)
    /\ interest[f] \subseteq fdEvents[f].iEventType
    /\ interest[f] # {} => conn[f] # NoConn
    /\ fdEvents[f].onWrite = "onConnect" => conn[f] # NoConn
    /\ fdEvents[f].onWrite = "onWrite" => client[f].send # NoBuf
    /\ refusals = 0 => fdEvents[f].iEventType = interest[f] /\ (Open(f) => conn[f] # NoConn)

Servers == {f \in Fds : Open(f) /\ client[f].iSrvId = "srv"}
Counting ==
    /\ m_dwClientNum \in 0 .. MaxClient + 1
    /\ Cardinality(Servers) <= m_dwClientNum
    /\ refusals = 0 => m_dwClientNum = Cardinality(Servers)

FdTypes ==
    /\ FdEventsType /\ client \in [Fds -> Slot] /\ conn \in [Fds -> Conns \cup {NoConn}]
FdInv == FdTypes /\ Counting /\ \A f \in Fds : SlotInv(f)

(* A step that concerns the descriptor f alone.                            *)
OnlyFd(f) ==
    /\ \A g \in Fds \ {f} : /\ client'[g] = client[g] /\ conn'[g] = conn[g]
                            /\ fdEvents'[g] = fdEvents[g] /\ interest'[g] = interest[g]
    /\ refusals' = 0 => refusals = 0

LEMMA NoConnIsNone == NoConn \notin Conns
BY CommMgrAssumption DEF Conns, NoConn

LEMMA AddFdEventDoes ==
    ASSUME FdEventsType, NEW f \in Fds, NEW type \in EvType, NEW handler \in Handler,
           NEW ok \in BOOLEAN, AddFdEvent(f, type, handler, ok)
    PROVE  /\ FdEventsType'
           /\ fdEvents'[f] = [iEventType |-> fdEvents[f].iEventType \cup {type},
                              onWrite |-> IF type = "EV_WRITE" THEN handler ELSE fdEvents[f].onWrite]
           /\ interest'[f] = IF ok THEN fdEvents'[f].iEventType ELSE interest[f]
           /\ \A g \in Fds \ {f} : fdEvents'[g] = fdEvents[g] /\ interest'[g] = interest[g]
           /\ refusals' = 0 => refusals = 0
           /\ refusals' = 0 /\ fdEvents[f].iEventType = interest[f] => ok
           /\ ~ok /\ interest[f] \subseteq fdEvents[f].iEventType => interest[f] = {}
<1>1. /\ fdEvents[f] \in [iEventType : SUBSET EvType, onWrite : Handler]
      /\ interest[f] \in SUBSET EvType /\ refusals \in Nat /\ refusals <= MaxRefusals
  BY FdEventsAssumption DEF FdEventsType
<1>2. /\ fdEvents'[f] = [iEventType |-> fdEvents[f].iEventType \cup {type},
                         onWrite |-> IF type = "EV_WRITE" THEN handler ELSE fdEvents[f].onWrite]
      /\ \A g \in Fds \ {f} : fdEvents'[g] = fdEvents[g]
      /\ DOMAIN fdEvents' = Fds /\ fdEvents' = [g \in DOMAIN fdEvents' |-> fdEvents'[g]]
      /\ interest' = IF ok THEN [interest EXCEPT ![f] = fdEvents'[f].iEventType] ELSE interest
  BY <1>1 DEF AddFdEvent, FdEventsType
<1>3. fdEvents' \in [Fds -> [iEventType : SUBSET EvType, onWrite : Handler]]
  BY <1>1, <1>2 DEF FdEventsType
<1>4. /\ refusals' \in 0 .. MaxRefusals /\ (refusals' = 0 => refusals = 0)
      /\ refusals' = 0 /\ fdEvents[f].iEventType = interest[f] => ok
      /\ ~ok /\ interest[f] \subseteq fdEvents[f].iEventType => interest[f] = {}
  BY <1>1, FdEventsAssumption DEF AddFdEvent, EpollCtl
<1> QED BY <1>1, <1>2, <1>3, <1>4 DEF FdEventsType

LEMMA DelFdEventDoes ==
    ASSUME FdEventsType, NEW f \in Fds, NEW types, DelFdEvent(f, types)
    PROVE  /\ FdEventsType'
           /\ fdEvents'[f].iEventType = fdEvents[f].iEventType \ types
           /\ fdEvents'[f].onWrite = IF "EV_WRITE" \in fdEvents'[f].iEventType
                                     THEN fdEvents[f].onWrite ELSE "none"
           /\ interest'[f] = IF interest[f] = {} THEN {} ELSE fdEvents'[f].iEventType
           /\ \A g \in Fds \ {f} : fdEvents'[g] = fdEvents[g] /\ interest'[g] = interest[g]
           /\ refusals' = refusals
<1>1. fdEvents[f] \in [iEventType : SUBSET EvType, onWrite : Handler]
  BY DEF FdEventsType
<1> DEFINE left == fdEvents[f].iEventType \ types
           new == [iEventType |-> left, onWrite |-> IF "EV_WRITE" \in left THEN fdEvents[f].onWrite ELSE "none"]
<1>2. /\ fdEvents' = [fdEvents EXCEPT ![f] = new]
      /\ interest' = [interest EXCEPT ![f] = IF interest[f] = {} THEN {} ELSE left]
      /\ refusals' = refusals
  BY DEF DelFdEvent, FdEventsType
<1>3. new \in [iEventType : SUBSET EvType, onWrite : Handler]
  BY <1>1 DEF EvType, Handler
<1> QED BY <1>1, <1>2, <1>3 DEF FdEventsType

\* All that is left to show of a step that concerns f alone, and no count.
LEMMA OneFd ==
    ASSUME FdInv, NEW f \in Fds, OnlyFd(f), FdTypes', SlotInv(f)', Counting'
    PROVE  FdInv'
<1> SUFFICES ASSUME NEW g \in Fds \ {f} PROVE SlotInv(g)'
  BY DEF FdInv
<1> QED BY DEF FdInv, SlotInv, OnlyFd, Open

LEMMA ServersFinite ==
    /\ IsFiniteSet(Servers) /\ Cardinality(Servers) \in Nat
    /\ \A S \in SUBSET Fds : IsFiniteSet(S) /\ Cardinality(S) \in Nat
BY FdEventsAssumption, FS_Subset, FS_CardinalityType DEF Servers

\* The same servers, and nothing was taken off.
LEMMA SameServers ==
    ASSUME FdInv, NEW f \in Fds, OnlyFd(f), m_dwClientNum' = m_dwClientNum,
           f \in Servers' <=> f \in Servers
    PROVE  Counting'
<1>1. Servers' = Servers
  BY DEF Servers, OnlyFd, Open
<1> QED BY <1>1 DEF FdInv, Counting, OnlyFd

LEMMA CloseDoes ==
    ASSUME FdInv, NEW f \in Fds, Open(f), NEW slot \in Slot, slot.iSrvId = client[f].iSrvId,
           NEW n, NEW how, Close(f, slot, n, how)
    PROVE  /\ FdInv' /\ OnlyFd(f) /\ ~Open(f)' /\ conn'[f] = NoConn /\ refusals' = refusals
           /\ net' = Ended(n, conn[f], how) /\ UNCHANGED <<backlog, reopened>>
<1> DEFINE new == [slot EXCEPT !.iFd = FALSE, !.recv = NoBuf, !.send = NoBuf]
<1>0. FdTypes /\ FdEventsType /\ client[f] \in Slot
  BY DEF FdInv, FdTypes
<1>1. /\ new \in Slot /\ new.iFd = FALSE /\ new.recv = NoBuf /\ new.send = NoBuf
      /\ new.iSrvId = client[f].iSrvId
  BY DEF Slot
<1>2. /\ client' = [client EXCEPT ![f] = new] /\ conn' = [conn EXCEPT ![f] = NoConn]
      /\ DelFdEvent(f, EvType) /\ m_dwClientNum' = m_dwClientNum - Counted(client[f])
      /\ net' = Ended(n, conn[f], how) /\ UNCHANGED <<backlog, reopened>>
  BY <1>1 DEF Close, Counted
<1>3. /\ client' \in [Fds -> Slot] /\ client'[f] = new /\ conn'[f] = NoConn
      /\ conn' \in [Fds -> Conns \cup {NoConn}]
      /\ \A g \in Fds \ {f} : client'[g] = client[g] /\ conn'[g] = conn[g]
  <2> HIDE DEF new
  <2> QED BY <1>0, <1>1, <1>2 DEF FdTypes
<1>4. /\ FdEventsType' /\ interest'[f] = {} /\ refusals' = refusals
      /\ fdEvents'[f].iEventType = {} /\ fdEvents'[f].onWrite = "none"
      /\ \A g \in Fds \ {f} : fdEvents'[g] = fdEvents[g] /\ interest'[g] = interest[g]
  <2>1. fdEvents[f].iEventType \ EvType = {}
    BY <1>0 DEF FdEventsType
  <2> QED BY <1>0, <1>2, <2>1, DelFdEventDoes
<1>5. fdEvents'[f] = Unlisted
  BY <1>4 DEF FdEventsType, Unlisted
<1>6. OnlyFd(f) /\ FdTypes'
  BY <1>3, <1>4 DEF OnlyFd, FdTypes
<1>7. ~Open(f)' /\ SlotInv(f)'
  BY <1>1, <1>3, <1>4, <1>5 DEF SlotInv, Open, Unlisted
<1>8. Counting'
  <2>1. CASE client[f].iSrvId = "srv"
    <3>1. f \in Servers /\ Servers' = Servers \ {f}
      BY <1>6, <1>7, <2>1 DEF Servers, OnlyFd, Open
    <3>2. Cardinality(Servers') = Cardinality(Servers) - 1
      BY <3>1, ServersFinite, FS_RemoveElement
    <3>3. m_dwClientNum' = m_dwClientNum - 1
      BY <1>2, <2>1 DEF Counted
    <3>4. Cardinality(Servers) # 0
      BY <3>1, ServersFinite, FS_EmptySet
    <3> QED BY <1>4, <3>2, <3>3, <3>4, ServersFinite, CommMgrAssumption DEF FdInv, Counting
  <2>2. CASE client[f].iSrvId # "srv"
    <3>1. f \notin Servers /\ f \notin Servers'
      BY <1>7, <2>2 DEF Servers
    <3>2. m_dwClientNum' = m_dwClientNum
      BY <1>2, <2>2, CommMgrAssumption DEF Counted, FdInv, Counting
    <3> QED BY <1>6, <3>1, <3>2, SameServers
  <2> QED BY <2>1, <2>2
<1> QED BY <1>2, <1>3, <1>4, <1>6, <1>7, <1>8, OneFd

\* What a slot keeps while its connection goes on.
Rewrites(f) ==
    /\ client' \in [Fds -> Slot] /\ \A g \in Fds \ {f} : client'[g] = client[g]
    /\ client'[f].iFd = client[f].iFd /\ client'[f].iSrvId = client[f].iSrvId
    /\ conn' = conn /\ m_dwClientNum' = m_dwClientNum

LEMMA RewritesCounts ==
    ASSUME FdInv, NEW f \in Fds, Rewrites(f), OnlyFd(f) PROVE Counting'
<1>1. f \in Servers' <=> f \in Servers
  BY DEF Servers, Rewrites, Open
<1> QED BY <1>1, SameServers DEF Rewrites

LEMMA RewriteDoes ==
    ASSUME FdInv, NEW f \in Fds, Open(f), Rewrites(f), UNCHANGED eventVars,
           fdEvents[f].onWrite = "onWrite" => client'[f].send # NoBuf
    PROVE  FdInv' /\ OnlyFd(f)
<1>1. OnlyFd(f)
  BY DEF OnlyFd, Rewrites, eventVars
<1>2. FdTypes' /\ SlotInv(f)'
  BY DEF FdInv, FdTypes, FdEventsType, SlotInv, Rewrites, eventVars, Open
<1> QED BY <1>1, <1>2, RewritesCounts, OneFd

LEMMA WatchDoes ==
    ASSUME FdInv, NEW f \in Fds, Open(f), conn[f] # NoConn, Rewrites(f), NEW ok \in BOOLEAN,
           NEW type \in EvType, NEW handler \in Handler, AddFdEvent(f, type, handler, ok),
           fdEvents'[f].onWrite # "onConnect" \/ type # "EV_WRITE",
           fdEvents'[f].onWrite = "onWrite" => client'[f].send # NoBuf
    PROVE  FdInv' /\ OnlyFd(f)
<1>0. FdTypes /\ FdEventsType /\ SlotInv(f)
  BY DEF FdInv, FdTypes
<1>a. /\ FdEventsType'
      /\ fdEvents'[f] = [iEventType |-> fdEvents[f].iEventType \cup {type},
                         onWrite |-> IF type = "EV_WRITE" THEN handler ELSE fdEvents[f].onWrite]
      /\ interest'[f] = IF ok THEN fdEvents'[f].iEventType ELSE interest[f]
      /\ \A g \in Fds \ {f} : fdEvents'[g] = fdEvents[g] /\ interest'[g] = interest[g]
      /\ refusals' = 0 => refusals = 0
      /\ refusals' = 0 /\ fdEvents[f].iEventType = interest[f] => ok
  BY <1>0, AddFdEventDoes
<1>1. OnlyFd(f) /\ FdTypes'
  BY <1>a DEF OnlyFd, Rewrites, FdTypes, FdInv
<1>2. SlotInv(f)'
  BY <1>0, <1>a DEF SlotInv, Rewrites, Open
<1> QED BY <1>1, <1>2, RewritesCounts, OneFd

LEMMA UnwatchDoes ==
    ASSUME FdInv, NEW f \in Fds, Open(f), Rewrites(f), DelFdEvent(f, {"EV_WRITE"})
    PROVE  /\ FdInv' /\ OnlyFd(f) /\ fdEvents'[f].onWrite = "none" /\ refusals' = refusals
<1>0. FdTypes /\ FdEventsType /\ SlotInv(f)
  BY DEF FdInv, FdTypes
<1>1. /\ OnlyFd(f) /\ FdTypes' /\ fdEvents'[f].iEventType = fdEvents[f].iEventType \ {"EV_WRITE"}
      /\ fdEvents'[f].onWrite = "none" /\ refusals' = refusals
      /\ interest'[f] = IF interest[f] = {} THEN {} ELSE fdEvents'[f].iEventType
  BY <1>0, DelFdEventDoes DEF OnlyFd, Rewrites, FdTypes
<1>2. SlotInv(f)'
  BY <1>0, <1>1 DEF SlotInv, Rewrites, Open
<1> QED BY <1>1, <1>2, RewritesCounts, OneFd

-----------------------------------------------------------------------------
(* The kernel's connections: what a descriptor stands for is alive and     *)
(* knows it, what waits for accept is as the peer made it, and what nobody *)
(* made yet is untouched.                                                  *)
NetTypes == net \in [Conns -> Net] /\ backlog \in Seq(Conns) /\ reopened \subseteq Fds
Untouched(c) == \E l \in {"up", "fin", "rst"} : net[c] = [Fresh EXCEPT !.link = l]
KernelInv ==
    /\ NetTypes
    /\ \A f \in Fds : conn[f] # NoConn => net[conn[f]].fd = f /\ net[conn[f]].link \in Live
    /\ \A i \in DOMAIN backlog : Untouched(backlog[i])
    /\ \A i, j \in DOMAIN backlog : backlog[i] = backlog[j] => i = j
    /\ \A c \in Conns : net[c].link = "unused" => net[c] = Fresh
    /\ \A c \in Conns : net[c].known => net[c].fd \in Fds
    /\ \A f \in Fds : fdEvents[f].onWrite = "onConnect" => ~net[conn[f]].known

LEMMA KernelFacts ==
    ASSUME KernelInv, FdInv
    PROVE  /\ \A f \in Fds : conn[f] # NoConn => conn[f] \in Conns
           /\ \A f, g \in Fds : conn[f] = conn[g] /\ conn[f] # NoConn => f = g
           /\ \A f \in Fds, i \in DOMAIN backlog : backlog[i] # conn[f]
           /\ \A i \in DOMAIN backlog : backlog[i] \in Conns /\ net[backlog[i]].link # "unused"
           /\ \A f \in Fds : conn[f] # NoConn => net[conn[f]].link # "unused"
<1>1. \A f \in Fds : conn[f] # NoConn => conn[f] \in Conns
  BY DEF FdInv, FdTypes
<1>2. \A i \in DOMAIN backlog : backlog[i] \in Conns /\ net[backlog[i]].fd = NoFd
                                /\ net[backlog[i]].link # "unused"
  BY DEF KernelInv, NetTypes, Untouched, Fresh
<1>3. \A f \in Fds, i \in DOMAIN backlog : backlog[i] # conn[f]
  BY <1>2, NoConnIsNone, CommMgrAssumption DEF KernelInv
<1> QED BY <1>1, <1>2, <1>3 DEF KernelInv, Live

\* A step that changes no connection, and at most closes f's.
LEMMA KernelSame ==
    ASSUME KernelInv, FdInv, NEW f \in Fds, OnlyFd(f), UNCHANGED <<net, backlog>>,
           reopened' \subseteq Fds, conn'[f] \in {conn[f], NoConn},
           fdEvents'[f].onWrite = "onConnect" => fdEvents[f].onWrite = "onConnect" /\ conn'[f] = conn[f]
    PROVE  KernelInv'
BY DEF KernelInv, NetTypes, OnlyFd, Untouched

\* A step that changes the record of f's connection, and perhaps ends it.
LEMMA KernelOneConn ==
    ASSUME KernelInv, FdInv, NEW f \in Fds, conn[f] # NoConn, OnlyFd(f), UNCHANGED backlog,
           reopened' \subseteq Fds, net' \in [Conns -> Net],
           \A d \in Conns \ {conn[f]} : net'[d] = net[d],
           net'[conn[f]].fd = net[conn[f]].fd, net'[conn[f]].link # "unused",
           conn'[f] \in {conn[f], NoConn},
           conn'[f] = conn[f] => net'[conn[f]].link \in Live,
           fdEvents'[f].onWrite = "onConnect" => conn'[f] = conn[f] /\ ~net'[conn[f]].known
    PROVE  KernelInv'
<1>1. \A g \in Fds : conn'[g] # NoConn => conn'[g] = conn[g]
  BY DEF OnlyFd
<1>2. \A g \in Fds \ {f} : conn[g] # conn[f] /\ (conn[g] # NoConn => conn[g] \in Conns)
  BY KernelFacts
<1>3. \A g \in Fds : conn'[g] # NoConn => net'[conn'[g]].fd = g /\ net'[conn'[g]].link \in Live
  BY <1>1, <1>2 DEF KernelInv, OnlyFd
<1>4. \A i \in DOMAIN backlog : Untouched(backlog[i])'
  BY KernelFacts DEF KernelInv, Untouched
<1>5. \A c \in Conns : /\ net'[c].link = "unused" => net'[c] = Fresh
                       /\ net'[c].known => net'[c].fd \in Fds
  <2> SUFFICES ASSUME NEW c \in Conns
               PROVE  /\ net'[c].link = "unused" => net'[c] = Fresh
                      /\ net'[c].known => net'[c].fd \in Fds
    OBVIOUS
  <2>1. CASE c = conn[f]
    BY <2>1 DEF KernelInv
  <2>2. CASE c # conn[f]
    BY <2>2 DEF KernelInv
  <2> QED BY <2>1, <2>2
<1>6. ASSUME NEW g \in Fds, fdEvents'[g].onWrite = "onConnect" PROVE ~net'[conn'[g]].known
  <2>1. CASE g = f
    BY <1>6, <2>1
  <2>2. CASE g # f
    <3>1. fdEvents[g].onWrite = "onConnect" /\ conn'[g] = conn[g]
      BY <1>6, <2>2 DEF OnlyFd
    <3>2. conn[g] \in Conns \ {conn[f]}
      BY <1>2, <2>2, <3>1 DEF FdInv, SlotInv
    <3> QED BY <3>1, <3>2 DEF KernelInv
  <2> QED BY <2>1, <2>2
<1>7. NetTypes'
  BY DEF KernelInv, NetTypes
<1> QED BY <1>3, <1>4, <1>5, <1>6, <1>7 DEF KernelInv

\* A step of the peer's: its connection may still wait for accept.
LEMMA KernelPeer ==
    ASSUME KernelInv, FdInv, NEW c \in Conns, UNCHANGED <<fdEvents, conn, backlog, reopened>>,
           net' \in [Conns -> Net], \A d \in Conns \ {c} : net'[d] = net[d],
           net[c].link # "unused", net'[c].link \in Live,
           net'[c].fd = net[c].fd, net'[c].known = net[c].known,
           Untouched(c) => Untouched(c)'
    PROVE  KernelInv'
<1>0. \A f \in Fds : conn[f] # NoConn => conn[f] \in Conns
  BY KernelFacts
<1>a. \A d \in Conns : /\ net'[d].fd = net[d].fd /\ net'[d].known = net[d].known
                       /\ net[d].link \in Live => net'[d].link \in Live
  OBVIOUS
<1>1. \A g \in Fds : conn[g] # NoConn => net'[conn[g]].fd = g /\ net'[conn[g]].link \in Live
  BY <1>0, <1>a DEF KernelInv
<1>2. \A i \in DOMAIN backlog : Untouched(backlog[i])'
  <2> SUFFICES ASSUME NEW i \in DOMAIN backlog PROVE Untouched(backlog[i])'
    OBVIOUS
  <2>1. Untouched(backlog[i]) /\ backlog[i] \in Conns /\ backlog' = backlog
    BY KernelFacts DEF KernelInv
  <2>2. CASE backlog[i] = c
    BY <2>1, <2>2 DEF Untouched
  <2>3. CASE backlog[i] # c
    BY <2>1, <2>3 DEF Untouched
  <2> QED BY <2>2, <2>3
<1>3. \A d \in Conns : /\ net'[d].link = "unused" => net'[d] = Fresh
                       /\ net'[d].known => net'[d].fd \in Fds
  <2>1. c \in Conns /\ net'[c].link # "unused"
    BY DEF Live
  <2> QED BY <1>a, <2>1 DEF KernelInv
<1>4. \A g \in Fds : fdEvents[g].onWrite = "onConnect" => ~net'[conn[g]].known
  BY <1>0, <1>a DEF KernelInv, FdInv, SlotInv
<1>5. NetTypes'
  BY DEF KernelInv, NetTypes
<1> QED BY <1>1, <1>2, <1>3, <1>4, <1>5 DEF KernelInv

-----------------------------------------------------------------------------
(* Sequences, and the least number of a set.                               *)
LEMMA Cut ==
    ASSUME NEW S, NEW s \in Seq(S), NEW k \in 0 .. Len(s)
    PROVE  /\ SubSeq(s, 1, k) \in Seq(S) /\ Len(SubSeq(s, 1, k)) = k
           /\ SubSeq(s, k + 1, Len(s)) \in Seq(S)
           /\ Len(SubSeq(s, k + 1, Len(s))) = Len(s) - k
           /\ SubSeq(s, 1, k) \o SubSeq(s, k + 1, Len(s)) = s
<1> DEFINE a == SubSeq(s, 1, k)
           b == SubSeq(s, k + 1, Len(s))
<1>1. Len(s) \in Nat /\ k \in Int /\ \A i \in 1 .. Len(s) : s[i] \in S
  BY LenProperties, ElementOfSeq
<1>2. a \in Seq(S) /\ Len(a) = k /\ \A i \in 1 .. k : a[i] = s[i]
  <2>1. \A i \in 1 .. k : s[i] \in S
    BY <1>1
  <2> HIDE DEF a
  <2>2. a \in Seq(S) /\ Len(a) = (IF 1 <= k THEN k - 1 + 1 ELSE 0)
        /\ \A i \in 1 .. k - 1 + 1 : a[i] = s[1 + i - 1]
    BY <1>1, <2>1, SubSeqProperties DEF a
  <2> QED BY <2>2
<1>3. b \in Seq(S) /\ Len(b) = Len(s) - k /\ \A i \in 1 .. Len(s) - k : b[i] = s[k + i]
  <2>1. k + 1 \in Int /\ Len(s) \in Int /\ \A i \in k + 1 .. Len(s) : s[i] \in S
    BY <1>1
  <2> HIDE DEF b
  <2>2. b \in Seq(S) /\ Len(b) = (IF k + 1 <= Len(s) THEN Len(s) - (k + 1) + 1 ELSE 0)
        /\ \A i \in 1 .. Len(s) - (k + 1) + 1 : b[i] = s[k + 1 + i - 1]
    BY <2>1, SubSeqProperties DEF b
  <2>3. Len(b) = Len(s) - k
    BY <1>1, <2>2
  <2>4. ASSUME NEW i \in 1 .. Len(s) - k PROVE b[i] = s[k + i]
    <3>1. k + 1 + i - 1 = k + i /\ i \in 1 .. Len(s) - (k + 1) + 1
      BY <1>1
    <3>2. b[i] = s[k + 1 + i - 1]
      BY <2>2, <3>1
    <3> QED BY <3>1, <3>2
  <2> QED BY <2>2, <2>3, <2>4
<1>4. a \o b = s
  <2> HIDE DEF a, b
  <2>1. a \o b \in Seq(S) /\ Len(a \o b) = Len(s)
    BY <1>1, <1>2, <1>3, ConcatProperties
  <2>2. ASSUME NEW i \in 1 .. Len(s) PROVE (a \o b)[i] = s[i]
    <3>1. (a \o b)[i] = IF i <= Len(a) THEN a[i] ELSE b[i - Len(a)]
      BY <1>1, <1>2, <1>3, ConcatProperties
    <3>2. CASE i <= k
      BY <1>2, <3>1, <3>2
    <3>3. CASE i > k
      <4>1. i - k \in 1 .. Len(s) - k
        BY <1>1, <3>3
      <4> QED BY <1>1, <1>2, <1>3, <3>1, <3>3, <4>1
    <3>4. i <= k \/ i > k
      BY <1>1
    <3> QED BY <3>2, <3>3, <3>4
  <2> QED BY <2>1, <2>2, SeqEqual
<1> QED BY <1>2, <1>3, <1>4

LEMMA Least == ASSUME NEW S \in SUBSET Nat, S # {} PROVE Min(S) \in S
<1> DEFINE R == OpToRel(<, Nat)
<1>1. IsWellFoundedOn(R, Nat)
  BY NatLessThanWellFounded
<1>2. PICK x \in S : \A y \in S : ~(<<y, x>> \in R)
  <2> HIDE DEF R
  <2> QED BY <1>1, WFMin
<1>3. \A y \in S : x <= y
  <2> SUFFICES ASSUME NEW y \in S, y < x PROVE FALSE
    OBVIOUS
  <2>1. <<y, x>> \in R
    BY DEF OpToRel
  <2> QED BY <1>2, <2>1
<1> QED BY <1>3 DEF Min

LEMMA NextConn ==
    ASSUME KernelInv, Unused # {}
    PROVE  Min(Unused) \in Conns /\ net[Min(Unused)] = Fresh
<1>1. Unused \in SUBSET Nat
  BY CommMgrAssumption DEF Unused, Conns
<1>2. Min(Unused) \in Unused
  BY <1>1, Least
<1> QED BY <1>2 DEF Unused, KernelInv

-----------------------------------------------------------------------------
(* Where the loop is, and what it holds of the connection it works on.     *)
LoopInv ==
    /\ pc \in {"loop", "accept", "parse", "callback"} /\ call \in Call
    /\ batch \in [Fds \cup {Listener} -> SUBSET {"IN", "OUT"}] /\ batch[Listener] \subseteq {"IN"}
    /\ cur \in Fds \cup {NoFd} /\ writes \in 0 .. MaxWrites

CallInv ==
    /\ pc = "callback" =>
        /\ call.fd \in Fds /\ call.conn \in Conns /\ call.on # "none"
        /\ Open(call.fd) => conn[call.fd] = call.conn
        /\ call.on = "accept" => fdEvents[call.fd].onWrite # "onConnect"
        /\ call.on = "read" /\ Open(call.fd) => client[call.fd].recv \notin {NoBuf, <<>>}
    /\ pc = "parse" =>
        /\ call.fd \in Fds /\ call.conn \in Conns
        /\ Open(call.fd) /\ conn[call.fd] = call.conn /\ client[call.fd].recv # NoBuf

Core == FdInv /\ KernelInv /\ LoopInv /\ CallInv

\* The application moves in a callback: its own connection is closed, or goes on.
LEMMA CallSame ==
    ASSUME FdInv, CallInv, FdInv', NEW f \in Fds, OnlyFd(f), UNCHANGED <<pc, call>>, pc # "parse",
           \/ ~Open(f)'
           \/ /\ Open(f) /\ conn'[f] = conn[f] /\ client'[f].recv = client[f].recv
              /\ fdEvents'[f].onWrite # "onConnect" \/ fdEvents'[f] = fdEvents[f]
           \/ pc = "callback" => call.fd # f
    PROVE  CallInv'
<1>1. CASE pc # "callback"
  BY <1>1 DEF CallInv
<1>2. CASE pc = "callback" /\ call.fd # f
  BY <1>2 DEF CallInv, OnlyFd, Open
<1>3. CASE pc = "callback" /\ call.fd = f /\ ~Open(f)'
  BY <1>3 DEF CallInv, FdInv, SlotInv, Unlisted
<1>4. CASE pc = "callback" /\ call.fd = f /\ Open(f)'
  BY <1>4 DEF CallInv
<1> QED BY <1>1, <1>2, <1>3, <1>4

LEMMA InitCore == Init => Core
<1> SUFFICES ASSUME Init PROVE Core
  OBVIOUS
<1>1. /\ client = [f \in Fds |-> [iFd |-> FALSE, iSrvId |-> "srv", bNeedClose |-> FALSE,
                                  recv |-> NoBuf, send |-> NoBuf]]
      /\ fdEvents = [f \in Fds |-> Unlisted] /\ interest = [f \in Fds |-> {}] /\ refusals = 0
      /\ conn = [f \in Fds |-> NoConn] /\ m_dwClientNum = 0
  BY DEF Init, FdEventsInit, Unlisted
<1>2. FdTypes
  BY <1>1, FdEventsAssumption DEF FdTypes, FdEventsType, Slot, Unlisted, EvType, Handler
<1>3. \A f \in Fds : SlotInv(f)
  BY <1>1 DEF SlotInv, Open, Unlisted
<1>4. Counting
  <2>1. Servers = {}
    BY <1>1 DEF Servers, Open
  <2> QED BY <1>1, <2>1, FS_EmptySet, CommMgrAssumption DEF Counting
<1>5. KernelInv
  <2>1. Fresh \in Net
    BY DEF Fresh, Net, Link
  <2>2. NetTypes
    BY <2>1 DEF Init, NetTypes
  <2> QED BY <1>1, <2>2 DEF Init, KernelInv, Fresh, Unlisted
<1>6. LoopInv /\ CallInv
  BY CommMgrAssumption DEF Init, LoopInv, CallInv, Call
<1> QED BY <1>2, <1>3, <1>4, <1>5, <1>6 DEF Core, FdInv

\* The record of a connection that ends.
LEMMA EndedDoes ==
    ASSUME NEW n \in [Conns -> Net], NEW c \in Conns, NEW how \in {"closed", "drained"}
    PROVE  /\ Ended(n, c, how) \in [Conns -> Net]
           /\ \A d \in Conns \ {c} : Ended(n, c, how)[d] = n[d]
           /\ Ended(n, c, how)[c].fd = n[c].fd /\ Ended(n, c, how)[c].link = how
           /\ IF how = "drained"
              THEN /\ Ended(n, c, how)[c].sent = n[c].sent /\ Ended(n, c, how)[c].owed = n[c].owed
                   /\ Ended(n, c, how)[c].whole = n[c].whole
              ELSE Ended(n, c, how)[c].sent = <<>> /\ Ended(n, c, how)[c].owed = <<>>
<1> DEFINE e == Ended(n, c, how)
<1>0. n[c] \in Net /\ c # NoConn /\ <<>> \in Seq(Items) /\ <<>> \in Seq(Piece)
  BY NoConnIsNone
<1>1. CASE how = "drained"
  <2>1. e = [n EXCEPT ![c].link = "drained", ![c].inbox = <<>>]
    BY <1>0, <1>1 DEF Ended
  <2> HIDE DEF e
  <2>2. /\ e = [d \in Conns |-> e[d]] /\ \A d \in Conns \ {c} : e[d] = n[d]
        /\ e[c] = [n[c] EXCEPT !.link = "drained", !.inbox = <<>>]
    BY <1>0, <2>1 DEF Net
  <2>3. /\ e[c] \in Net /\ e[c].fd = n[c].fd /\ e[c].link = "drained"
        /\ e[c].sent = n[c].sent /\ e[c].owed = n[c].owed /\ e[c].whole = n[c].whole
    BY <1>0, <2>2 DEF Net, Link
  <2>4. e \in [Conns -> Net]
    BY <2>2, <2>3
  <2> QED BY <1>1, <2>2, <2>3, <2>4 DEF e
<1>2. CASE how = "closed"
  <2> DEFINE end == [Fresh EXCEPT !.link = "closed", !.fd = n[c].fd, !.known = n[c].known]
  <2>1. n[c].fd \in Fds \cup {NoFd} /\ n[c].known \in BOOLEAN
    BY <1>0 DEF Net
  <2>2. /\ end \in Net /\ end.fd = n[c].fd /\ end.link = "closed"
        /\ end.sent = <<>> /\ end.owed = <<>>
    BY <1>0, <2>1 DEF Fresh, Net, Link
  <2>3. e = [n EXCEPT ![c] = end]
    BY <1>0, <1>2 DEF Ended
  <2> HIDE DEF end, e
  <2>4. e \in [Conns -> Net] /\ e[c] = end /\ \A d \in Conns \ {c} : e[d] = n[d]
    BY <2>2, <2>3
  <2> QED BY <1>2, <2>2, <2>4 DEF e
<1> QED BY <1>1, <1>2

\* A connection ends by close(int), with what its caller sent before.
LEMMA CloseKernel ==
    ASSUME FdInv, KernelInv, NEW f \in Fds, Open(f), NEW slot \in Slot,
           slot.iSrvId = client[f].iSrvId, NEW n \in [Conns -> Net], NEW how \in {"closed", "drained"},
           \A d \in Conns : d # conn[f] => n[d] = net[d],
           conn[f] # NoConn => n[conn[f]].fd = net[conn[f]].fd,
           Close(f, slot, n, how)
    PROVE  KernelInv' /\ net' \in [Conns -> Net] /\ \A d \in Conns : d # conn[f] => net'[d] = net[d]
<1>1. /\ FdInv' /\ OnlyFd(f) /\ ~Open(f)' /\ conn'[f] = NoConn /\ net' = Ended(n, conn[f], how)
      /\ UNCHANGED <<backlog, reopened>>
  BY CloseDoes
<1>2. fdEvents'[f].onWrite # "onConnect" /\ reopened' \subseteq Fds
  BY <1>1 DEF FdInv, SlotInv, Unlisted, KernelInv, NetTypes
<1>3. CASE conn[f] = NoConn
  <2>1. n = net
    BY <1>3, NoConnIsNone DEF KernelInv, NetTypes
  <2>2. net' = net
    BY <1>1, <1>3, <2>1 DEF Ended
  <2> QED BY <1>1, <1>2, <1>3, <2>2, KernelSame DEF KernelInv, NetTypes
<1>4. CASE conn[f] # NoConn
  <2>1. conn[f] \in Conns
    BY <1>4, KernelFacts
  <2>2. /\ net' \in [Conns -> Net] /\ \A d \in Conns \ {conn[f]} : net'[d] = n[d]
        /\ net'[conn[f]].fd = n[conn[f]].fd /\ net'[conn[f]].link = how
    BY <1>1, <2>1, EndedDoes
  <2>3. /\ \A d \in Conns \ {conn[f]} : net'[d] = net[d]
        /\ net'[conn[f]].fd = net[conn[f]].fd /\ net'[conn[f]].link # "unused"
    BY <1>4, <2>2
  <2> QED BY <1>1, <1>2, <1>4, <2>2, <2>3, KernelOneConn
<1> QED BY <1>3, <1>4

\* After a close no loop goes on with it: the callback returns, or the handler ends.
LEMMA CloseCore ==
    ASSUME Core, NEW f \in Fds, Open(f), NEW slot \in Slot, slot.iSrvId = client[f].iSrvId,
           NEW n \in [Conns -> Net], NEW how \in {"closed", "drained"},
           \A d \in Conns : d # conn[f] => n[d] = net[d],
           conn[f] # NoConn => n[conn[f]].fd = net[conn[f]].fd,
           Close(f, slot, n, how), LoopInv',
           \/ UNCHANGED <<pc, call>> /\ pc # "parse"
           \/ pc' = "loop"
    PROVE  Core'
<1>1. FdInv' /\ OnlyFd(f) /\ ~Open(f)' /\ KernelInv'
  BY CloseDoes, CloseKernel DEF Core
<1>2. CallInv'
  <2>1. CASE UNCHANGED <<pc, call>> /\ pc # "parse"
    BY <1>1, <2>1, CallSame DEF Core
  <2>2. CASE pc' = "loop"
    BY <2>2 DEF CallInv
  <2> QED BY <2>1, <2>2
<1> QED BY <1>1, <1>2 DEF Core

\* close(int) as most callers call it.
LEMMA PlainClose ==
    ASSUME Core, NEW f \in Fds, Open(f), Close(f, client[f], net, "closed"), LoopInv',
           \/ UNCHANGED <<pc, call>> /\ pc # "parse"
           \/ pc' = "loop"
    PROVE  Core'
<1>1. client[f] \in Slot /\ net \in [Conns -> Net]
  BY DEF Core, FdInv, FdTypes, KernelInv, NetTypes
<1> QED BY <1>1, CloseCore

\* The entries epoll_wait returned, taken one half at a time.
LEMMA TakenTypes ==
    ASSUME LoopInv, NEW e \in Fds \cup {Listener}, TakeIn(e) \/ (e \in Fds /\ TakeOut(e))
    PROVE  /\ batch' \in [Fds \cup {Listener} -> SUBSET {"IN", "OUT"}] /\ batch'[Listener] \subseteq {"IN"}
           /\ cur' \in Fds \cup {NoFd} /\ pc = "loop"
           /\ \A g \in Fds \cup {Listener} : batch'[g] \subseteq batch[g]
BY CommMgrAssumption DEF LoopInv, TakeIn, TakeOut

\* What does not touch a descriptor.
LEMMA FdUnchanged ==
    ASSUME FdInv, UNCHANGED <<eventVars, slots, conn>> PROVE FdInv'
BY DEF FdInv, FdTypes, FdEventsType, Counting, SlotInv, Servers, Open, eventVars, slots

LEMMA KernelUnchanged ==
    ASSUME KernelInv, UNCHANGED <<fdEvents, conn, net, backlog>>, reopened' \subseteq Fds PROVE KernelInv'
BY DEF KernelInv, NetTypes, Untouched

LEMMA CallUnchanged ==
    ASSUME CallInv, UNCHANGED <<fdEvents, client, conn, pc, call>> PROVE CallInv'
BY DEF CallInv, Open

-----------------------------------------------------------------------------
(* Every step keeps Core.  First those that move the loop only.            *)
LEMMA MovesOnly ==
    ASSUME Core, UNCHANGED <<eventVars, slots, conn, net, backlog>>, reopened' \subseteq Fds,
           LoopInv', CallInv'
    PROVE  Core'
BY FdUnchanged, KernelUnchanged DEF Core, eventVars

LEMMA LoopSteps ==
    ASSUME Core, Poll \/ OnAccept \/ AcceptDone \/ (\E f \in Fds : SkipRead(f) \/ SkipWrite(f))
    PROVE  Core'
<1>0. LoopInv /\ CallInv /\ reopened \subseteq Fds
  BY DEF Core, KernelInv, NetTypes
<1>1. CASE Poll
  <2>1. batch' \in [Fds \cup {Listener} -> SUBSET {"IN", "OUT"}] /\ batch'[Listener] \subseteq {"IN"}
    <3>1. \A f : Ready(f) \in SUBSET {"IN", "OUT"}
      BY DEF Ready
    <3>2. DOMAIN batch = Fds \cup {Listener}
      BY <1>0 DEF LoopInv
    <3>3. batch' = [e \in Fds \cup {Listener} |->
                      IF e = Listener THEN IF backlog = <<>> THEN {} ELSE {"IN"} ELSE Ready(e)]
      BY <1>1, <3>2 DEF Poll
    <3> QED BY <3>1, <3>3
  <2>2. /\ UNCHANGED <<eventVars, slots, pc, call, cur, conn, net, backlog, writes>>
        /\ pc = "loop" /\ reopened' \subseteq Fds
    BY <1>1 DEF Poll
  <2>3. LoopInv' /\ CallInv'
    BY <1>0, <2>1, <2>2 DEF LoopInv, CallInv
  <2> QED BY <2>2, <2>3, MovesOnly
<1>2. CASE OnAccept
  <2>1. /\ UNCHANGED <<eventVars, slots, call, world, writes>> /\ pc' = "accept"
        /\ TakeIn(Listener)
    BY <1>2 DEF OnAccept
  <2>2. LoopInv' /\ CallInv'
    BY <1>0, <2>1, TakenTypes DEF LoopInv, CallInv
  <2> QED BY <1>0, <2>1, <2>2, MovesOnly DEF world
<1>3. CASE AcceptDone
  <2>1. UNCHANGED <<eventVars, slots, call, batch, cur, world, writes>> /\ pc' = "loop"
    BY <1>3 DEF AcceptDone
  <2>2. LoopInv' /\ CallInv'
    BY <1>0, <2>1 DEF LoopInv, CallInv
  <2> QED BY <1>0, <2>1, <2>2, MovesOnly DEF world
<1>4. ASSUME NEW f \in Fds, SkipRead(f) \/ SkipWrite(f) PROVE Core'
  <2>1. /\ UNCHANGED <<eventVars, slots, pc, call, world, writes>>
        /\ TakeIn(f) \/ TakeOut(f)
    BY <1>4 DEF SkipRead, SkipWrite
  <2>2. LoopInv' /\ CallInv'
    BY <1>0, <2>1, TakenTypes, CallUnchanged DEF LoopInv, slots, eventVars, world
  <2> QED BY <1>0, <2>1, <2>2, MovesOnly DEF world
<1> QED BY <1>1, <1>2, <1>3, <1>4

LEMMA PackageSteps ==
    ASSUME Core, Packages PROVE Core'
<1>0. LoopInv /\ CallInv /\ reopened \subseteq Fds
  BY DEF Core, KernelInv, NetTypes
<1>1. CASE DeliverPackage
  <2>1. /\ UNCHANGED <<batch, cur, writes, eventVars, slots, world>> /\ pc = "parse" /\ pc' = "callback"
        /\ call' = [on |-> "read", fd |-> call.fd, conn |-> call.conn]
        /\ RecvBuf(call.fd) # <<>>
    BY <1>1 DEF DeliverPackage, Parsing, CallBack
  <2>2. /\ call.fd \in Fds /\ call.conn \in Conns /\ conn[call.fd] = call.conn
        /\ client[call.fd].recv \notin {NoBuf, <<>>}
    BY <1>0, <2>1 DEF CallInv, RecvBuf
  <2>3. LoopInv'
    BY <1>0, <2>1, <2>2 DEF LoopInv, Call
  <2>4. CallInv'
    BY <2>1, <2>2 DEF CallInv, slots, world
  <2> QED BY <1>0, <2>1, <2>3, <2>4, MovesOnly DEF world
<1>2. CASE InvalidPackage
  <2>1. /\ UNCHANGED <<batch, cur, writes>> /\ pc = "parse" /\ pc' = "loop"
        /\ call' = [on |-> "none", fd |-> NoFd, conn |-> NoConn]
        /\ Close(call.fd, client[call.fd], net, "closed")
    BY <1>2 DEF InvalidPackage, Parsing, ResumeAt
  <2>2. LoopInv'
    BY <1>0, <2>1 DEF LoopInv, Call
  <2> QED BY <1>0, <2>1, <2>2, PlainClose DEF CallInv
<1>3. CASE NoWholePackage
  <2>1. /\ UNCHANGED <<batch, cur, writes, eventVars, slots, world>> /\ pc' = "loop"
        /\ call' = [on |-> "none", fd |-> NoFd, conn |-> NoConn]
    BY <1>3 DEF NoWholePackage, Parsing, ResumeAt
  <2>2. LoopInv' /\ CallInv'
    BY <1>0, <2>1 DEF LoopInv, CallInv, Call
  <2> QED BY <1>0, <2>1, <2>2, MovesOnly DEF world
<1> QED BY <1>1, <1>2, <1>3 DEF Packages

(* onTcpRead                                                               *)
LEMMA ReadSteps ==
    ASSUME Core, NEW f \in Fds, ReadError(f) \/ ReadNothing(f) \/ ReadEof(f) \/ ReadData(f)
    PROVE  Core'
<1>0. /\ LoopInv /\ CallInv /\ FdInv /\ KernelInv /\ FdTypes /\ NetTypes /\ client[f] \in Slot
      /\ reopened \subseteq Fds /\ conn[f] \in Conns \cup {NoConn}
  BY DEF Core, KernelInv, NetTypes, FdInv, FdTypes
<1>1. Open(f) /\ TakeIn(f) /\ UNCHANGED writes /\ pc = "loop"
  BY TakenTypes, <1>0 DEF ReadError, ReadNothing, ReadEof, ReadData, OnTcpRead, IsClose, Open
<1>2. RecvBuf(f) \in Seq(Items)
  BY <1>0 DEF RecvBuf, Slot
<1>3. CASE ReadError(f)
  <2>1. UNCHANGED <<pc, call>> /\ Close(f, client[f], net, "closed")
    BY <1>3 DEF ReadError
  <2>2. LoopInv'
    BY <1>0, <1>1, <2>1, TakenTypes DEF LoopInv
  <2> QED BY <1>1, <2>1, <2>2, PlainClose
<1>4. ASSUME client' = [client EXCEPT ![f].recv = RecvBuf(f)], UNCHANGED <<eventVars, m_dwClientNum, world>>
      PROVE  /\ FdInv' /\ OnlyFd(f) /\ KernelInv' /\ client'[f].recv = RecvBuf(f) /\ Open(f)'
             /\ client'[f].recv \in Seq(Items)
  <2>1. client'[f] = [client[f] EXCEPT !.recv = RecvBuf(f)] /\ client' \in [Fds -> Slot]
    BY <1>0, <1>2, <1>4 DEF Slot, FdTypes
  <2>2. Rewrites(f) /\ client'[f].recv = RecvBuf(f) /\ client'[f].send = client[f].send
    BY <1>0, <1>4, <2>1 DEF Rewrites, world, FdTypes, Slot
  <2>3. fdEvents[f].onWrite = "onWrite" => client'[f].send # NoBuf
    BY <1>0, <2>2 DEF FdInv, SlotInv
  <2>4. FdInv' /\ OnlyFd(f)
    BY <1>0, <1>1, <1>4, <2>2, <2>3, RewriteDoes
  <2>5. KernelInv'
    BY <1>0, <1>4, KernelUnchanged DEF world, eventVars
  <2> QED BY <1>1, <1>2, <2>2, <2>4, <2>5 DEF Rewrites, Open
<1>5. CASE ReadNothing(f)
  <2>1. /\ client' = [client EXCEPT ![f].recv = RecvBuf(f)]
        /\ UNCHANGED <<eventVars, m_dwClientNum, pc, call, world>>
    BY <1>5 DEF ReadNothing
  <2>2. LoopInv' /\ CallInv'
    BY <1>0, <1>1, <2>1, TakenTypes DEF LoopInv, CallInv
  <2> QED BY <1>4, <2>1, <2>2 DEF Core
<1>6. CASE ReadEof(f)
  <2>1. /\ client' = [client EXCEPT ![f].recv = RecvBuf(f)]
        /\ UNCHANGED <<eventVars, m_dwClientNum, world>>
        /\ pc' = "callback" /\ call' = [on |-> "eof", fd |-> f, conn |-> conn[f]]
        /\ LinkOf(f) \in {"fin", "rst"}
    BY <1>6 DEF ReadEof, CallBack
  <2>2. conn[f] \in Conns
    BY <1>0, <2>1 DEF LinkOf
  <2>3. LoopInv'
    BY <1>0, <1>1, <2>1, <2>2, TakenTypes DEF LoopInv, Call
  <2>4. CallInv'
    BY <2>1, <2>2 DEF CallInv, world
  <2> QED BY <1>4, <2>1, <2>3, <2>4 DEF Core
<1>7. CASE ReadData(f)
  <2>1. PICK k \in 1 .. Len(Inbox(f)) :
          /\ client' = [client EXCEPT ![f].recv = RecvBuf(f) \o SubSeq(Inbox(f), 1, k)]
          /\ net' = [net EXCEPT ![conn[f]].inbox = SubSeq(@, k + 1, Len(@))]
    BY <1>7 DEF ReadData
  <2>2. /\ pc' = "parse" /\ call' = [on |-> "none", fd |-> f, conn |-> conn[f]]
        /\ UNCHANGED <<eventVars, m_dwClientNum, conn, backlog, reopened>>
    BY <1>7 DEF ReadData
  <2>3. conn[f] \in Conns /\ Inbox(f) = net[conn[f]].inbox
    <3>1. CASE conn[f] = NoConn
      <4>1. Len(Inbox(f)) = 0
        BY <3>1 DEF Inbox
      <4> QED BY <2>1, <4>1
    <3>2. CASE conn[f] # NoConn
      BY <1>0, <3>2 DEF Inbox
    <3> QED BY <3>1, <3>2
  <2> DEFINE c == conn[f]
             got == SubSeq(Inbox(f), 1, k)
             left == SubSeq(Inbox(f), k + 1, Len(Inbox(f)))
  <2>4. net[c] \in Net /\ Inbox(f) \in Seq(Items)
    BY <1>0, <2>3 DEF NetTypes, Net
  <2>5. got \in Seq(Items) /\ left \in Seq(Items)
    <3>1. k \in 0 .. Len(Inbox(f))
      BY <2>4, LenProperties
    <3> QED BY <2>4, <3>1, Cut
  <2>6. RecvBuf(f) \o got \in Seq(Items)
    BY <1>2, <2>5, ConcatProperties
  <2> DEFINE all == RecvBuf(f) \o got
  <2>7. net' = [net EXCEPT ![c].inbox = left] /\ client' = [client EXCEPT ![f].recv = all]
    BY <2>1, <2>3
  <2> HIDE DEF got, left, all
  <2>8. /\ net' \in [Conns -> Net] /\ \A d \in Conns \ {c} : net'[d] = net[d]
        /\ net'[c].fd = net[c].fd /\ net'[c].link = net[c].link /\ net'[c].known = net[c].known
    BY <1>0, <2>3, <2>4, <2>5, <2>7 DEF NetTypes, Net
  <2>9. all \in Seq(Items)
    BY <2>6 DEF all
  <2>10. /\ client' \in [Fds -> Slot] /\ \A g \in Fds \ {f} : client'[g] = client[g]
         /\ client'[f].iFd = client[f].iFd /\ client'[f].iSrvId = client[f].iSrvId
         /\ client'[f].recv = all /\ client'[f].send = client[f].send
    BY <1>0, <2>7, <2>9 DEF FdTypes, Slot
  <2>11. FdInv' /\ OnlyFd(f)
    <3>1. fdEvents[f].onWrite = "onWrite" => client'[f].send # NoBuf
      BY <1>0, <2>10 DEF FdInv, SlotInv
    <3>2. Rewrites(f)
      BY <2>2, <2>10 DEF Rewrites
    <3> QED BY <1>0, <1>1, <2>2, <3>1, <3>2, RewriteDoes
  <2>12. KernelInv'
    <3>1. c # NoConn /\ net[c].link \in Live /\ net[c].link # "unused"
      BY <1>0, <2>3, NoConnIsNone DEF KernelInv, Live
    <3>2. fdEvents'[f].onWrite = "onConnect" => ~net'[c].known
      BY <1>0, <2>2, <2>8 DEF KernelInv, eventVars
    <3> QED BY <1>0, <2>2, <2>8, <2>11, <3>1, <3>2, KernelOneConn
  <2>13. LoopInv'
    BY <1>0, <1>1, <2>2, <2>3, TakenTypes DEF LoopInv, Call
  <2>14. CallInv'
    BY <1>1, <2>2, <2>3, <2>9, <2>10, CommMgrAssumption DEF CallInv, Open
  <2> QED BY <2>11, <2>12, <2>13, <2>14 DEF Core
<1> QED BY <1>3, <1>5, <1>6, <1>7

(* onAccept                                                                *)
LEMMA AcceptedKernel ==
    ASSUME KernelInv, FdInv, backlog # <<>>, backlog' = Tail(backlog), reopened' \subseteq Fds,
           net' \in [Conns -> Net], \A d \in Conns \ {Head(backlog)} : net'[d] = net[d],
           net'[Head(backlog)].link # "unused",
           net'[Head(backlog)].known => net'[Head(backlog)].fd \in Fds,
           \A g \in Fds : \/ conn'[g] = conn[g]
                          \/ /\ conn'[g] = Head(backlog) /\ net'[Head(backlog)].fd = g
                             /\ net'[Head(backlog)].link \in Live /\ conn[g] = NoConn,
           fdEvents' = fdEvents
    PROVE  KernelInv'
<1> DEFINE c == Head(backlog)
<1>1. /\ backlog \in Seq(Conns) /\ Len(backlog) \in Nat /\ Len(backlog) > 0 /\ c = backlog[1]
      /\ c \in Conns /\ Tail(backlog) \in Seq(Conns) /\ Len(Tail(backlog)) = Len(backlog) - 1
      /\ DOMAIN backlog = 1 .. Len(backlog) /\ DOMAIN Tail(backlog) = 1 .. Len(backlog) - 1
      /\ \A i \in 1 .. Len(backlog) - 1 : Tail(backlog)[i] = backlog[i + 1]
  BY DEF KernelInv, NetTypes
<1>2. \A f \in Fds : conn[f] # c /\ (conn[f] # NoConn => conn[f] \in Conns)
  BY <1>1, KernelFacts
<1>3. \A i \in 1 .. Len(backlog) - 1 : backlog[i + 1] # c /\ backlog[i + 1] \in Conns
                                       /\ Untouched(backlog[i + 1])
  BY <1>1 DEF KernelInv
<1>4. \A i \in DOMAIN backlog' : Untouched(backlog[i])'
  <2> SUFFICES ASSUME NEW i \in 1 .. Len(backlog) - 1 PROVE Untouched(backlog[i])'
    BY <1>1
  <2>1. backlog'[i] = backlog[i + 1]
    BY <1>1
  <2>2. net'[backlog[i + 1]] = net[backlog[i + 1]]
    BY <1>3
  <2> QED BY <1>3, <2>1, <2>2 DEF Untouched
<1>5. \A i, j \in DOMAIN backlog' : backlog'[i] = backlog'[j] => i = j
  BY <1>1 DEF KernelInv
<1>6. \A g \in Fds : conn'[g] # NoConn => net'[conn'[g]].fd = g /\ net'[conn'[g]].link \in Live
  BY <1>2 DEF KernelInv
<1>7. \A d \in Conns : /\ net'[d].link = "unused" => net'[d] = Fresh
                       /\ net'[d].known => net'[d].fd \in Fds
  BY DEF KernelInv
<1>8. \A g \in Fds : fdEvents'[g].onWrite = "onConnect" => ~net'[conn'[g]].known
  BY <1>2 DEF KernelInv, FdInv, SlotInv
<1>9. NetTypes'
  BY <1>1 DEF NetTypes
<1> QED BY <1>4, <1>5, <1>6, <1>7, <1>8, <1>9 DEF KernelInv

LEMMA FirstWaiting ==
    ASSUME KernelInv, backlog # <<>>
    PROVE  /\ Head(backlog) \in Conns /\ Untouched(Head(backlog)) /\ net[Head(backlog)].fd = NoFd
           /\ ~net[Head(backlog)].known /\ net[Head(backlog)].link \in {"up", "fin", "rst"}
<1>1. backlog \in Seq(Conns) /\ Head(backlog) = backlog[1] /\ 1 \in DOMAIN backlog
  BY DEF KernelInv, NetTypes
<1>2. PICK l \in {"up", "fin", "rst"} : net[backlog[1]] = [Fresh EXCEPT !.link = l]
  BY <1>1 DEF KernelInv, Untouched
<1>3. net[backlog[1]].fd = NoFd /\ net[backlog[1]].known = FALSE /\ net[backlog[1]].link = l
  BY <1>2 DEF Fresh
<1>4. backlog[1] \in Conns /\ Untouched(backlog[1])
  BY <1>1 DEF KernelInv
<1> QED BY <1>1, <1>3, <1>4

LEMMA AcceptSteps ==
    ASSUME Core, AcceptReject \/ \E f \in Fds : AcceptOne(f)
    PROVE  Core'
<1>0. LoopInv /\ CallInv /\ FdInv /\ KernelInv /\ FdTypes /\ NetTypes /\ Counting
  BY DEF Core, KernelInv, FdInv
<1>1. CASE AcceptReject
  <2>1. /\ backlog # <<>> /\ net' = Ended(net, Head(backlog), "closed") /\ backlog' = Tail(backlog)
        /\ UNCHANGED <<eventVars, slots, loop, conn, reopened, writes>> /\ pc = "accept"
    BY <1>1 DEF AcceptReject
  <2>2. Head(backlog) \in Conns /\ net[Head(backlog)].fd = NoFd /\ ~net[Head(backlog)].known
    BY <1>0, <2>1, FirstWaiting
  <2>3. /\ net' \in [Conns -> Net] /\ \A d \in Conns \ {Head(backlog)} : net'[d] = net[d]
        /\ net'[Head(backlog)].link = "closed"
    BY <1>0, <2>1, <2>2, EndedDoes DEF NetTypes
  <2>4. ~net'[Head(backlog)].known
    BY <1>0, <2>1, <2>2, NoConnIsNone DEF Ended, NetTypes, Net, Fresh
  <2>5. KernelInv'
    BY <1>0, <2>1, <2>3, <2>4, AcceptedKernel DEF eventVars, NetTypes
  <2>6. LoopInv' /\ CallInv'
    BY <1>0, <2>1 DEF LoopInv, CallInv, loop
  <2> QED BY <1>0, <2>1, <2>5, <2>6, FdUnchanged DEF Core
<1>2. ASSUME NEW f \in Fds, AcceptOne(f) PROVE Core'
  <2> DEFINE c == Head(backlog)
  <2>1. /\ backlog # <<>> /\ conn[f] = NoConn /\ ~(m_dwClientNum > MaxClient)
        /\ conn' = [conn EXCEPT ![f] = c]
        /\ net' = [net EXCEPT ![c].fd = f, ![c].known = TRUE]
        /\ backlog' = Tail(backlog) /\ reopened' = reopened \cup {f}
        /\ client' = [client EXCEPT ![f].iFd = TRUE, ![f].iSrvId = "srv"]
        /\ m_dwClientNum' = m_dwClientNum + 1
        /\ pc' = "callback" /\ call' = [on |-> "accept", fd |-> f, conn |-> c]
        /\ UNCHANGED <<eventVars, batch, cur, writes>>
    BY <1>2 DEF AcceptOne, FreeFds, TooMany, CallBack
  <2>2. c \in Conns /\ net[c].link \in {"up", "fin", "rst"} /\ net[c] \in Net /\ client[f] \in Slot
    BY <1>0, <2>1, FirstWaiting DEF NetTypes, FdTypes
  <2> HIDE DEF c
  <2>3. /\ net' = [d \in Conns |-> net'[d]] /\ \A d \in Conns \ {c} : net'[d] = net[d]
        /\ net'[c] = [net[c] EXCEPT !.fd = f, !.known = TRUE]
    BY <1>0, <2>1, <2>2 DEF NetTypes, Net
  <2>4. /\ net'[c] \in Net /\ net'[c].fd = f /\ net'[c].link \in Live /\ net'[c].link # "unused"
    BY <2>2, <2>3 DEF Net, Link, Live
  <2>5. net' \in [Conns -> Net]
    BY <1>0, <2>3, <2>4 DEF NetTypes
  <2>6. /\ client' = [g \in Fds |-> client'[g]] /\ \A g \in Fds \ {f} : client'[g] = client[g]
        /\ client'[f] = [client[f] EXCEPT !.iFd = TRUE, !.iSrvId = "srv"]
    BY <1>0, <2>1, <2>2 DEF FdTypes, Slot
  <2>7. /\ client'[f] \in Slot /\ client'[f].iFd = TRUE /\ client'[f].iSrvId = "srv"
        /\ client'[f].send = client[f].send /\ client'[f].recv = client[f].recv
    BY <2>2, <2>6 DEF Slot
  <2>8. FdTypes'
    <3>1. client' \in [Fds -> Slot]
      BY <1>0, <2>6, <2>7 DEF FdTypes
    <3>2. conn' \in [Fds -> Conns \cup {NoConn}]
      BY <1>0, <2>1, <2>2 DEF FdTypes
    <3> QED BY <1>0, <2>1, <3>1, <3>2 DEF FdTypes, FdEventsType, eventVars
  <2>9. conn'[f] = c /\ \A g \in Fds \ {f} : conn'[g] = conn[g]
    BY <1>0, <2>1 DEF FdTypes
  <2>10. OnlyFd(f)
    BY <2>1, <2>6, <2>9 DEF OnlyFd, eventVars
  <2>11. SlotInv(f) /\ SlotInv(f)'
    <3>1. SlotInv(f) /\ c # NoConn
      BY <1>0, <2>2, NoConnIsNone DEF FdInv
    <3> QED BY <2>1, <2>7, <2>9, <3>1 DEF SlotInv, Open, eventVars
  <2>12. Counting'
    <3>1. Servers' = Servers \cup {f}
      BY <2>7, <2>10 DEF Servers, OnlyFd, Open
    <3>2. Cardinality(Servers') = IF f \in Servers THEN Cardinality(Servers) ELSE Cardinality(Servers) + 1
      BY <3>1, ServersFinite, FS_AddElement
    <3>3. refusals = 0 => f \notin Servers
      BY <2>1, <2>11 DEF SlotInv, Servers
    <3> QED BY <1>0, <2>1, <3>2, <3>3, ServersFinite, CommMgrAssumption DEF Counting, eventVars
  <2>13. FdInv'
    BY <1>0, <2>8, <2>10, <2>11, <2>12, OneFd
  <2>14. KernelInv'
    <3>1. reopened' \subseteq Fds /\ fdEvents' = fdEvents
      BY <1>0, <2>1 DEF NetTypes, eventVars
    <3>2. \A g \in Fds : \/ conn'[g] = conn[g]
                         \/ conn'[g] = c /\ net'[c].fd = g /\ net'[c].link \in Live /\ conn[g] = NoConn
      BY <2>1, <2>4, <2>9
    <3> QED BY <1>0, <2>1, <2>3, <2>4, <2>5, <3>1, <3>2, AcceptedKernel DEF c
  <2>15. LoopInv'
    BY <1>0, <2>1, <2>2 DEF LoopInv, Call
  <2>16. CallInv'
    BY <2>1, <2>2, <2>9, <2>11 DEF CallInv, SlotInv, eventVars
  <2> QED BY <2>13, <2>14, <2>15, <2>16 DEF Core
<1> QED BY <1>1, <1>2

(* What a callback's return does.                                          *)
LEMMA ReturnSteps == ASSUME Core, Returns PROVE Core'
<1>0. /\ LoopInv /\ CallInv /\ FdInv /\ KernelInv /\ FdTypes /\ NetTypes /\ Counting
      /\ reopened \subseteq Fds
  BY DEF Core, KernelInv, FdInv, NetTypes
<1> SUFFICES ASSUME NEW f, f = call.fd PROVE Core'
  OBVIOUS
<1>1. /\ pc = "callback" /\ f \in Fds /\ call.conn \in Conns /\ SlotInv(f) /\ client[f] \in Slot
      /\ Open(f) => conn[f] = call.conn /\ conn[f] # NoConn /\ conn[f] \in Conns
  BY <1>0, NoConnIsNone
  DEF Returns, ReturnAccept, ReturnRead, ReturnConnect, ReturnClosing, CallInv, FdInv, FdTypes
<1>2. ASSUME pc' \in {"loop", "accept"}, call' = [on |-> "none", fd |-> NoFd, conn |-> NoConn],
             UNCHANGED <<batch, cur, writes>>
      PROVE  LoopInv' /\ CallInv'
  BY <1>0, <1>2 DEF LoopInv, CallInv, Call
\* The connection is watched, or was closed.
<1>3. ASSUME UNCHANGED <<slots, conn, net, backlog, reopened>>,
             UNCHANGED eventVars \/ (Open(f) /\ \E ok \in BOOLEAN : AddFdEvent(f, "EV_READ", "none", ok))
      PROVE  FdInv' /\ KernelInv'
  <2>1. CASE UNCHANGED eventVars
    BY <1>0, <1>3, <2>1, FdUnchanged, KernelUnchanged DEF eventVars
  <2>2. ASSUME NEW ok \in BOOLEAN, Open(f), AddFdEvent(f, "EV_READ", "none", ok) PROVE FdInv' /\ KernelInv'
    <3>1. Rewrites(f)
      BY <1>0, <1>3 DEF Rewrites, slots, FdTypes
    <3>2. fdEvents'[f].onWrite = fdEvents[f].onWrite
      <4>1. "EV_READ" \in EvType /\ "none" \in Handler /\ FdEventsType
        BY <1>0 DEF EvType, Handler, FdTypes
      <4>2. fdEvents'[f] = [iEventType |-> fdEvents[f].iEventType \cup {"EV_READ"},
                            onWrite |-> IF "EV_READ" = "EV_WRITE" THEN "none" ELSE fdEvents[f].onWrite]
        BY <1>1, <2>2, <4>1, AddFdEventDoes
      <4> QED BY <4>2
    <3>3. client'[f].send = client[f].send
      BY <1>3 DEF slots
    <3>4. FdInv' /\ OnlyFd(f)
      <4>1. "EV_READ" \in EvType /\ "none" \in Handler
        BY DEF EvType, Handler
      <4> QED BY <1>0, <1>1, <2>2, <3>1, <3>2, <3>3, <4>1, WatchDoes DEF SlotInv
    <3>5. KernelInv'
      BY <1>0, <1>1, <1>3, <3>2, <3>4, KernelSame
    <3> QED BY <3>4, <3>5
  <2> QED BY <1>3, <2>1, <2>2
<1>4. CASE ReturnAccept
  <2>1. /\ pc' = "accept" /\ call' = [on |-> "none", fd |-> NoFd, conn |-> NoConn]
        /\ UNCHANGED <<slots, batch, cur, backlog, reopened, writes>> /\ call.on = "accept"
    BY <1>4 DEF ReturnAccept, ResumeAt
  <2>2. CASE UNCHANGED <<conn, net>> /\ (UNCHANGED eventVars \/ (Open(f) /\ AddFdEvent(f, "EV_READ", "none", TRUE)))
    BY <1>2, <1>3, <2>1, <2>2 DEF Core
  <2>3. CASE /\ Open(f) /\ AddFdEvent(f, "EV_READ", "none", FALSE)
             /\ conn' = [conn EXCEPT ![f] = NoConn] /\ net' = Ended(net, conn[f], "closed")
    <3>1. /\ FdEventsType' /\ fdEvents'[f].onWrite = fdEvents[f].onWrite
          /\ fdEvents'[f].iEventType = fdEvents[f].iEventType \cup {"EV_READ"}
          /\ interest'[f] = interest[f] /\ interest[f] = {}
          /\ \A g \in Fds \ {f} : fdEvents'[g] = fdEvents[g] /\ interest'[g] = interest[g]
          /\ refusals' # 0
      <4>1. /\ "EV_READ" \in EvType /\ "none" \in Handler /\ FdEventsType
            /\ interest[f] \subseteq fdEvents[f].iEventType
            /\ refusals = 0 => fdEvents[f].iEventType = interest[f]
        BY <1>0, <1>1 DEF EvType, Handler, SlotInv, FdTypes
      <4>2. PICK ok \in BOOLEAN : ~ok /\ AddFdEvent(f, "EV_READ", "none", ok)
        BY <2>3
      <4>3. /\ FdEventsType'
            /\ fdEvents'[f] = [iEventType |-> fdEvents[f].iEventType \cup {"EV_READ"},
                               onWrite |-> IF "EV_READ" = "EV_WRITE" THEN "none" ELSE fdEvents[f].onWrite]
            /\ interest'[f] = interest[f] /\ interest[f] = {}
            /\ \A g \in Fds \ {f} : fdEvents'[g] = fdEvents[g] /\ interest'[g] = interest[g]
            /\ refusals' = 0 => refusals = 0
            /\ ~(refusals' = 0 /\ fdEvents[f].iEventType = interest[f])
        BY <1>1, <4>1, <4>2, AddFdEventDoes
      <4> QED BY <4>1, <4>3
    <3>2. /\ conn'[f] = NoConn /\ (\A g \in Fds \ {f} : conn'[g] = conn[g])
          /\ conn' \in [Fds -> Conns \cup {NoConn}]
      BY <1>0, <1>1, <2>3 DEF FdTypes
    <3>3. OnlyFd(f) /\ FdTypes'
      BY <1>0, <2>1, <3>1, <3>2 DEF OnlyFd, FdTypes, slots
    <3>4. SlotInv(f)'
      <4>1. fdEvents[f].onWrite # "onConnect"
        BY <1>0, <1>1, <2>1 DEF CallInv
      <4>2. client' = client
        BY <2>1 DEF slots
      <4> QED BY <1>1, <2>3, <3>1, <3>2, <4>1, <4>2 DEF SlotInv, Open
    <3>5. Counting'
      <4>1. f \in Servers' <=> f \in Servers
        BY <2>1 DEF Servers, slots, Open
      <4> QED BY <1>0, <1>1, <2>1, <3>3, <4>1, SameServers DEF slots
    <3>6. FdInv'
      BY <1>0, <1>1, <3>3, <3>4, <3>5, OneFd
    <3>7. KernelInv'
      <4>1. /\ net' \in [Conns -> Net] /\ (\A d \in Conns \ {conn[f]} : net'[d] = net[d])
            /\ net'[conn[f]].fd = net[conn[f]].fd /\ net'[conn[f]].link = "closed"
        BY <1>0, <1>1, <2>3, EndedDoes DEF NetTypes
      <4>2. fdEvents'[f].onWrite # "onConnect"
        BY <1>0, <1>1, <2>1, <3>1 DEF CallInv
      <4> QED BY <1>0, <1>1, <2>1, <2>3, <3>2, <3>3, <4>1, <4>2, KernelOneConn
    <3> QED BY <1>2, <2>1, <3>6, <3>7 DEF Core
  <2> QED BY <1>4, <2>2, <2>3 DEF ReturnAccept, IsClose, Open
<1>5. CASE ReturnRead
  <2>1. /\ call.on = "read" /\ UNCHANGED <<eventVars, m_dwClientNum, batch, cur, world, writes>>
    BY <1>5 DEF ReturnRead
  <2>2. CASE IsClose(f)
    <3>1. pc' = "loop" /\ call' = [on |-> "none", fd |-> NoFd, conn |-> NoConn] /\ UNCHANGED client
      BY <1>5, <2>2 DEF ReturnRead, ResumeAt
    <3> QED BY <1>0, <1>2, <2>1, <3>1, MovesOnly DEF slots, world
  <2>3. CASE Open(f)
    <3>1. /\ client' = [client EXCEPT ![f].recv = Tail(@)] /\ pc' = "parse"
          /\ call' = [call EXCEPT !.on = "none"]
      BY <1>5, <2>3 DEF ReturnRead, IsClose, Open
    <3>2. client[f].recv \in Seq(Items) /\ client[f].recv # <<>>
      BY <1>0, <1>1, <2>1, <2>3 DEF CallInv, Slot
    <3>3. Tail(client[f].recv) \in Seq(Items)
      BY <3>2
    <3>4. /\ client' \in [Fds -> Slot] /\ \A g \in Fds \ {f} : client'[g] = client[g]
          /\ client'[f].iFd = client[f].iFd /\ client'[f].iSrvId = client[f].iSrvId
          /\ client'[f].recv = Tail(client[f].recv) /\ client'[f].send = client[f].send
      BY <1>0, <1>1, <3>1, <3>3 DEF FdTypes, Slot
    <3>5. Rewrites(f) /\ (fdEvents[f].onWrite = "onWrite" => client'[f].send # NoBuf)
      BY <1>1, <2>1, <3>4 DEF Rewrites, world, SlotInv
    <3>6. FdInv' /\ OnlyFd(f)
      BY <1>0, <1>1, <2>1, <2>3, <3>5, RewriteDoes
    <3>7. KernelInv'
      BY <1>0, <2>1, KernelUnchanged DEF eventVars, world
    <3>8. LoopInv'
      BY <1>0, <1>1, <2>1, <3>1 DEF LoopInv, Call
    <3>9. CallInv'
      <4>1. call'.fd = f /\ call'.conn = call.conn
        BY <1>0, <3>1 DEF LoopInv, Call
      <4>2. Open(f)' /\ client'[f].recv # NoBuf
        BY <2>3, <3>3, <3>4, CommMgrAssumption DEF Open
      <4>3. conn'[f] = call.conn
        BY <1>1, <2>1, <2>3 DEF world
      <4> QED BY <1>1, <3>1, <4>1, <4>2, <4>3 DEF CallInv
    <3> QED BY <3>6, <3>7, <3>8, <3>9 DEF Core
  <2> QED BY <2>2, <2>3 DEF IsClose, Open
<1>6. CASE ReturnConnect
  <2>1. /\ pc' = "loop" /\ call' = [on |-> "none", fd |-> NoFd, conn |-> NoConn]
        /\ UNCHANGED <<slots, batch, cur, world, writes>>
        /\ UNCHANGED eventVars \/ (Open(f) /\ \E ok \in BOOLEAN : AddFdEvent(f, "EV_READ", "none", ok))
    BY <1>6 DEF ReturnConnect, ResumeAt, IsClose, Open
  <2> QED BY <1>2, <1>3, <2>1 DEF Core, world
<1>7. CASE ReturnClosing
  <2>1. /\ pc' = "loop" /\ call' = [on |-> "none", fd |-> NoFd, conn |-> NoConn]
        /\ UNCHANGED <<batch, cur, writes>>
    BY <1>7 DEF ReturnClosing, ResumeAt
  <2>2. CASE IsClose(f)
    <3>1. UNCHANGED <<eventVars, slots, world>>
      BY <1>7, <2>2 DEF ReturnClosing
    <3> QED BY <1>0, <1>2, <2>1, <3>1, MovesOnly DEF world
  <2>3. CASE ~IsClose(f)
    <3>1. Close(f, client[f], net, "closed") /\ Open(f)
      BY <1>7, <2>3 DEF ReturnClosing, IsClose, Open
    <3> QED BY <1>1, <1>2, <2>1, <3>1, PlainClose
  <2> QED BY <2>2, <2>3
<1> QED BY <1>4, <1>5, <1>6, <1>7 DEF Returns

-----------------------------------------------------------------------------
(* What sends and writes do to a connection's record.                      *)
Advances(n, f) ==
    /\ n \in [Conns -> Net] /\ \A d \in Conns : d # conn[f] => n[d] = net[d]
    /\ conn[f] # NoConn => /\ n[conn[f]].fd = net[conn[f]].fd /\ n[conn[f]].link = net[conn[f]].link
                           /\ n[conn[f]].known = net[conn[f]].known

LEMMA TransmittedDoes ==
    ASSUME KernelInv, FdInv, NEW f \in Fds, NEW out \in Seq(Piece), NEW k \in SendSizes(f, Len(out))
    PROVE  /\ k \in 0 .. Len(out) /\ Advances(Transmitted(f, out, k), f)
           /\ conn[f] # NoConn =>
                /\ Transmitted(f, out, k)[conn[f]].sent = net[conn[f]].sent \o SubSeq(out, 1, k)
                /\ Transmitted(f, out, k)[conn[f]].owed = net[conn[f]].owed
                /\ Transmitted(f, out, k)[conn[f]].whole = net[conn[f]].whole
<1> DEFINE n == Transmitted(f, out, k)
           c == conn[f]
<1>0. Len(out) \in Nat /\ net \in [Conns -> Net] /\ (c # NoConn => c \in Conns)
  BY LenProperties, KernelFacts DEF KernelInv, NetTypes
<1>1. k \in 0 .. Len(out) /\ (k # 0 => c # NoConn)
  BY <1>0 DEF SendSizes, LinkOf
<1>2. CASE k = 0
  <2>1. n = net
    BY <1>2 DEF Transmitted
  <2>2. c # NoConn => net[c].sent = net[c].sent \o SubSeq(out, 1, k)
    <3> SUFFICES ASSUME c # NoConn PROVE net[c].sent = net[c].sent \o SubSeq(out, 1, k)
      OBVIOUS
    <3>1. net[c].sent \in Seq(Piece)
      BY <1>0 DEF Net
    <3>2. SubSeq(out, 1, k) = <<>>
      BY <1>2, SubSeqEmpty
    <3> QED BY <3>1, <3>2, ConcatEmptySeq
  <2> HIDE DEF n
  <2> QED BY <1>0, <1>1, <2>1, <2>2 DEF Advances, n
<1>3. CASE k # 0
  <2> DEFINE more == net[c].sent \o SubSeq(out, 1, k)
             room == (k = Len(out))
  <2>1. more \in Seq(Piece) /\ room \in BOOLEAN
    <3>1. net[c].sent \in Seq(Piece) /\ SubSeq(out, 1, k) \in Seq(Piece)
      BY <1>0, <1>1, <1>3, Cut DEF Net
    <3> QED BY <3>1, ConcatProperties
  <2>2. n = [net EXCEPT ![c].sent = more, ![c].room = room] /\ net[c] \in Net /\ c \in Conns
    BY <1>0, <1>1, <1>3 DEF Transmitted
  <2> HIDE DEF more, room, n
  <2>3. /\ n = [d \in Conns |-> n[d]] /\ \A d \in Conns \ {c} : n[d] = net[d]
        /\ n[c] = [net[c] EXCEPT !.sent = more, !.room = room]
    BY <1>0, <2>2 DEF Net
  <2>4. /\ n[c] \in Net /\ n[c].fd = net[c].fd /\ n[c].link = net[c].link /\ n[c].known = net[c].known
        /\ n[c].sent = more /\ n[c].owed = net[c].owed /\ n[c].whole = net[c].whole
    BY <2>1, <2>2, <2>3 DEF Net
  <2>5. n \in [Conns -> Net]
    BY <1>0, <2>3, <2>4
  <2> QED BY <1>1, <1>3, <2>3, <2>4, <2>5 DEF Advances, more, n
<1> QED BY <1>2, <1>3

LEMMA UnitType == ASSUME NEW c \in Conns PROVE Unit(c) \in Seq(Piece) /\ Len(Unit(c)) = 2
BY DEF Unit, Piece

LEMMA PromisedDoes ==
    ASSUME KernelInv, FdInv, NEW f \in Fds, conn[f] # NoConn, NEW n, Advances(n, f), NEW s \in Conns
    PROVE  /\ Advances(Promised(n, conn[f], s), f)
           /\ Promised(n, conn[f], s)[conn[f]].owed = n[conn[f]].owed \o Unit(s)
           /\ Promised(n, conn[f], s)[conn[f]].sent = n[conn[f]].sent
           /\ Promised(n, conn[f], s)[conn[f]].whole = n[conn[f]].whole
<1> DEFINE c == conn[f]
           more == n[c].owed \o Unit(s)
<1>1. c \in Conns /\ n \in [Conns -> Net] /\ n[c] \in Net
  BY KernelFacts DEF Advances
<1>2. more \in Seq(Piece)
  <2>1. n[c].owed \in Seq(Piece)
    BY <1>1 DEF Net
  <2> QED BY <2>1, UnitType, ConcatProperties
<1>3. Promised(n, c, s) = [n EXCEPT ![c].owed = more]
  BY DEF Promised
<1>4. \A e \in Seq(Piece) : /\ [n EXCEPT ![c].owed = e] \in [Conns -> Net]
                            /\ [n EXCEPT ![c].owed = e][c] = [n[c] EXCEPT !.owed = e]
                            /\ \A d \in Conns : d # c => [n EXCEPT ![c].owed = e][d] = n[d]
  BY <1>1 DEF Net
<1> HIDE DEF more
<1>5. /\ Promised(n, c, s) \in [Conns -> Net] /\ Promised(n, c, s)[c] = [n[c] EXCEPT !.owed = more]
      /\ \A d \in Conns : d # c => Promised(n, c, s)[d] = n[d]
  BY <1>2, <1>3, <1>4
<1>6. /\ Promised(n, c, s)[c].owed = more /\ Promised(n, c, s)[c].sent = n[c].sent
      /\ Promised(n, c, s)[c].whole = n[c].whole /\ Promised(n, c, s)[c].fd = n[c].fd
      /\ Promised(n, c, s)[c].link = n[c].link /\ Promised(n, c, s)[c].known = n[c].known
  BY <1>1, <1>5 DEF Net
<1> HIDE DEF c
<1> QED BY <1>5, <1>6 DEF Advances, more, c

LEMMA BrokenDoes ==
    ASSUME KernelInv, FdInv, NEW f \in Fds, NEW n, Advances(n, f)
    PROVE  /\ Advances(Broken(n, conn[f]), f)
           /\ conn[f] # NoConn => Broken(n, conn[f])[conn[f]].whole = FALSE
<1>1. CASE conn[f] = NoConn
  BY <1>1 DEF Broken
<1>2. CASE conn[f] # NoConn
  <2> DEFINE c == conn[f]
             b == Broken(n, c)
  <2>1. c \in Conns /\ n \in [Conns -> Net] /\ n[c] \in Net
    BY <1>2, KernelFacts DEF Advances
  <2>2. b = [n EXCEPT ![c].whole = FALSE]
    BY <1>2 DEF Broken
  <2> HIDE DEF b
  <2>3. /\ b \in [Conns -> Net] /\ b[c] = [n[c] EXCEPT !.whole = FALSE]
        /\ \A d \in Conns : d # c => b[d] = n[d]
    BY <2>1, <2>2 DEF Net
  <2>4. b[c].whole = FALSE /\ b[c].fd = n[c].fd /\ b[c].link = n[c].link /\ b[c].known = n[c].known
    BY <2>1, <2>3 DEF Net
  <2> QED BY <2>3, <2>4 DEF Advances, b
<1> QED BY <1>1, <1>2

\* f's connection goes on, its record as a send or a write leaves it.
LEMMA KernelAdvances ==
    ASSUME KernelInv, FdInv, NEW f \in Fds, OnlyFd(f), Advances(net', f), UNCHANGED <<backlog, reopened>>,
           conn'[f] = conn[f], fdEvents'[f].onWrite = "onConnect" => fdEvents[f].onWrite = "onConnect"
    PROVE  KernelInv'
<1>0. reopened' \subseteq Fds /\ net \in [Conns -> Net]
  BY DEF KernelInv, NetTypes
<1>1. CASE conn[f] = NoConn
  <2>1. net' = net
    BY <1>0, <1>1, NoConnIsNone DEF Advances
  <2> QED BY <1>0, <2>1, KernelSame
<1>2. CASE conn[f] # NoConn
  <2>1. conn[f] \in Conns /\ net[conn[f]].link \in Live
    BY <1>2, KernelFacts DEF KernelInv
  <2>2. net'[conn[f]].link \in Live /\ net'[conn[f]].link # "unused"
    BY <1>2, <2>1 DEF Advances, Live
  <2>3. fdEvents'[f].onWrite = "onConnect" => ~net'[conn[f]].known
    BY <1>2 DEF KernelInv, Advances
  <2> QED BY <1>0, <1>2, <2>2, <2>3, KernelOneConn DEF Advances
<1> QED BY <1>1, <1>2

(* EPOLLOUT                                                                *)
LEMMA OnConnectStep == ASSUME Core, NEW f \in Fds, OnConnect(f) PROVE Core'
<1>0. LoopInv /\ CallInv /\ FdInv /\ KernelInv /\ NetTypes /\ SlotInv(f) /\ FdTypes
  BY DEF Core, KernelInv, FdInv
<1>1. /\ TakeOut(f) /\ Open(f) /\ fdEvents[f].onWrite = "onConnect" /\ UNCHANGED writes
      /\ DelFdEvent(f, {"EV_WRITE"}) /\ net' = [net EXCEPT ![conn[f]].known = TRUE]
      /\ UNCHANGED <<slots, conn, backlog, reopened>> /\ pc' = "callback"
      /\ \E on \in {"connect", "connectFail"} : call' = [on |-> on, fd |-> f, conn |-> conn[f]]
  BY DEF OnConnect, Writable, CallBack, IsClose, Open
<1>2. conn[f] # NoConn /\ conn[f] \in Conns /\ net[conn[f]].link \in Live /\ net[conn[f]].link # "unused"
  BY <1>0, <1>1, KernelFacts DEF SlotInv, KernelInv
<1>3. Rewrites(f)
  BY <1>0, <1>1 DEF Rewrites, slots, FdTypes
<1>4. FdInv' /\ OnlyFd(f) /\ fdEvents'[f].onWrite = "none"
  BY <1>0, <1>1, <1>3, UnwatchDoes
<1>5. KernelInv'
  <2> DEFINE c == conn[f]
  <2>1. c \in Conns /\ net[c] \in Net /\ net \in [Conns -> Net]
    BY <1>0, <1>2 DEF NetTypes
  <2>2. /\ net' \in [Conns -> Net] /\ \A d \in Conns \ {c} : net'[d] = net[d]
        /\ net'[c].fd = net[c].fd /\ net'[c].link = net[c].link
    <3> HIDE DEF c
    <3> QED BY <1>1, <2>1 DEF Net, c
  <2> QED BY <1>0, <1>1, <1>2, <1>4, <2>2, KernelOneConn DEF NetTypes
<1>6. LoopInv'
  BY <1>0, <1>1, <1>2, TakenTypes DEF LoopInv, Call
<1>7. CallInv'
  BY <1>1, <1>2 DEF CallInv
<1> QED BY <1>4, <1>5, <1>6, <1>7 DEF Core

LEMMA FlushFailsStep == ASSUME Core, NEW f \in Fds, FlushFails(f) PROVE Core'
<1>1. /\ TakeOut(f) /\ Open(f) /\ UNCHANGED <<writes, pc, call>>
      /\ Close(f, client[f], net, "closed")
  BY DEF FlushFails, Writable, IsClose, Open
<1>2. LoopInv' /\ pc = "loop"
  BY <1>1, TakenTypes DEF Core, LoopInv
<1> QED BY <1>1, <1>2, PlainClose

\* What write(int) finds.
LEMMA FlushFacts ==
    ASSUME Core, NEW f \in Fds, Flush(f)
    PROVE  /\ TakeOut(f) /\ pc = "loop" /\ Open(f) /\ UNCHANGED <<writes, pc, call>>
           /\ fdEvents[f].onWrite = "onWrite" /\ client[f].send \in Seq(Piece) /\ LoopInv'
<1>1. /\ TakeOut(f) /\ Open(f) /\ UNCHANGED <<writes, pc, call>> /\ fdEvents[f].onWrite = "onWrite"
  BY DEF Flush, Writable, IsClose, Open
<1>2. client[f].send # NoBuf /\ client[f] \in Slot
  BY <1>1 DEF Core, FdInv, FdTypes, SlotInv
<1>3. pc = "loop" /\ LoopInv'
  BY <1>1, TakenTypes DEF Core, LoopInv
<1> QED BY <1>1, <1>2, <1>3 DEF Slot

\* The slot of f as a step that keeps it open leaves it, all but its buffers.
SlotKept(f) ==
    /\ client'[f] \in Slot /\ client'[f].iFd = client[f].iFd /\ client'[f].iSrvId = client[f].iSrvId
    /\ client'[f].recv = client[f].recv
    /\ client' = [g \in Fds |-> client'[g]] /\ \A g \in Fds \ {f} : client'[g] = client[g]

LEMMA KeptRewrites ==
    ASSUME FdInv, NEW f \in Fds, SlotKept(f), UNCHANGED <<conn, m_dwClientNum>> PROVE Rewrites(f)
<1>1. client \in [Fds -> Slot]
  BY DEF FdInv, FdTypes
<1>2. client' \in [Fds -> Slot]
  BY <1>1 DEF SlotKept
<1> QED BY <1>2 DEF SlotKept, Rewrites

LEMMA KeepSend ==
    ASSUME FdInv, NEW f \in Fds, NEW buffer \in {NoBuf} \cup Seq(Piece),
           client' = [client EXCEPT ![f].send = buffer]
    PROVE  SlotKept(f) /\ client'[f].send = buffer /\ client'[f].bNeedClose = client[f].bNeedClose
BY DEF FdInv, FdTypes, Slot, SlotKept

LEMMA KeepClosing ==
    ASSUME FdInv, NEW f \in Fds, NEW bClose \in BOOLEAN,
           client' = [client EXCEPT ![f].bNeedClose = bClose]
    PROVE  SlotKept(f) /\ client'[f].send = client[f].send /\ client'[f].bNeedClose = bClose
BY DEF FdInv, FdTypes, Slot, SlotKept

LEMMA KeepBoth ==
    ASSUME FdInv, NEW f \in Fds, NEW bClose \in BOOLEAN, NEW buffer \in {NoBuf} \cup Seq(Piece),
           client' = [client EXCEPT ![f].bNeedClose = bClose, ![f].send = buffer]
    PROVE  SlotKept(f) /\ client'[f].send = buffer /\ client'[f].bNeedClose = bClose
<1>1. client \in [Fds -> Slot] /\ client[f] \in Slot
  BY DEF FdInv, FdTypes
<1>2. /\ client' = [g \in Fds |-> client'[g]] /\ \A g \in Fds \ {f} : client'[g] = client[g]
      /\ client'[f] = [client[f] EXCEPT !.bNeedClose = bClose, !.send = buffer]
  BY <1>1 DEF Slot
<1> QED BY <1>1, <1>2 DEF Slot, SlotKept

\* The step goes on with f: the two ways write(int) and write(session) leave it.
LEMMA GoesOn ==
    ASSUME Core, NEW f \in Fds, Open(f), SlotKept(f), pc # "parse", UNCHANGED <<pc, call>>, LoopInv',
           UNCHANGED <<m_dwClientNum, conn, backlog, reopened>>, Advances(net', f), FdInv', OnlyFd(f),
           fdEvents'[f].onWrite # "onConnect" \/ fdEvents'[f] = fdEvents[f]
    PROVE  Core'
<1>1. KernelInv'
  BY KernelAdvances DEF Core
<1>2. CallInv'
  <2>1. conn'[f] = conn[f] /\ client'[f].recv = client[f].recv
    BY DEF SlotKept
  <2> QED BY <2>1, CallSame DEF Core
<1> QED BY <1>1, <1>2 DEF Core

LEMMA FlushStep == ASSUME Core, NEW f \in Fds, Flush(f) PROVE Core'
<1>0. LoopInv /\ CallInv /\ FdInv /\ KernelInv /\ SlotInv(f)
  BY DEF Core, KernelInv, FdInv
<1> DEFINE out == client[f].send
<1>1. PICK k \in SendSizes(f, Len(out)) :
        LET rest == SubSeq(out, k + 1, Len(out))
            n == Transmitted(f, out, k)
        IN \/ rest = <<>> /\ client[f].bNeedClose /\ Close(f, client[f], n, "drained")
           \/ /\ client' = [client EXCEPT ![f].send = rest]
              /\ IF rest = <<>> THEN DelFdEvent(f, {"EV_WRITE"}) ELSE UNCHANGED eventVars
              /\ net' = n
              /\ UNCHANGED <<m_dwClientNum, conn, backlog, reopened>>
  BY DEF Flush
<1> DEFINE rest == SubSeq(out, k + 1, Len(out))
           n == Transmitted(f, out, k)
<1>2. k \in 0 .. Len(out) /\ Advances(n, f)
  BY <1>0, FlushFacts, TransmittedDoes
<1>3. rest \in Seq(Piece)
  BY <1>2, FlushFacts, Cut
<1> HIDE DEF rest, n
<1>4. CASE Close(f, client[f], n, "drained")
  <2>1. client[f] \in Slot
    BY <1>0 DEF FdInv, FdTypes
  <2> QED BY <1>2, <1>4, <2>1, FlushFacts, CloseCore DEF Advances
<1>5. CASE /\ client' = [client EXCEPT ![f].send = rest]
           /\ IF rest = <<>> THEN DelFdEvent(f, {"EV_WRITE"}) ELSE UNCHANGED eventVars
           /\ net' = n
           /\ UNCHANGED <<m_dwClientNum, conn, backlog, reopened>>
  <2>1. SlotKept(f) /\ client'[f].send = rest /\ Rewrites(f)
    BY <1>0, <1>3, <1>5, KeepSend, KeptRewrites
  <2>2. FdInv' /\ OnlyFd(f) /\ (fdEvents'[f].onWrite # "onConnect")
    <3>1. CASE rest = <<>>
      BY <1>0, <1>5, <2>1, <3>1, FlushFacts, UnwatchDoes
    <3>2. CASE rest # <<>>
      <4>1. client'[f].send # NoBuf
        BY <1>3, <2>1, CommMgrAssumption
      <4> QED BY <1>0, <1>5, <2>1, <3>2, <4>1, FlushFacts, RewriteDoes DEF eventVars
    <3> QED BY <3>1, <3>2
  <2> QED BY <1>2, <1>5, <2>1, <2>2, FlushFacts, GoesOn
<1> QED BY <1>1, <1>4, <1>5 DEF rest, n

-----------------------------------------------------------------------------
(* What the application does inside a callback.                            *)
LEMMA SessionFacts ==
    ASSUME Core, NEW s \in Conns, MayUse(s), UNCHANGED loop, writes' \in 0 .. MaxWrites
    PROVE  /\ net[s].fd \in Fds /\ pc # "parse" /\ UNCHANGED <<pc, call>> /\ LoopInv'
           /\ conn[net[s].fd] \in {NoConn, s} /\ fdEvents[net[s].fd].onWrite # "onConnect"
<1> SUFFICES ASSUME NEW f, f = net[s].fd
             PROVE  /\ f \in Fds /\ pc # "parse" /\ UNCHANGED <<pc, call>> /\ LoopInv'
                    /\ conn[f] \in {NoConn, s} /\ fdEvents[f].onWrite # "onConnect"
  OBVIOUS
<1>1. net[s].known /\ conn[f] \in {NoConn, s} /\ pc # "parse" /\ UNCHANGED <<pc, call, batch, cur>>
  BY DEF MayUse, InCallback, loop
<1>2. f \in Fds
  BY <1>1 DEF Core, KernelInv
<1>3. fdEvents[f].onWrite # "onConnect"
  BY <1>1, <1>2 DEF Core, KernelInv, FdInv, SlotInv
<1>4. LoopInv'
  BY <1>1 DEF Core, LoopInv
<1> QED BY <1>1, <1>2, <1>3, <1>4

LEMMA WriteFacts ==
    ASSUME Core, NEW s \in Conns, Write(s)
    PROVE  /\ net[s].fd \in Fds /\ pc # "parse" /\ UNCHANGED <<pc, call>> /\ LoopInv'
           /\ conn[net[s].fd] \in {NoConn, s} /\ fdEvents[net[s].fd].onWrite # "onConnect"
<1>1. MayUse(s) /\ UNCHANGED loop /\ writes' \in 0 .. MaxWrites
  BY CommMgrAssumption DEF Write, Core, LoopInv
<1> QED BY <1>1, SessionFacts

\* What write(session) has to offer, and what send() takes of it.
LEMMA SendFacts ==
    ASSUME Core, NEW s \in Conns, Write(s), NEW k, Sends(s, k), NEW f, f = net[s].fd
    PROVE  /\ Open(f) /\ conn[f] = s /\ conn[f] # NoConn
           /\ Queue(f) \in Seq(Piece) /\ Out(s) = Queue(f) \o Unit(s)
           /\ Out(s) \in Seq(Piece) /\ k \in 0 .. Len(Out(s))
           /\ Rest(s, k) \in Seq(Piece) /\ SubSeq(Out(s), 1, k) \o Rest(s, k) = Out(s)
           /\ Advances(Transmitted(f, Out(s), k), f)
<1>1. f \in Fds /\ conn[f] \in {NoConn, s} /\ KernelInv /\ FdInv /\ client[f] \in Slot
  BY WriteFacts DEF Core, FdInv, FdTypes
<1>2. Open(f) /\ conn[f] # NoConn /\ k \in SendSizes(f, Len(Out(s)))
  BY DEF Sends, IsClose, Open, SendFails, LinkOf
<1>3. Queue(f) \in Seq(Piece)
  BY <1>1 DEF Queue, Slot
<1>4. Out(s) = Queue(f) \o Unit(s) /\ Out(s) \in Seq(Piece)
  BY <1>3, UnitType, ConcatProperties DEF Out
<1>5. k \in 0 .. Len(Out(s)) /\ Advances(Transmitted(f, Out(s), k), f)
  BY <1>1, <1>2, <1>4, TransmittedDoes
<1>6. Rest(s, k) \in Seq(Piece) /\ SubSeq(Out(s), 1, k) \o Rest(s, k) = Out(s)
  BY <1>4, <1>5, Cut DEF Rest
<1> QED BY <1>1, <1>2, <1>3, <1>4, <1>5, <1>6

LEMMA AppCloseStep == ASSUME Core, NEW s \in Conns, AppClose(s) PROVE Core'
<1>1. MayUse(s) /\ ~IsClose(net[s].fd) /\ Close(net[s].fd, client[net[s].fd], net, "closed")
  BY DEF AppClose
<1>2. UNCHANGED loop /\ writes' \in 0 .. MaxWrites
  BY DEF AppClose, Core, LoopInv
<1>3. /\ net[s].fd \in Fds /\ pc # "parse" /\ UNCHANGED <<pc, call>> /\ LoopInv'
  BY <1>1, <1>2, SessionFacts
<1>4. Open(net[s].fd)
  BY <1>1 DEF IsClose, Open
<1> QED BY <1>1, <1>3, <1>4, PlainClose

LEMMA WriteRefusedStep == ASSUME Core, NEW s \in Conns, WriteRefused(s) PROVE Core'
<1>1. Write(s) /\ UNCHANGED <<eventVars, slots, world>>
  BY DEF WriteRefused
<1>2. LoopInv' /\ UNCHANGED <<pc, call>>
  BY <1>1, WriteFacts
<1>3. reopened' \subseteq Fds /\ CallInv'
  BY <1>1, <1>2, CallUnchanged DEF Core, KernelInv, NetTypes, world, slots, eventVars
<1> QED BY <1>1, <1>2, <1>3, MovesOnly DEF world

\* A write that leaves CEvent's table alone.
LEMMA QuietWrite ==
    ASSUME Core, NEW s \in Conns, Write(s), NEW f, f = net[s].fd, Open(f), SlotKept(f),
           UNCHANGED <<eventVars, m_dwClientNum, conn, backlog, reopened>>, Advances(net', f),
           fdEvents[f].onWrite = "onWrite" => client'[f].send # NoBuf
    PROVE  Core'
<1>1. /\ f \in Fds /\ pc # "parse" /\ UNCHANGED <<pc, call>> /\ LoopInv' /\ FdInv
      /\ fdEvents' = fdEvents
  BY WriteFacts DEF Core, eventVars
<1>2. Rewrites(f)
  BY <1>1, KeptRewrites
<1>3. FdInv' /\ OnlyFd(f)
  BY <1>1, <1>2, RewriteDoes
<1> QED BY <1>1, <1>3, GoesOn

LEMMA WriteFailsStep ==
    ASSUME Core, NEW s \in Conns, NEW bClose \in BOOLEAN, WriteFails(s, bClose) PROVE Core'
<1> SUFFICES ASSUME NEW f, f = net[s].fd PROVE Core'
  OBVIOUS
<1>1. /\ Write(s) /\ Open(f) /\ client' = [client EXCEPT ![f].bNeedClose = bClose]
      /\ net' = Broken(net, conn[f])
      /\ UNCHANGED <<eventVars, m_dwClientNum, conn, backlog, reopened>>
  BY DEF WriteFails, IsClose, Open
<1>2. f \in Fds /\ FdInv /\ KernelInv /\ SlotInv(f)
  BY <1>1, WriteFacts DEF Core, FdInv
<1>3. Advances(net, f)
  BY <1>2 DEF Advances, KernelInv, NetTypes
<1>4. Advances(net', f)
  BY <1>1, <1>2, <1>3, BrokenDoes
<1>5. SlotKept(f) /\ client'[f].send = client[f].send
  BY <1>1, <1>2, KeepClosing
<1> QED BY <1>1, <1>2, <1>4, <1>5, QuietWrite DEF SlotInv

LEMMA WriteSentStep ==
    ASSUME Core, NEW s \in Conns, NEW bClose \in BOOLEAN, NEW k, WriteSent(s, bClose, k) PROVE Core'
<1> SUFFICES ASSUME NEW f, f = net[s].fd PROVE Core'
  OBVIOUS
<1> DEFINE n == Promised(Transmitted(f, Out(s), k), conn[f], s)
<1>1. /\ Write(s) /\ Sends(s, k)
      /\ \/ bClose /\ Close(f, [client[f] EXCEPT !.bNeedClose = TRUE], n, "drained")
         \/ /\ client' = [client EXCEPT ![f].bNeedClose = FALSE,
                                        ![f].send = IF @ = NoBuf THEN NoBuf ELSE <<>>]
            /\ DelFdEvent(f, {"EV_WRITE"}) /\ net' = n
            /\ UNCHANGED <<m_dwClientNum, conn, backlog, reopened>>
  BY DEF WriteSent
<1>2. /\ f \in Fds /\ pc # "parse" /\ UNCHANGED <<pc, call>> /\ LoopInv' /\ FdInv /\ KernelInv
      /\ client[f] \in Slot
  BY <1>1, WriteFacts DEF Core, FdInv, FdTypes
<1>3. Open(f) /\ conn[f] # NoConn /\ Advances(Transmitted(f, Out(s), k), f)
  BY <1>1, SendFacts
<1>4. Advances(n, f)
  BY <1>2, <1>3, PromisedDoes
<1> HIDE DEF n
<1>5. CASE Close(f, [client[f] EXCEPT !.bNeedClose = TRUE], n, "drained")
  <2> DEFINE slot == [client[f] EXCEPT !.bNeedClose = TRUE]
  <2>1. slot \in Slot /\ slot.iSrvId = client[f].iSrvId
    BY <1>2 DEF Slot
  <2> HIDE DEF slot
  <2>2. Close(f, slot, n, "drained")
    BY <1>5 DEF slot
  <2> QED BY <1>2, <1>3, <1>4, <2>1, <2>2, CloseCore DEF Advances
<1>6. CASE /\ client' = [client EXCEPT ![f].bNeedClose = FALSE,
                                       ![f].send = IF @ = NoBuf THEN NoBuf ELSE <<>>]
           /\ DelFdEvent(f, {"EV_WRITE"}) /\ net' = n
           /\ UNCHANGED <<m_dwClientNum, conn, backlog, reopened>>
  <2> DEFINE buffer == IF client[f].send = NoBuf THEN NoBuf ELSE <<>>
  <2>1. buffer \in {NoBuf} \cup Seq(Piece)
    OBVIOUS
  <2>2. client' = [client EXCEPT ![f].bNeedClose = FALSE, ![f].send = buffer]
    BY <1>6
  <2> HIDE DEF buffer
  <2>3. SlotKept(f) /\ Rewrites(f)
    BY <1>2, <1>6, <2>1, <2>2, KeepBoth, KeptRewrites
  <2>4. FdInv' /\ OnlyFd(f) /\ fdEvents'[f].onWrite = "none"
    BY <1>2, <1>3, <1>6, <2>3, UnwatchDoes
  <2> QED BY <1>2, <1>3, <1>4, <1>6, <2>3, <2>4, GoesOn
<1> QED BY <1>1, <1>5, <1>6

LEMMA WriteQueuedStep ==
    ASSUME Core, NEW s \in Conns, NEW bClose \in BOOLEAN, NEW k, WriteQueued(s, bClose, k) PROVE Core'
<1> SUFFICES ASSUME NEW f, f = net[s].fd PROVE Core'
  OBVIOUS
<1> DEFINE n == Transmitted(f, Out(s), k)
<1>1. /\ Write(s) /\ Sends(s, k) /\ Rest(s, k) # <<>>
      /\ client' = [client EXCEPT ![f].bNeedClose = bClose, ![f].send = Rest(s, k)]
      /\ UNCHANGED <<m_dwClientNum, conn, backlog, reopened>>
  BY DEF WriteQueued
<1>2. PICK ok \in BOOLEAN : /\ AddFdEvent(f, "EV_WRITE", "onWrite", ok)
                            /\ net' = IF ok THEN Promised(n, conn[f], s) ELSE Broken(n, conn[f])
  BY DEF WriteQueued
<1>3. /\ f \in Fds /\ pc # "parse" /\ UNCHANGED <<pc, call>> /\ LoopInv' /\ FdInv /\ KernelInv
      /\ FdEventsType
  BY <1>1, WriteFacts DEF Core, FdInv, FdTypes
<1>4. Open(f) /\ conn[f] # NoConn /\ Advances(n, f) /\ Rest(s, k) \in Seq(Piece)
  BY <1>1, SendFacts
<1>5. Advances(net', f)
  BY <1>2, <1>3, <1>4, PromisedDoes, BrokenDoes
<1>6. SlotKept(f) /\ client'[f].send = Rest(s, k) /\ Rewrites(f) /\ client'[f].send # NoBuf
  <2> DEFINE buffer == Rest(s, k)
  <2>1. /\ buffer \in {NoBuf} \cup Seq(Piece) /\ buffer # NoBuf
        /\ client' = [client EXCEPT ![f].bNeedClose = bClose, ![f].send = buffer]
    BY <1>1, <1>4, CommMgrAssumption
  <2> HIDE DEF buffer
  <2>2. client' = [client EXCEPT ![f].bNeedClose = bClose, ![f].send = buffer]
    BY <2>1
  <2>3. SlotKept(f) /\ client'[f].send = buffer
    BY <1>3, <2>1, <2>2, KeepBoth
  <2> QED BY <1>1, <1>3, <2>1, <2>3, KeptRewrites DEF buffer
<1>7. "EV_WRITE" \in EvType /\ "onWrite" \in Handler
  BY DEF EvType, Handler
<1>8. fdEvents'[f].onWrite = "onWrite"
  <2>1. fdEvents'[f] = [iEventType |-> fdEvents[f].iEventType \cup {"EV_WRITE"},
                        onWrite |-> IF "EV_WRITE" = "EV_WRITE" THEN "onWrite" ELSE fdEvents[f].onWrite]
    BY <1>2, <1>3, <1>7, AddFdEventDoes
  <2> QED BY <2>1
<1>9. FdInv' /\ OnlyFd(f)
  BY <1>2, <1>3, <1>4, <1>6, <1>7, <1>8, WatchDoes
<1> QED BY <1>1, <1>3, <1>4, <1>5, <1>6, <1>8, <1>9, GoesOn

LEMMA WriteOverflowStep ==
    ASSUME Core, NEW s \in Conns, NEW bClose \in BOOLEAN, NEW k, k \in Nat,
           WriteOverflow(s, bClose, k) PROVE Core'
<1> SUFFICES ASSUME NEW f, f = net[s].fd PROVE Core'
  OBVIOUS
<1> DEFINE n == Transmitted(f, Out(s), k)
           left == SubSeq(Queue(f), k + 1, Len(Queue(f)))
<1>1. /\ Write(s) /\ Sends(s, k)
      /\ client' = [client EXCEPT ![f].bNeedClose = bClose, ![f].send = left]
      /\ net' = Broken(n, conn[f])
      /\ UNCHANGED <<eventVars, m_dwClientNum, conn, backlog, reopened>>
  BY DEF WriteOverflow
<1>2. f \in Fds /\ FdInv /\ KernelInv
  BY <1>1, WriteFacts DEF Core
<1>3. Open(f) /\ Advances(n, f) /\ Queue(f) \in Seq(Piece)
  BY <1>1, SendFacts
<1>4. left \in Seq(Piece)
  <2>1. Len(Queue(f)) \in Nat /\ \A i \in 1 .. Len(Queue(f)) : Queue(f)[i] \in Piece
    BY <1>3, LenProperties, ElementOfSeq
  <2>2. \A i \in k + 1 .. Len(Queue(f)) : Queue(f)[i] \in Piece
    BY <2>1
  <2>3. k + 1 \in Int /\ Len(Queue(f)) \in Int
    BY <2>1
  <2> QED BY <2>2, <2>3, SubSeqProperties
<1>5. Advances(net', f)
  BY <1>1, <1>2, <1>3, BrokenDoes
<1> HIDE DEF left
<1>6. SlotKept(f) /\ client'[f].send # NoBuf
  <2>1. left \in {NoBuf} \cup Seq(Piece) /\ left # NoBuf
    BY <1>4, CommMgrAssumption
  <2>2. client' = [client EXCEPT ![f].bNeedClose = bClose, ![f].send = left]
    BY <1>1
  <2>3. SlotKept(f) /\ client'[f].send = left
    BY <1>2, <2>1, <2>2, KeepBoth, ZenonT(30)
  <2> QED BY <2>1, <2>3
<1> QED BY <1>1, <1>3, <1>5, <1>6, QuietWrite

\* What connect finds: a free descriptor, and not the one it is called back for.
LEMMA ConnectFacts ==
    ASSUME Core, NEW f \in Fds, MayConnect(f)
    PROVE  /\ conn[f] = NoConn /\ pc # "parse" /\ UNCHANGED <<m_dwClientNum, pc, call, backlog>>
           /\ LoopInv' /\ (pc = "callback" => call.fd # f) /\ interest[f] = {}
<1>1. /\ conn[f] = NoConn /\ pc # "parse" /\ UNCHANGED <<m_dwClientNum, pc, call, batch, cur, backlog, writes>>
      /\ ConnOf(call.fd) = call.conn
  BY DEF MayConnect, InCallback, FreeFds, loop
<1>2. LoopInv' /\ interest[f] = {}
  BY <1>1 DEF Core, LoopInv, FdInv, SlotInv
<1>3. pc = "callback" => call.fd # f
  BY <1>1, NoConnIsNone, CommMgrAssumption DEF Core, CallInv, ConnOf
<1> QED BY <1>1, <1>2, <1>3

\* A slot that is no server's takes at most itself off the servers.
LEMMA NoServer ==
    ASSUME FdInv, NEW f \in Fds, OnlyFd(f), m_dwClientNum' = m_dwClientNum, conn[f] = NoConn,
           f \notin Servers'
    PROVE  Counting'
<1>1. Servers' = Servers \ {f}
  BY DEF Servers, OnlyFd, Open
<1>2. Cardinality(Servers') = IF f \in Servers THEN Cardinality(Servers) - 1 ELSE Cardinality(Servers)
  BY <1>1, ServersFinite, FS_RemoveElement
<1>3. refusals = 0 => f \notin Servers
  BY DEF FdInv, SlotInv, Servers
<1>4. m_dwClientNum \in Nat /\ Cardinality(Servers) \in Nat
  BY ServersFinite, CommMgrAssumption DEF FdInv, Counting
<1> QED BY <1>2, <1>3, <1>4 DEF FdInv, Counting, OnlyFd

LEMMA AppConnectStep == ASSUME Core, NEW f \in Fds, AppConnect(f) PROVE Core'
<1> DEFINE c == Min(Unused)
<1>0. /\ LoopInv /\ CallInv /\ FdInv /\ KernelInv /\ FdTypes /\ FdEventsType /\ NetTypes /\ SlotInv(f)
      /\ client[f] \in Slot
  BY DEF Core, KernelInv, FdInv, FdTypes
<1>1. /\ MayConnect(f) /\ Unused # {} /\ AddFdEvent(f, "EV_WRITE", "onConnect", TRUE)
      /\ client' = [client EXCEPT ![f].iFd = TRUE, ![f].iSrvId = "conn"]
      /\ conn' = [conn EXCEPT ![f] = c] /\ net' = [net EXCEPT ![c].link = "connecting", ![c].fd = f]
      /\ reopened' = reopened \cup {f}
  BY DEF AppConnect
<1>2. /\ conn[f] = NoConn /\ pc # "parse" /\ UNCHANGED <<m_dwClientNum, pc, call, backlog>>
      /\ LoopInv' /\ (pc = "callback" => call.fd # f) /\ interest[f] = {}
  BY <1>1, ConnectFacts
<1>3. c \in Conns /\ net[c] = Fresh /\ net[c] \in Net /\ c # NoConn
  BY <1>0, <1>1, NextConn, NoConnIsNone DEF NetTypes
<1> HIDE DEF c
<1>4. /\ FdEventsType' /\ fdEvents'[f].onWrite = "onConnect"
      /\ fdEvents'[f].iEventType = fdEvents[f].iEventType \cup {"EV_WRITE"}
      /\ interest'[f] = fdEvents'[f].iEventType
      /\ (\A g \in Fds \ {f} : fdEvents'[g] = fdEvents[g] /\ interest'[g] = interest[g])
      /\ (refusals' = 0 => refusals = 0)
  <2>1. "EV_WRITE" \in EvType /\ "onConnect" \in Handler
    BY DEF EvType, Handler
  <2>2. PICK ok \in BOOLEAN : ok /\ AddFdEvent(f, "EV_WRITE", "onConnect", ok)
    BY <1>1
  <2>3. /\ FdEventsType'
        /\ fdEvents'[f] = [iEventType |-> fdEvents[f].iEventType \cup {"EV_WRITE"},
                           onWrite |-> IF "EV_WRITE" = "EV_WRITE" THEN "onConnect" ELSE fdEvents[f].onWrite]
        /\ interest'[f] = fdEvents'[f].iEventType
        /\ (\A g \in Fds \ {f} : fdEvents'[g] = fdEvents[g] /\ interest'[g] = interest[g])
        /\ (refusals' = 0 => refusals = 0)
    BY <1>0, <2>1, <2>2, AddFdEventDoes, ZenonT(30)
  <2> QED BY <2>3
<1>5. /\ client' = [g \in Fds |-> client'[g]] /\ \A g \in Fds \ {f} : client'[g] = client[g]
      /\ client'[f] = [client[f] EXCEPT !.iFd = TRUE, !.iSrvId = "conn"]
  BY <1>0, <1>1 DEF FdTypes, Slot
<1>6. /\ client'[f] \in Slot /\ client'[f].iFd = TRUE /\ client'[f].iSrvId = "conn"
      /\ client'[f].send = client[f].send /\ client'[f].recv = client[f].recv
  BY <1>0, <1>5 DEF Slot
<1>7. /\ client' \in [Fds -> Slot] /\ conn' \in [Fds -> Conns \cup {NoConn}] /\ conn'[f] = c
      /\ \A g \in Fds \ {f} : conn'[g] = conn[g]
  BY <1>0, <1>1, <1>3, <1>5, <1>6 DEF FdTypes
<1>8. OnlyFd(f) /\ FdTypes'
  BY <1>4, <1>5, <1>7 DEF OnlyFd, FdTypes
<1>9. SlotInv(f)'
  BY <1>3, <1>4, <1>6, <1>7 DEF SlotInv, Open
<1>10. Counting'
  <2>1. f \notin Servers'
    BY <1>6 DEF Servers
  <2> QED BY <1>0, <1>2, <1>8, <2>1, NoServer
<1>11. FdInv'
  BY <1>0, <1>8, <1>9, <1>10, OneFd
<1>12. KernelInv'
  <2>1. /\ net' = [d \in Conns |-> net'[d]] /\ \A d \in Conns \ {c} : net'[d] = net[d]
        /\ net'[c] = [net[c] EXCEPT !.link = "connecting", !.fd = f]
    BY <1>0, <1>1, <1>3 DEF NetTypes, Net
  <2>2. /\ net'[c] \in Net /\ net'[c].link = "connecting" /\ net'[c].fd = f /\ net'[c].known = FALSE
    <3>1. net[c].known = FALSE
      BY <1>3 DEF Fresh
    <3>2. net'[c] \in Net /\ net'[c].link = "connecting" /\ net'[c].fd = f /\ net'[c].known = net[c].known
      BY <1>3, <2>1 DEF Net, Link
    <3> QED BY <3>1, <3>2
  <2>3. net' \in [Conns -> Net]
    BY <1>0, <2>1, <2>2 DEF NetTypes
  <2>4. \A g \in Fds : conn[g] # c /\ (conn[g] # NoConn => conn[g] \in Conns)
    BY <1>0, <1>3, KernelFacts DEF Fresh
  <2>5. \A i \in DOMAIN backlog : backlog[i] # c /\ backlog[i] \in Conns
    BY <1>0, <1>3, KernelFacts DEF Fresh
  <2>6. NetTypes'
    BY <1>0, <1>1, <1>2, <2>3 DEF NetTypes
  <2>7. \A g \in Fds : conn'[g] # NoConn => net'[conn'[g]].fd = g /\ net'[conn'[g]].link \in Live
    <3>1. net'[conn'[f]].fd = f /\ net'[conn'[f]].link \in Live
      BY <1>7, <2>2 DEF Live
    <3>2. ASSUME NEW g \in Fds \ {f}, conn'[g] # NoConn
          PROVE  net'[conn'[g]].fd = g /\ net'[conn'[g]].link \in Live
      <4>1. conn'[g] = conn[g] /\ net'[conn[g]] = net[conn[g]]
        BY <1>7, <2>1, <2>4, <3>2
      <4> QED BY <1>0, <3>2, <4>1 DEF KernelInv
    <3> QED BY <3>1, <3>2
  <2>8. \A i \in DOMAIN backlog' : Untouched(backlog[i])'
    BY <1>0, <1>2, <2>1, <2>5 DEF KernelInv, Untouched
  <2>9. \A d \in Conns : /\ net'[d].link = "unused" => net'[d] = Fresh
                         /\ net'[d].known => net'[d].fd \in Fds
    BY <1>0, <2>1, <2>2 DEF KernelInv
  <2>10. \A g \in Fds : fdEvents'[g].onWrite = "onConnect" => ~net'[conn'[g]].known
    <3> SUFFICES ASSUME NEW g \in Fds, fdEvents'[g].onWrite = "onConnect" PROVE ~net'[conn'[g]].known
      OBVIOUS
    <3>1. CASE g = f
      BY <1>7, <2>2, <3>1
    <3>2. CASE g # f
      <4>1. fdEvents[g].onWrite = "onConnect" /\ conn'[g] = conn[g]
        BY <1>4, <1>7, <3>2
      <4>2. conn[g] \in Conns \ {c}
        BY <1>0, <2>4, <4>1 DEF FdInv, SlotInv
      <4> QED BY <1>0, <2>1, <4>1, <4>2 DEF KernelInv
    <3> QED BY <3>1, <3>2
  <2>11. \A i, j \in DOMAIN backlog' : backlog'[i] = backlog'[j] => i = j
    BY <1>0, <1>2 DEF KernelInv
  <2> QED BY <2>6, <2>7, <2>8, <2>9, <2>10, <2>11 DEF KernelInv
<1>13. CallInv'
  BY <1>0, <1>2, <1>8, <1>11, CallSame
<1> QED BY <1>2, <1>11, <1>12, <1>13 DEF Core

LEMMA AppConnectFailsStep == ASSUME Core, NEW f \in Fds, AppConnectFails(f) PROVE Core'
<1>0. /\ LoopInv /\ CallInv /\ FdInv /\ KernelInv /\ FdTypes /\ FdEventsType /\ NetTypes /\ SlotInv(f)
      /\ client[f] \in Slot
  BY DEF Core, KernelInv, FdInv, FdTypes
<1>1. /\ MayConnect(f) /\ UNCHANGED <<conn, net, reopened>>
      /\ client' = [client EXCEPT ![f].iFd = FALSE, ![f].iSrvId = "conn",
                                  ![f].recv = NoBuf, ![f].send = NoBuf]
      /\ \/ DelFdEvent(f, EvType)
         \/ EpollCtl(f, FALSE) /\ UNCHANGED interest
            /\ fdEvents' = [fdEvents EXCEPT ![f] = [iEventType |-> {}, onWrite |-> "none"]]
  BY DEF AppConnectFails
<1>2. /\ conn[f] = NoConn /\ pc # "parse" /\ UNCHANGED <<m_dwClientNum, pc, call, backlog>>
      /\ LoopInv' /\ interest[f] = {}
  BY <1>1, ConnectFacts
<1>3. /\ FdEventsType' /\ fdEvents'[f] = Unlisted /\ interest'[f] = {}
      /\ (\A g \in Fds \ {f} : fdEvents'[g] = fdEvents[g] /\ interest'[g] = interest[g])
      /\ (refusals' = 0 => refusals = 0)
  <2>1. CASE DelFdEvent(f, EvType)
    <3>1. fdEvents[f].iEventType \ EvType = {}
      BY <1>0 DEF FdEventsType
    <3>2. /\ FdEventsType' /\ fdEvents'[f].iEventType = {} /\ fdEvents'[f].onWrite = "none"
          /\ interest'[f] = {} /\ refusals' = refusals
          /\ (\A g \in Fds \ {f} : fdEvents'[g] = fdEvents[g] /\ interest'[g] = interest[g])
      BY <1>0, <2>1, <3>1, DelFdEventDoes
    <3>3. fdEvents'[f] = Unlisted
      BY <3>2 DEF FdEventsType, Unlisted
    <3> QED BY <3>2, <3>3
  <2>2. CASE /\ EpollCtl(f, FALSE) /\ UNCHANGED interest
             /\ fdEvents' = [fdEvents EXCEPT ![f] = [iEventType |-> {}, onWrite |-> "none"]]
    <3>1. fdEvents' = [fdEvents EXCEPT ![f] = Unlisted]
          /\ Unlisted \in [iEventType : SUBSET EvType, onWrite : Handler]
      BY <2>2 DEF Unlisted, Handler
    <3>2. /\ fdEvents' \in [Fds -> [iEventType : SUBSET EvType, onWrite : Handler]]
          /\ fdEvents'[f] = Unlisted /\ \A g \in Fds \ {f} : fdEvents'[g] = fdEvents[g]
      BY <1>0, <3>1 DEF FdEventsType
    <3>3. refusals' \in 0 .. MaxRefusals /\ (refusals' = 0 => refusals = 0)
      BY <1>0, <2>2, FdEventsAssumption DEF EpollCtl, FdEventsType
    <3> QED BY <1>0, <1>2, <2>2, <3>2, <3>3 DEF FdEventsType
  <2> QED BY <1>1, <2>1, <2>2
<1>4. /\ client' = [g \in Fds |-> client'[g]] /\ \A g \in Fds \ {f} : client'[g] = client[g]
      /\ client'[f] = [client[f] EXCEPT !.iFd = FALSE, !.iSrvId = "conn", !.recv = NoBuf, !.send = NoBuf]
  BY <1>0, <1>1 DEF FdTypes, Slot
<1>5. /\ client'[f] \in Slot /\ client'[f].iFd = FALSE
      /\ client'[f].send = NoBuf /\ client'[f].recv = NoBuf
  BY <1>0, <1>4 DEF Slot
<1>6. client' \in [Fds -> Slot]
  BY <1>0, <1>4, <1>5 DEF FdTypes
<1>7. OnlyFd(f) /\ FdTypes'
  BY <1>0, <1>1, <1>3, <1>4, <1>6 DEF OnlyFd, FdTypes
<1>8. SlotInv(f)' /\ ~Open(f)'
  BY <1>1, <1>2, <1>3, <1>5 DEF SlotInv, Open, Unlisted
<1>9. Counting'
  <2>1. f \notin Servers'
    BY <1>8 DEF Servers
  <2> QED BY <1>0, <1>2, <1>7, <2>1, NoServer
<1>10. FdInv'
  BY <1>0, <1>7, <1>8, <1>9, OneFd
<1>11. KernelInv'
  <2>1. fdEvents'[f].onWrite # "onConnect" /\ reopened' \subseteq Fds
    BY <1>0, <1>1, <1>3 DEF Unlisted, NetTypes
  <2> QED BY <1>0, <1>1, <1>2, <1>7, <2>1, KernelSame
<1>12. CallInv'
  BY <1>0, <1>2, <1>7, <1>8, <1>10, CallSame
<1> QED BY <1>2, <1>10, <1>11, <1>12 DEF Core

-----------------------------------------------------------------------------
(* The peers.                                                              *)
LEMMA PeerFacts ==
    ASSUME Core, Peer
    PROVE  FdInv' /\ LoopInv' /\ CallInv' /\ UNCHANGED <<fdEvents, conn, reopened>>
<1>1. UNCHANGED <<eventVars, slots, pc, call, batch, cur, conn, reopened, writes>> /\ pc = "loop"
  BY DEF Peer, loop
<1>2. FdInv'
  BY <1>1, FdUnchanged DEF Core
<1>3. LoopInv'
  BY <1>1 DEF Core, LoopInv
<1>4. CallInv'
  BY <1>1, CallUnchanged DEF Core, slots, eventVars
<1> QED BY <1>1, <1>2, <1>3, <1>4 DEF eventVars

LEMMA PeerConnectStep == ASSUME Core, PeerConnect PROVE Core'
<1> DEFINE c == Min(Unused)
<1>0. FdInv /\ KernelInv /\ NetTypes
  BY DEF Core, KernelInv
<1>1. /\ Unused # {} /\ net' = [net EXCEPT ![c].link = "up"] /\ backlog' = Append(backlog, c) /\ Peer
  BY DEF PeerConnect
<1>2. FdInv' /\ LoopInv' /\ CallInv' /\ UNCHANGED <<fdEvents, conn, reopened>>
  BY <1>1, PeerFacts
<1>3. c \in Conns /\ net[c] = Fresh /\ net[c] \in Net
  BY <1>0, <1>1, NextConn DEF NetTypes
<1> HIDE DEF c
<1>4. /\ net' \in [Conns -> Net] /\ (\A d \in Conns \ {c} : net'[d] = net[d])
      /\ net'[c] = [Fresh EXCEPT !.link = "up"]
  <2>1. net'[c] = [net[c] EXCEPT !.link = "up"] /\ \A d \in Conns \ {c} : net'[d] = net[d]
    BY <1>0, <1>1, <1>3 DEF NetTypes
  <2>2. net'[c] \in Net
    BY <1>3, <2>1 DEF Net, Link
  <2>3. net' = [d \in Conns |-> net'[d]]
    BY <1>0, <1>1, <1>3 DEF NetTypes, Net
  <2>4. net' \in [Conns -> Net]
    BY <1>0, <2>1, <2>2, <2>3 DEF NetTypes
  <2> QED BY <1>3, <2>1, <2>4
<1>5. net'[c].link = "up" /\ net'[c].known = FALSE
  BY <1>4 DEF Fresh
<1>6. /\ backlog' \in Seq(Conns) /\ DOMAIN backlog' = 1 .. Len(backlog) + 1 /\ Len(backlog) \in Nat
      /\ DOMAIN backlog = 1 .. Len(backlog)
      /\ \A i \in 1 .. Len(backlog) : backlog'[i] = backlog[i]
      /\ backlog'[Len(backlog) + 1] = c
  BY <1>0, <1>1, <1>3, LenProperties, AppendProperties DEF NetTypes
<1>7. /\ \A g \in Fds : conn[g] # c /\ (conn[g] # NoConn => conn[g] \in Conns)
      /\ \A i \in 1 .. Len(backlog) : backlog[i] # c /\ backlog[i] \in Conns
  <2>1. net[c].link = "unused" /\ c # NoConn
    BY <1>3, NoConnIsNone DEF Fresh
  <2> QED BY <1>0, <1>6, <2>1, KernelFacts
<1>8. NetTypes'
  BY <1>0, <1>2, <1>4, <1>6 DEF NetTypes
<1>9. \A g \in Fds : conn'[g] # NoConn => net'[conn'[g]].fd = g /\ net'[conn'[g]].link \in Live
  BY <1>0, <1>2, <1>4, <1>7 DEF KernelInv
<1>10. \A i \in DOMAIN backlog' : Untouched(backlog[i])'
  <2>1. ASSUME NEW i \in 1 .. Len(backlog) PROVE Untouched(backlog[i])'
    <3>1. Untouched(backlog[i]) /\ net'[backlog'[i]] = net[backlog[i]]
      BY <1>0, <1>4, <1>6, <1>7 DEF KernelInv
    <3> QED BY <3>1 DEF Untouched
  <2>2. (\E l \in {"up", "fin", "rst"} : net'[c] = [Fresh EXCEPT !.link = l])
    BY <1>4
  <2>3. ASSUME NEW i \in 1 .. Len(backlog) + 1, i \notin 1 .. Len(backlog) PROVE backlog'[i] = c
    <3>1. i = Len(backlog) + 1
      BY <1>6, <2>3
    <3> QED BY <1>6, <3>1
  <2> QED BY <1>6, <2>1, <2>2, <2>3 DEF Untouched
<1>11. \A i, j \in DOMAIN backlog' : backlog'[i] = backlog'[j] => i = j
  <2>1. \A i \in 1 .. Len(backlog) + 1 : i \in 1 .. Len(backlog) \/ i = Len(backlog) + 1
    BY <1>6
  <2>2. \A i, j \in 1 .. Len(backlog) : backlog[i] = backlog[j] => i = j
    BY <1>0, <1>6 DEF KernelInv
  <2> QED BY <1>6, <1>7, <2>1, <2>2
<1>12. \A d \in Conns : /\ net'[d].link = "unused" => net'[d] = Fresh
                        /\ net'[d].known => net'[d].fd \in Fds
  BY <1>0, <1>4, <1>5 DEF KernelInv
<1>13. \A g \in Fds : fdEvents'[g].onWrite = "onConnect" => ~net'[conn'[g]].known
  BY <1>0, <1>2, <1>4, <1>7 DEF KernelInv, FdInv, SlotInv
<1>14. KernelInv'
  BY <1>8, <1>9, <1>10, <1>11, <1>12, <1>13 DEF KernelInv
<1> QED BY <1>2, <1>14 DEF Core

LEMMA MovesStep ==
    ASSUME Core, NEW c \in Conns, NEW from, NEW to \in Live, Moves(c, from, to), "unused" \notin from,
           Untouched(c) /\ net[c].link \in from => to \in {"up", "fin", "rst"}
    PROVE  Core'
<1>0. FdInv /\ KernelInv /\ NetTypes /\ net[c] \in Net /\ to \in Link
  BY DEF Core, KernelInv, NetTypes, Live, Link
<1>1. net[c].link \in from /\ net' = [net EXCEPT ![c].link = to] /\ Peer /\ UNCHANGED backlog
  BY DEF Moves
<1>2. FdInv' /\ LoopInv' /\ CallInv' /\ UNCHANGED <<fdEvents, conn, reopened>>
  BY <1>1, PeerFacts
<1>3. /\ net' = [d \in Conns |-> net'[d]] /\ \A d \in Conns \ {c} : net'[d] = net[d]
      /\ net'[c] = [net[c] EXCEPT !.link = to]
  BY <1>0, <1>1 DEF NetTypes, Net
<1>4. /\ net'[c] \in Net /\ net'[c].link = to /\ net'[c].fd = net[c].fd /\ net'[c].known = net[c].known
  BY <1>0, <1>3 DEF Net
<1>5. net' \in [Conns -> Net]
  BY <1>0, <1>3, <1>4 DEF NetTypes
<1>6. Untouched(c) => Untouched(c)'
  <2> SUFFICES ASSUME Untouched(c) PROVE Untouched(c)'
    OBVIOUS
  <2>1. PICK l \in {"up", "fin", "rst"} : net[c] = [Fresh EXCEPT !.link = l]
    BY DEF Untouched
  <2>2. net'[c] = [Fresh EXCEPT !.link = to]
    BY <1>3, <2>1 DEF Fresh
  <2> QED BY <1>1, <2>2 DEF Untouched
<1>7. KernelInv'
  BY <1>0, <1>1, <1>2, <1>3, <1>4, <1>5, <1>6, KernelPeer
<1> QED BY <1>2, <1>7 DEF Core

LEMMA PeerSendStep == ASSUME Core, NEW c \in Conns, NEW item \in Items, PeerSend(c, item) PROVE Core'
<1> DEFINE more == Append(net[c].inbox, item)
<1>0. FdInv /\ KernelInv /\ NetTypes /\ net[c] \in Net
  BY DEF Core, KernelInv, NetTypes
<1>1. /\ net[c].link = "up" /\ net[c].fd # NoFd /\ net' = [net EXCEPT ![c].inbox = more]
      /\ Peer /\ UNCHANGED backlog
  BY DEF PeerSend
<1>2. FdInv' /\ LoopInv' /\ CallInv' /\ UNCHANGED <<fdEvents, conn, reopened>>
  BY <1>1, PeerFacts
<1>3. more \in Seq(Items)
  <2>1. net[c].inbox \in Seq(Items)
    BY <1>0 DEF Net
  <2> QED BY <2>1
<1> HIDE DEF more
<1>4. /\ net' = [d \in Conns |-> net'[d]] /\ \A d \in Conns \ {c} : net'[d] = net[d]
      /\ net'[c] = [net[c] EXCEPT !.inbox = more]
  BY <1>0, <1>1 DEF NetTypes, Net
<1>5. /\ net'[c] \in Net /\ net'[c].link = net[c].link /\ net'[c].fd = net[c].fd
      /\ net'[c].known = net[c].known
  BY <1>0, <1>3, <1>4 DEF Net
<1>6. net' \in [Conns -> Net]
  BY <1>0, <1>4, <1>5 DEF NetTypes
<1>7. ~Untouched(c) /\ net[c].link # "unused" /\ net'[c].link \in Live
  BY <1>1, <1>5 DEF Untouched, Fresh, Live
<1>8. KernelInv'
  BY <1>0, <1>1, <1>2, <1>4, <1>5, <1>6, <1>7, KernelPeer
<1> QED BY <1>2, <1>8 DEF Core

LEMMA PeerReadsStep == ASSUME Core, NEW c \in Conns, PeerReads(c) PROVE Core'
<1>0. FdInv /\ KernelInv /\ NetTypes /\ net[c] \in Net
  BY DEF Core, KernelInv, NetTypes
<1>1. /\ net[c].link \in {"up", "fin"} /\ ~net[c].room /\ net' = [net EXCEPT ![c].room = TRUE]
      /\ Peer /\ UNCHANGED backlog
  BY DEF PeerReads
<1>2. FdInv' /\ LoopInv' /\ CallInv' /\ UNCHANGED <<fdEvents, conn, reopened>>
  BY <1>1, PeerFacts
<1>3. /\ net' = [d \in Conns |-> net'[d]] /\ \A d \in Conns \ {c} : net'[d] = net[d]
      /\ net'[c] = [net[c] EXCEPT !.room = TRUE]
  BY <1>0, <1>1 DEF NetTypes, Net
<1>4. /\ net'[c] \in Net /\ net'[c].link = net[c].link /\ net'[c].fd = net[c].fd
      /\ net'[c].known = net[c].known
  BY <1>0, <1>3 DEF Net
<1>5. net' \in [Conns -> Net]
  BY <1>0, <1>3, <1>4 DEF NetTypes
<1>6. ~Untouched(c) /\ net[c].link # "unused" /\ net'[c].link \in Live
  BY <1>1, <1>4 DEF Untouched, Fresh, Live
<1>7. KernelInv'
  BY <1>0, <1>1, <1>2, <1>3, <1>4, <1>5, <1>6, KernelPeer
<1> QED BY <1>2, <1>7 DEF Core

LEMMA PeerSteps == ASSUME Core, Peers PROVE Core'
<1>1. CASE PeerConnect
  BY <1>1, PeerConnectStep
<1>2. ASSUME NEW c \in Conns, PeerFin(c) \/ PeerReset(c) \/ Resolves(c) PROVE Core'
  <2>1. Untouched(c) => net[c].link # "connecting"
    BY DEF Untouched, Fresh
  <2>2. CASE Moves(c, {"up"}, "fin")
    BY <2>2, MovesStep DEF Live
  <2>3. CASE Moves(c, {"up", "fin"}, "rst")
    BY <2>3, MovesStep DEF Live
  <2>4. CASE Moves(c, {"connecting"}, "up")
    BY <2>4, MovesStep DEF Live
  <2>5. CASE Moves(c, {"connecting"}, "refused")
    BY <2>1, <2>5, MovesStep DEF Live
  <2> QED BY <1>2, <2>2, <2>3, <2>4, <2>5 DEF PeerFin, PeerReset, Resolves, ConnectOk, ConnectRefused
<1>3. ASSUME NEW c \in Conns, PeerReads(c) \/ \E item \in Items : PeerSend(c, item) PROVE Core'
  BY <1>3, PeerReadsStep, PeerSendStep
<1> QED BY <1>1, <1>2, <1>3 DEF Peers

-----------------------------------------------------------------------------
LEMMA AppSteps == ASSUME Core, App PROVE Core'
<1>1. ASSUME NEW s \in Conns, AppClose(s) \/ AppWrites(s) PROVE Core'
  <2>1. CASE AppClose(s) \/ WriteRefused(s)
    BY <2>1, AppCloseStep, WriteRefusedStep
  <2>2. ASSUME NEW bClose \in BOOLEAN, WriteFails(s, bClose) PROVE Core'
    BY <2>2, WriteFailsStep
  <2>3. ASSUME NEW bClose \in BOOLEAN, NEW k \in 0 .. SendMax + 2,
               WriteSent(s, bClose, k) \/ WriteQueued(s, bClose, k) \/ WriteOverflow(s, bClose, k)
        PROVE  Core'
    <3>1. k \in Nat
      BY CommMgrAssumption
    <3> QED BY <2>3, <3>1, WriteSentStep, WriteQueuedStep, WriteOverflowStep
  <2> QED BY <1>1, <2>1, <2>2, <2>3 DEF AppWrites
<1>2. ASSUME NEW f \in Fds, AppConnect(f) \/ AppConnectFails(f) PROVE Core'
  BY <1>2, AppConnectStep, AppConnectFailsStep
<1> QED BY <1>1, <1>2 DEF App

LEMMA HandlerSteps == ASSUME Core, Handlers PROVE Core'
<1>1. CASE Poll \/ OnAccept \/ AcceptDone \/ (\E f \in Fds : SkipRead(f) \/ SkipWrite(f))
  BY <1>1, LoopSteps
<1>2. CASE AcceptReject \/ (\E f \in Fds : AcceptOne(f))
  BY <1>2, AcceptSteps
<1>3. CASE Packages
  BY <1>3, PackageSteps
<1>4. ASSUME NEW f \in Fds, ReadError(f) \/ ReadNothing(f) \/ ReadEof(f) \/ ReadData(f) PROVE Core'
  BY <1>4, ReadSteps
<1>5. ASSUME NEW f \in Fds, OnConnect(f) \/ FlushFails(f) \/ Flush(f) PROVE Core'
  BY <1>5, OnConnectStep, FlushFailsStep, FlushStep
<1> QED BY <1>1, <1>2, <1>3, <1>4, <1>5 DEF Handlers, Accepting, Reading, Writing

LEMMA CoreStutter == ASSUME Core, UNCHANGED vars PROVE Core'
<1>1. /\ UNCHANGED <<eventVars, slots, conn, net, backlog, reopened, pc, call, batch, cur, writes>>
  BY DEF vars, loop, world
<1>2. LoopInv' /\ reopened' \subseteq Fds
  BY <1>1 DEF Core, LoopInv, KernelInv, NetTypes
<1>3. CallInv'
  BY <1>1, CallUnchanged DEF Core, slots, eventVars
<1> QED BY <1>1, <1>2, <1>3, MovesOnly

LEMMA CoreNext == Core /\ [Next]_vars => Core'
BY HandlerSteps, ReturnSteps, AppSteps, PeerSteps, CoreStutter DEF Next

LEMMA CoreAlways == Spec => []Core
BY InitCore, CoreNext, PTL DEF Spec

(* Whatever way a connection ends, its client is taken off m_dwClientNum   *)
(* once: the count is never below the clients a server has, it is their    *)
(* number while the kernel refused no ADD, and every variable stays within *)
(* its type.                                                               *)
THEOREM CountsClients == Spec => []ClientCount
<1>1. Core => ClientCount
  BY DEF Core, FdInv, FdTypes, Counting, KernelInv, NetTypes, LoopInv, ClientCount, TypeOK, Servers
<1> QED BY <1>1, CoreAlways, PTL

(* close, accept, connect and their failures keep the client's slot, the   *)
(* kernel's descriptor, CEvent's table and the epoll list in agreement     *)
(* while the kernel refused no ADD.                                        *)
THEOREM TablesStayEqual == Spec => []TablesAgree
<1>1. Core => TablesAgree
  BY DEF Core, FdInv, SlotInv, TablesAgree, Open
<1> QED BY <1>1, CoreAlways, PTL

(* onWrite is due for no slot without a send buffer, and the package loop  *)
(* of onTcpRead works on the open connection it began with, even after     *)
(* refused ADDs.                                                           *)
THEOREM FollowsNoNull == Spec => []NoNullBuffer
<1>1. Core => NoNullBuffer
  BY DEF Core, FdInv, SlotInv, CallInv, NoNullBuffer
<1> QED BY <1>1, CoreAlways, PTL

-----------------------------------------------------------------------------
(* The kinds of step there are, as what follows distinguishes them: one    *)
(* that leaves a connection as it is, all but what it has received; one    *)
(* that concerns f and its connection alone; one that ends f's connection. *)
Books(d) == <<net[d].sent, net[d].owed, net[d].whole>>
Unmoved ==
    /\ UNCHANGED <<eventVars, conn>>
    /\ \A g \in Fds : client'[g].iFd = client[g].iFd /\ client'[g].send = client[g].send
    /\ \A d \in Conns : net'[d].link = net[d].link /\ Books(d)' = Books(d)
Aside(f) ==
    /\ OnlyFd(f)
    /\ \A g \in Fds \ {f} : conn[g] # NoConn => net'[conn[g]] = net[conn[g]]
Ends(f) ==
    /\ Aside(f) /\ Open(f) /\ ~Open(f)' /\ conn'[f] = NoConn
    /\ refusals' = refusals /\ UNCHANGED <<backlog, reopened>>
    /\ \A d \in Conns : d # conn[f] => net'[d] = net[d]

LEMMA UnmovedSteps ==
    ASSUME Core,
           \/ Poll \/ OnAccept \/ AcceptDone \/ DeliverPackage \/ NoWholePackage \/ ReturnRead
           \/ \E f \in Fds : SkipRead(f) \/ ReadNothing(f) \/ ReadEof(f) \/ ReadData(f) \/ SkipWrite(f)
           \/ \E s \in Conns : WriteRefused(s)
           \/ \E c \in Conns : PeerReads(c) \/ \E item \in Items : PeerSend(c, item)
           \/ UNCHANGED vars
    PROVE  Unmoved
<1>0. client \in [Fds -> Slot] /\ net \in [Conns -> Net]
  BY DEF Core, FdInv, FdTypes, KernelInv, NetTypes
<1>1. ASSUME UNCHANGED <<eventVars, client, conn, net>> PROVE Unmoved
  BY <1>1 DEF Unmoved, Books
<1>2. CASE \/ Poll \/ OnAccept \/ AcceptDone \/ DeliverPackage \/ NoWholePackage
           \/ \E f \in Fds : SkipRead(f) \/ SkipWrite(f)
  BY <1>1, <1>2 DEF Poll, OnAccept, AcceptDone, DeliverPackage, NoWholePackage, SkipRead, SkipWrite, slots, world
<1>3. CASE (\E s \in Conns : WriteRefused(s)) \/ UNCHANGED vars
  BY <1>1, <1>3 DEF WriteRefused, vars, slots, world
\* The receive buffer and the inbox are nobody else's.
<1>4. ASSUME NEW f \in Fds, NEW buffer, client' = [client EXCEPT ![f].recv = buffer]
      PROVE  \A g \in Fds : client'[g].iFd = client[g].iFd /\ client'[g].send = client[g].send
  BY <1>0, <1>4 DEF Slot
<1>5. ASSUME NEW f \in Fds, ReadNothing(f) \/ ReadEof(f) PROVE Unmoved
  <2>1. client' = [client EXCEPT ![f].recv = RecvBuf(f)] /\ UNCHANGED <<eventVars, conn, net>>
    BY <1>5 DEF ReadNothing, ReadEof, world
  <2> QED BY <1>4, <2>1 DEF Unmoved, Books
<1>6. ASSUME NEW f \in Fds, ReadData(f) PROVE Unmoved
  <2>1. PICK k \in 1 .. Len(Inbox(f)) :
          /\ client' = [client EXCEPT ![f].recv = RecvBuf(f) \o SubSeq(Inbox(f), 1, k)]
          /\ net' = [net EXCEPT ![conn[f]].inbox = SubSeq(@, k + 1, Len(@))]
    BY <1>6 DEF ReadData
  <2>2. UNCHANGED <<eventVars, conn>>
    BY <1>6 DEF ReadData
  <2>3. \A d \in Conns : net'[d].link = net[d].link /\ Books(d)' = Books(d)
    BY <1>0, <2>1 DEF Net, Books
  <2> QED BY <1>4, <2>1, <2>2, <2>3 DEF Unmoved
<1>7. CASE ReturnRead
  <2>1. UNCHANGED <<eventVars, conn, net>>
    BY <1>7 DEF ReturnRead, world
  <2>2. CASE UNCHANGED client
    BY <1>1, <2>1, <2>2
  <2>3. CASE client' = [client EXCEPT ![call.fd].recv = Tail(@)]
    <3>1. \A g \in Fds : client'[g].iFd = client[g].iFd /\ client'[g].send = client[g].send
      BY <1>0, <2>3 DEF Slot
    <3> QED BY <2>1, <3>1 DEF Unmoved, Books
  <2> QED BY <1>7, <2>2, <2>3 DEF ReturnRead
<1>8. ASSUME NEW c \in Conns, PeerReads(c) \/ \E item \in Items : PeerSend(c, item) PROVE Unmoved
  <2>1. UNCHANGED <<eventVars, client, conn>>
    BY <1>8 DEF PeerReads, PeerSend, Peer, slots
  <2>2. \A d \in Conns : net'[d].link = net[d].link /\ Books(d)' = Books(d)
    <3>1. CASE PeerReads(c)
      <4>1. net' = [net EXCEPT ![c].room = TRUE]
        BY <3>1 DEF PeerReads
      <4> QED BY <1>0, <4>1 DEF Net, Books
    <3>2. ASSUME NEW item, PeerSend(c, item)
          PROVE  \A d \in Conns : net'[d].link = net[d].link /\ Books(d)' = Books(d)
      <4>1. net' = [net EXCEPT ![c].inbox = Append(@, item)]
        BY <3>2 DEF PeerSend
      <4> QED BY <1>0, <4>1 DEF Net, Books
    <3> QED BY <1>8, <3>1, <3>2
  <2> QED BY <2>1, <2>2 DEF Unmoved
<1> QED BY <1>2, <1>3, <1>5, <1>6, <1>7, <1>8

LEMMA AdvancesAside ==
    ASSUME Core, NEW f \in Fds, OnlyFd(f), Advances(net', f) PROVE Aside(f)
BY KernelFacts DEF Core, Advances, Aside

LEMMA CloseEnds ==
    ASSUME Core, NEW f \in Fds, Open(f), NEW slot \in Slot, slot.iSrvId = client[f].iSrvId,
           NEW n, Advances(n, f), NEW how \in {"closed", "drained"}, Close(f, slot, n, how)
    PROVE  /\ Ends(f)
           /\ conn[f] # NoConn =>
                /\ net'[conn[f]].link = how
                /\ how = "drained" => /\ net'[conn[f]].sent = n[conn[f]].sent
                                      /\ net'[conn[f]].owed = n[conn[f]].owed
                                      /\ net'[conn[f]].whole = n[conn[f]].whole
<1>0. FdInv /\ KernelInv /\ n \in [Conns -> Net]
  BY DEF Core, Advances
<1>1. /\ OnlyFd(f) /\ ~Open(f)' /\ conn'[f] = NoConn /\ refusals' = refusals
      /\ net' = Ended(n, conn[f], how) /\ UNCHANGED <<backlog, reopened>>
  BY <1>0, CloseDoes
<1>2. \A d \in Conns : d # conn[f] => net'[d] = net[d]
  BY <1>0, CloseKernel DEF Advances
<1>3. Ends(f)
  BY <1>0, <1>1, <1>2, KernelFacts DEF Ends, Aside
<1>4. ASSUME conn[f] # NoConn
      PROVE  /\ net'[conn[f]].link = how
             /\ how = "drained" => /\ net'[conn[f]].sent = n[conn[f]].sent
                                   /\ net'[conn[f]].owed = n[conn[f]].owed
                                   /\ net'[conn[f]].whole = n[conn[f]].whole
  <2>1. conn[f] \in Conns
    BY <1>0, <1>4, KernelFacts
  <2> QED BY <1>0, <1>1, <2>1, EndedDoes
<1> QED BY <1>3, <1>4

\* close(int) with nothing sent first.
LEMMA ClosingSteps ==
    ASSUME Core,
           \/ InvalidPackage \/ (ReturnClosing /\ ~IsClose(call.fd))
           \/ \E f \in Fds : ReadError(f) \/ FlushFails(f)
           \/ \E s \in Conns : AppClose(s)
    PROVE  \E f \in Fds : Ends(f) /\ (conn[f] # NoConn => net'[conn[f]].link = "closed")
<1>1. ASSUME NEW f \in Fds, Open(f), Close(f, client[f], net, "closed")
      PROVE  Ends(f) /\ (conn[f] # NoConn => net'[conn[f]].link = "closed")
  <2>1. client[f] \in Slot /\ Advances(net, f)
    BY DEF Core, FdInv, FdTypes, KernelInv, NetTypes, Advances
  <2> QED BY <1>1, <2>1, CloseEnds
<1>2. \E f \in Fds : Open(f) /\ Close(f, client[f], net, "closed")
  <2>1. CASE InvalidPackage
    BY <2>1 DEF InvalidPackage, Parsing, Core, CallInv
  <2>2. CASE ReturnClosing /\ ~IsClose(call.fd)
    BY <2>2 DEF ReturnClosing, IsClose, Open, Core, CallInv
  <2>3. ASSUME NEW f \in Fds, ReadError(f) \/ FlushFails(f)
        PROVE  Open(f) /\ Close(f, client[f], net, "closed")
    BY <2>3 DEF ReadError, OnTcpRead, FlushFails, Writable, IsClose, Open
  <2>4. ASSUME NEW s \in Conns, AppClose(s)
        PROVE  \E f \in Fds : Open(f) /\ Close(f, client[f], net, "closed")
    <3>1. MayUse(s) /\ ~IsClose(net[s].fd) /\ Close(net[s].fd, client[net[s].fd], net, "closed")
      BY <2>4 DEF AppClose
    <3>2. net[s].fd \in Fds
      BY <3>1 DEF MayUse, Core, KernelInv
    <3> QED BY <3>1, <3>2 DEF IsClose, Open
  <2> QED BY <2>1, <2>2, <2>3, <2>4
<1> QED BY <1>1, <1>2

\* What f's connection has to send: whoever was even stays even.
Evens(f) ==
    conn[f] # NoConn /\ net'[conn[f]].whole =>
        /\ net[conn[f]].whole
        /\ net[conn[f]].sent \o Queue(f) = net[conn[f]].owed
           => net'[conn[f]].sent \o Queue(f)' = net'[conn[f]].owed

\* f goes on, and what is left to send is watched for.
SendsOn(f) ==
    /\ Aside(f) /\ Open(f) /\ Open(f)' /\ UNCHANGED <<conn, backlog, reopened>> /\ Advances(net', f)
    /\ fdEvents[f].onWrite # "onConnect"
    /\ "EV_READ" \in fdEvents[f].iEventType => "EV_READ" \in fdEvents'[f].iEventType
    /\ Queue(f)' # <<>> => \/ "EV_WRITE" \in fdEvents'[f].iEventType /\ fdEvents'[f].onWrite = "onWrite"
                           \/ Queue(f) # <<>> /\ fdEvents'[f] = fdEvents[f]

LEMMA Grouped == \A s, t, u \in Seq(Piece) : (s \o t) \o u = s \o (t \o u)
<1>1. ASSUME NEW S PROVE \A s, t, u \in Seq(S) : (s \o t) \o u = s \o (t \o u)
  BY ConcatAssociative
<1> QED BY <1>1

LEMMA QueueAfter ==
    ASSUME Core, Core', NEW f \in Fds
    PROVE  /\ ~Open(f)' => Queue(f)' = <<>>
           /\ client'[f].send # NoBuf => Queue(f)' = client'[f].send
           /\ client'[f].send = NoBuf => Queue(f)' = <<>>
BY DEF Core, FdInv, SlotInv, Queue

LEMMA FlushDoes ==
    ASSUME Core, NEW f \in Fds, Flush(f)
    PROVE  /\ Evens(f)
           /\ (Ends(f) /\ (conn[f] # NoConn => net'[conn[f]].link = "drained")) \/ SendsOn(f)
<1>0. FdInv /\ KernelInv /\ Core' /\ client[f] \in Slot
  BY FlushStep DEF Core, FdInv, FdTypes
<1> DEFINE out == client[f].send
<1>1. PICK k \in SendSizes(f, Len(out)) :
        LET rest == SubSeq(out, k + 1, Len(out))
            n == Transmitted(f, out, k)
        IN \/ rest = <<>> /\ client[f].bNeedClose /\ Close(f, client[f], n, "drained")
           \/ /\ client' = [client EXCEPT ![f].send = rest]
              /\ IF rest = <<>> THEN DelFdEvent(f, {"EV_WRITE"}) ELSE UNCHANGED eventVars
              /\ net' = n
              /\ UNCHANGED <<m_dwClientNum, conn, backlog, reopened>>
  BY DEF Flush
<1> DEFINE rest == SubSeq(out, k + 1, Len(out))
           head == SubSeq(out, 1, k)
           n == Transmitted(f, out, k)
<1>2. /\ Open(f) /\ fdEvents[f].onWrite = "onWrite" /\ out \in Seq(Piece) /\ out # NoBuf
  BY FlushFacts, CommMgrAssumption
<1>3. /\ k \in 0 .. Len(out) /\ Advances(n, f)
      /\ conn[f] # NoConn => /\ n[conn[f]].sent = net[conn[f]].sent \o head
                             /\ n[conn[f]].owed = net[conn[f]].owed
                             /\ n[conn[f]].whole = net[conn[f]].whole
  BY <1>0, <1>2, TransmittedDoes
<1>4. rest \in Seq(Piece) /\ head \in Seq(Piece) /\ head \o rest = out
  BY <1>2, <1>3, Cut
<1>5. Queue(f) = out
  BY <1>2 DEF Queue
<1> HIDE DEF rest, head, n
\* Once the slot and the record are known, the books are even.
<1>6. ASSUME Queue(f)' = rest,
             conn[f] # NoConn => /\ net'[conn[f]].sent = n[conn[f]].sent
                                 /\ net'[conn[f]].owed = n[conn[f]].owed
                                 /\ net'[conn[f]].whole = n[conn[f]].whole
      PROVE  Evens(f)
  <2> SUFFICES ASSUME conn[f] # NoConn
               PROVE  net'[conn[f]].sent \o rest = net[conn[f]].sent \o out
    BY <1>3, <1>5, <1>6 DEF Evens
  <2>1. net[conn[f]].sent \in Seq(Piece) /\ head \in Seq(Piece) /\ rest \in Seq(Piece)
    BY <1>0, <1>4, KernelFacts DEF KernelInv, NetTypes, Net
  <2>2. (net[conn[f]].sent \o head) \o rest = net[conn[f]].sent \o (head \o rest)
    BY <2>1, Grouped
  <2> QED BY <1>3, <1>4, <1>6, <2>2
<1>7. CASE rest = <<>> /\ Close(f, client[f], n, "drained")
  <2>1. Ends(f) /\ (conn[f] # NoConn => /\ net'[conn[f]].link = "drained"
                                        /\ net'[conn[f]].sent = n[conn[f]].sent
                                        /\ net'[conn[f]].owed = n[conn[f]].owed
                                        /\ net'[conn[f]].whole = n[conn[f]].whole)
    BY <1>0, <1>2, <1>3, <1>7, CloseEnds
  <2>2. Queue(f)' = rest
    BY <1>0, <1>7, <2>1, QueueAfter DEF Ends
  <2> QED BY <1>6, <2>1, <2>2
<1>8. CASE /\ client' = [client EXCEPT ![f].send = rest]
           /\ IF rest = <<>> THEN DelFdEvent(f, {"EV_WRITE"}) ELSE UNCHANGED eventVars
           /\ net' = n
           /\ UNCHANGED <<m_dwClientNum, conn, backlog, reopened>>
  <2>1. SlotKept(f) /\ client'[f].send = rest /\ Rewrites(f)
    BY <1>0, <1>4, <1>8, KeepSend, KeptRewrites
  <2>2. Queue(f)' = rest
    BY <1>0, <1>4, <2>1, QueueAfter, CommMgrAssumption
  <2>3. OnlyFd(f) /\ (rest # <<>> => fdEvents'[f] = fdEvents[f])
        /\ ("EV_READ" \in fdEvents[f].iEventType => "EV_READ" \in fdEvents'[f].iEventType)
    <3>1. CASE rest = <<>>
      <4>1. DelFdEvent(f, {"EV_WRITE"}) /\ FdEventsType
        BY <1>0, <1>8, <3>1 DEF FdInv, FdTypes
      <4>2. fdEvents'[f].iEventType = fdEvents[f].iEventType \ {"EV_WRITE"}
        BY <4>1, DelFdEventDoes
      <4>3. OnlyFd(f)
        BY <1>0, <1>2, <2>1, <4>1, UnwatchDoes
      <4> QED BY <3>1, <4>2, <4>3
    <3>2. CASE rest # <<>>
      <4>1. UNCHANGED eventVars
        BY <1>8, <3>2
      <4> QED BY <2>1, <4>1 DEF OnlyFd, Rewrites, eventVars
    <3> QED BY <3>1, <3>2
  <2>4. Aside(f) /\ Open(f)'
    BY <1>2, <1>3, <1>8, <2>1, <2>3, AdvancesAside DEF SlotKept, Open
  <2>5. rest # <<>> => Queue(f) # <<>>
    <3>1. SUFFICES ASSUME out = <<>> PROVE rest = <<>>
      BY <1>5
    <3>2. Len(rest) = 0
      BY <1>2, <1>3, <3>1, Cut DEF rest
    <3> QED BY <1>4, <3>2, EmptySeq
  <2>6. SendsOn(f)
    BY <1>2, <1>3, <1>8, <2>2, <2>3, <2>4, <2>5 DEF SendsOn
  <2> QED BY <1>6, <1>8, <2>2, <2>6
<1> QED BY <1>1, <1>7, <1>8 DEF rest, n

\* A write that was refused by a peer that is gone, or by a queue that is full.
LEMMA QuietWriteDoes ==
    ASSUME Core, Core', NEW s \in Conns, Write(s), NEW f, f = net[s].fd, Open(f), SlotKept(f),
           UNCHANGED <<eventVars, m_dwClientNum, conn, backlog, reopened>>, Advances(net', f),
           conn[f] # NoConn => net'[conn[f]].whole = FALSE,
           Queue(f)' # <<>> => Queue(f) # <<>>
    PROVE  Evens(f) /\ SendsOn(f)
<1>1. f \in Fds /\ fdEvents[f].onWrite # "onConnect"
  BY WriteFacts
<1>2. OnlyFd(f) /\ Open(f)'
  BY DEF OnlyFd, SlotKept, eventVars, Open
<1>3. Aside(f)
  BY <1>1, <1>2, AdvancesAside
<1>4. SendsOn(f)
  BY <1>1, <1>2, <1>3 DEF SendsOn, eventVars
<1> QED BY <1>4 DEF Evens

LEMMA WriteFailsDoes ==
    ASSUME Core, NEW s \in Conns, NEW bClose \in BOOLEAN, WriteFails(s, bClose),
           NEW f, f = net[s].fd
    PROVE  Evens(f) /\ SendsOn(f)
<1>1. /\ Write(s) /\ Open(f) /\ client' = [client EXCEPT ![f].bNeedClose = bClose]
      /\ net' = Broken(net, conn[f])
      /\ UNCHANGED <<eventVars, m_dwClientNum, conn, backlog, reopened>>
  BY DEF WriteFails, IsClose, Open
<1>2. f \in Fds /\ FdInv /\ KernelInv /\ Core'
  BY <1>1, WriteFacts, WriteFailsStep DEF Core
<1>3. Advances(net, f)
  BY <1>2 DEF Advances, KernelInv, NetTypes
<1>4. Advances(net', f) /\ (conn[f] # NoConn => net'[conn[f]].whole = FALSE)
  BY <1>1, <1>2, <1>3, BrokenDoes
<1>5. SlotKept(f) /\ client'[f].send = client[f].send
  BY <1>1, <1>2, KeepClosing
<1>6. Queue(f)' # <<>> => Queue(f) # <<>>
  BY <1>5 DEF Queue
<1> QED BY <1>1, <1>2, <1>4, <1>5, <1>6, QuietWriteDoes

LEMMA WriteOverflowDoes ==
    ASSUME Core, NEW s \in Conns, NEW bClose \in BOOLEAN, NEW k \in Nat, WriteOverflow(s, bClose, k),
           NEW f, f = net[s].fd
    PROVE  Evens(f) /\ SendsOn(f)
<1> DEFINE n == Transmitted(f, Out(s), k)
           left == SubSeq(Queue(f), k + 1, Len(Queue(f)))
<1>1. /\ Write(s) /\ Sends(s, k)
      /\ client' = [client EXCEPT ![f].bNeedClose = bClose, ![f].send = left]
      /\ net' = Broken(n, conn[f])
      /\ UNCHANGED <<eventVars, m_dwClientNum, conn, backlog, reopened>>
  BY DEF WriteOverflow
<1>2. f \in Fds /\ FdInv /\ KernelInv /\ Core'
  BY <1>1, WriteFacts, WriteOverflowStep DEF Core
<1>3. Open(f) /\ Advances(n, f) /\ Queue(f) \in Seq(Piece)
  BY <1>1, SendFacts
<1>4. left \in Seq(Piece) /\ (left # <<>> => Queue(f) # <<>>)
  <2>1. Len(Queue(f)) \in Nat /\ \A i \in 1 .. Len(Queue(f)) : Queue(f)[i] \in Piece
    BY <1>3, LenProperties, ElementOfSeq
  <2>2. \A i \in k + 1 .. Len(Queue(f)) : Queue(f)[i] \in Piece
    BY <2>1
  <2>3. k + 1 \in Int /\ Len(Queue(f)) \in Int
    BY <2>1
  <2>4. left \in Seq(Piece)
    BY <2>2, <2>3, SubSeqProperties
  <2>5. ASSUME Queue(f) = <<>> PROVE left = <<>>
    <3>1. Len(Queue(f)) = 0
      BY <2>5
    <3> QED BY <3>1, SubSeqEmpty
  <2> QED BY <2>4, <2>5
<1>5. Advances(net', f) /\ (conn[f] # NoConn => net'[conn[f]].whole = FALSE)
  BY <1>1, <1>2, <1>3, BrokenDoes
<1> HIDE DEF left
<1>6. SlotKept(f) /\ client'[f].send = left
  <2>1. left \in {NoBuf} \cup Seq(Piece)
    BY <1>4
  <2>2. client' = [client EXCEPT ![f].bNeedClose = bClose, ![f].send = left]
    BY <1>1
  <2> QED BY <1>2, <2>1, <2>2, KeepBoth, ZenonT(30)
<1>7. Queue(f)' # <<>> => Queue(f) # <<>>
  BY <1>2, <1>4, <1>6, QueueAfter
<1> QED BY <1>1, <1>2, <1>3, <1>5, <1>6, <1>7, QuietWriteDoes

\* What the caller was promised is what was there, then its unit.
LEMMA PromiseEvens ==
    ASSUME Core, NEW s \in Conns, Write(s), NEW k, Sends(s, k), NEW f, f = net[s].fd
    PROVE  LET n == Promised(Transmitted(f, Out(s), k), conn[f], s) IN
           /\ Queue(f)' = Rest(s, k)
           /\ net'[conn[f]].sent = n[conn[f]].sent /\ net'[conn[f]].owed = n[conn[f]].owed
           /\ net'[conn[f]].whole = n[conn[f]].whole
           => Evens(f)
<1> DEFINE head == SubSeq(Out(s), 1, k)
           sent == net[s].sent
           m == Transmitted(f, Out(s), k)
           n == Promised(m, conn[f], s)
<1>1. /\ f \in Fds /\ conn[f] = s /\ conn[f] # NoConn /\ FdInv /\ KernelInv
      /\ Queue(f) \in Seq(Piece) /\ Rest(s, k) \in Seq(Piece)
      /\ head \o Rest(s, k) = Queue(f) \o Unit(s)
      /\ Out(s) \in Seq(Piece) /\ k \in 0 .. Len(Out(s))
  <2>1. /\ conn[f] = s /\ conn[f] # NoConn
        /\ Queue(f) \in Seq(Piece) /\ Rest(s, k) \in Seq(Piece)
        /\ head \o Rest(s, k) = Out(s) /\ Out(s) = Queue(f) \o Unit(s)
        /\ Out(s) \in Seq(Piece) /\ k \in 0 .. Len(Out(s))
    BY SendFacts
  <2>2. f \in Fds /\ FdInv /\ KernelInv
    BY WriteFacts DEF Core
  <2> HIDE DEF head
  <2> QED BY <2>1, <2>2
<1>2. head \in Seq(Piece) /\ sent \in Seq(Piece) /\ Unit(s) \in Seq(Piece)
  BY <1>1, Cut, UnitType DEF KernelInv, NetTypes, Net
<1>3. /\ n[s].sent = sent \o head /\ n[s].owed = net[s].owed \o Unit(s) /\ n[s].whole = net[s].whole
  <2>1. /\ Advances(m, f) /\ m[s].sent = sent \o head
        /\ m[s].owed = net[s].owed /\ m[s].whole = net[s].whole
    <3>1. k \in SendSizes(f, Len(Out(s)))
      BY DEF Sends
    <3>2. /\ Advances(m, f) /\ m[conn[f]].sent = net[conn[f]].sent \o head
          /\ m[conn[f]].owed = net[conn[f]].owed /\ m[conn[f]].whole = net[conn[f]].whole
      BY <1>1, <3>1, TransmittedDoes
    <3> HIDE DEF m, head
    <3> QED BY <1>1, <3>2
  <2> HIDE DEF m, head, sent
  <2>3. /\ n[conn[f]].sent = m[conn[f]].sent /\ n[conn[f]].owed = m[conn[f]].owed \o Unit(s)
        /\ n[conn[f]].whole = m[conn[f]].whole
    BY <1>1, <2>1, PromisedDoes
  <2> QED BY <1>1, <2>1, <2>3
<1> HIDE DEF head, sent, m, n
<1>4. (sent \o head) \o Rest(s, k) = (sent \o Queue(f)) \o Unit(s)
  <2> DEFINE q == Queue(f)
             u == Unit(s)
             b == Rest(s, k)
  <2>1. /\ sent \in Seq(Piece) /\ q \in Seq(Piece) /\ u \in Seq(Piece)
        /\ head \in Seq(Piece) /\ b \in Seq(Piece) /\ head \o b = q \o u
    BY <1>1, <1>2
  <2> HIDE DEF q, u, b
  <2>2. sent \in Seq(Piece) /\ q \in Seq(Piece) /\ u \in Seq(Piece)
        /\ head \in Seq(Piece) /\ b \in Seq(Piece)
    BY <2>1
  <2>3. (sent \o head) \o b = sent \o (head \o b)
    BY <2>2, Grouped, SMTT(30)
  <2>4. (sent \o q) \o u = sent \o (q \o u)
    BY <2>2, Grouped, SMTT(30)
  <2> QED BY <2>1, <2>3, <2>4 DEF q, u, b
<1> QED BY <1>1, <1>3, <1>4, ZenonT(30) DEF Evens, sent, m, n

LEMMA WriteSentDoes ==
    ASSUME Core, NEW s \in Conns, NEW bClose \in BOOLEAN, NEW k, WriteSent(s, bClose, k),
           NEW f, f = net[s].fd
    PROVE  /\ Evens(f)
           /\ (Ends(f) /\ (conn[f] # NoConn => net'[conn[f]].link = "drained")) \/ SendsOn(f)
<1> DEFINE n == Promised(Transmitted(f, Out(s), k), conn[f], s)
<1>1. /\ Write(s) /\ Sends(s, k) /\ Rest(s, k) = <<>>
      /\ \/ bClose /\ Close(f, [client[f] EXCEPT !.bNeedClose = TRUE], n, "drained")
         \/ /\ client' = [client EXCEPT ![f].bNeedClose = FALSE,
                                        ![f].send = IF @ = NoBuf THEN NoBuf ELSE <<>>]
            /\ DelFdEvent(f, {"EV_WRITE"}) /\ net' = n
            /\ UNCHANGED <<m_dwClientNum, conn, backlog, reopened>>
  BY DEF WriteSent
<1>2. /\ f \in Fds /\ FdInv /\ KernelInv /\ client[f] \in Slot /\ Core' /\ FdEventsType
      /\ fdEvents[f].onWrite # "onConnect"
  BY <1>1, WriteFacts, WriteSentStep DEF Core, FdInv, FdTypes
<1>3. Open(f) /\ conn[f] # NoConn /\ Advances(Transmitted(f, Out(s), k), f)
  BY <1>1, SendFacts
<1>4. Advances(n, f)
  BY <1>2, <1>3, PromisedDoes
<1> HIDE DEF n
<1>5. CASE Close(f, [client[f] EXCEPT !.bNeedClose = TRUE], n, "drained")
  <2> DEFINE slot == [client[f] EXCEPT !.bNeedClose = TRUE]
  <2>1. slot \in Slot /\ slot.iSrvId = client[f].iSrvId
    BY <1>2 DEF Slot
  <2> HIDE DEF slot
  <2>2. Close(f, slot, n, "drained")
    BY <1>5 DEF slot
  <2>3. /\ Ends(f) /\ net'[conn[f]].link = "drained"
        /\ net'[conn[f]].sent = n[conn[f]].sent /\ net'[conn[f]].owed = n[conn[f]].owed
        /\ net'[conn[f]].whole = n[conn[f]].whole
    BY <1>2, <1>3, <1>4, <2>1, <2>2, CloseEnds
  <2>4. Queue(f)' = Rest(s, k)
    BY <1>1, <1>2, <2>3, QueueAfter DEF Ends
  <2> QED BY <1>1, <2>3, <2>4, PromiseEvens DEF n
<1>6. CASE /\ client' = [client EXCEPT ![f].bNeedClose = FALSE,
                                       ![f].send = IF @ = NoBuf THEN NoBuf ELSE <<>>]
           /\ DelFdEvent(f, {"EV_WRITE"}) /\ net' = n
           /\ UNCHANGED <<m_dwClientNum, conn, backlog, reopened>>
  <2> DEFINE buffer == IF client[f].send = NoBuf THEN NoBuf ELSE <<>>
  <2>1. buffer \in {NoBuf} \cup Seq(Piece) /\ (buffer # NoBuf => buffer = <<>>)
    OBVIOUS
  <2>2. client' = [client EXCEPT ![f].bNeedClose = FALSE, ![f].send = buffer]
    BY <1>6
  <2> HIDE DEF buffer
  <2>3. SlotKept(f) /\ client'[f].send = buffer /\ Rewrites(f)
    BY <1>2, <1>6, <2>1, <2>2, KeepBoth, KeptRewrites
  <2>4. Queue(f)' = <<>>
    BY <1>2, <2>1, <2>3, QueueAfter
  <2>5. OnlyFd(f) /\ Open(f)'
    BY <1>2, <1>3, <1>6, <2>3, UnwatchDoes DEF SlotKept, Open
  <2>6. fdEvents'[f].iEventType = fdEvents[f].iEventType \ {"EV_WRITE"}
    BY <1>2, <1>6, DelFdEventDoes
  <2>7. Aside(f)
    BY <1>2, <1>4, <1>6, <2>5, AdvancesAside
  <2>8. SendsOn(f)
    BY <1>2, <1>3, <1>4, <1>6, <2>4, <2>5, <2>6, <2>7 DEF SendsOn
  <2>9. Evens(f)
    BY <1>1, <1>6, <2>4, PromiseEvens DEF n
  <2> QED BY <2>8, <2>9
<1> QED BY <1>1, <1>5, <1>6

LEMMA WriteQueuedDoes ==
    ASSUME Core, NEW s \in Conns, NEW bClose \in BOOLEAN, NEW k, WriteQueued(s, bClose, k),
           NEW f, f = net[s].fd
    PROVE  Evens(f) /\ SendsOn(f)
<1> DEFINE n == Transmitted(f, Out(s), k)
           buffer == Rest(s, k)
<1>1. /\ Write(s) /\ Sends(s, k)
      /\ client' = [client EXCEPT ![f].bNeedClose = bClose, ![f].send = buffer]
      /\ UNCHANGED <<m_dwClientNum, conn, backlog, reopened>>
  BY DEF WriteQueued
<1>2. PICK ok \in BOOLEAN : /\ AddFdEvent(f, "EV_WRITE", "onWrite", ok)
                            /\ net' = IF ok THEN Promised(n, conn[f], s) ELSE Broken(n, conn[f])
  BY DEF WriteQueued
<1>3. /\ f \in Fds /\ FdInv /\ KernelInv /\ FdEventsType /\ Core'
      /\ fdEvents[f].onWrite # "onConnect"
  BY <1>1, WriteFacts, WriteQueuedStep DEF Core, FdInv, FdTypes
<1>4. Open(f) /\ conn[f] # NoConn /\ Advances(n, f) /\ Rest(s, k) \in Seq(Piece)
  BY <1>1, SendFacts
<1>5. Advances(net', f) /\ (~ok => net'[conn[f]].whole = FALSE)
  BY <1>2, <1>3, <1>4, PromisedDoes, BrokenDoes
<1>6. buffer \in {NoBuf} \cup Seq(Piece) /\ buffer # NoBuf
  BY <1>4, CommMgrAssumption
<1> HIDE DEF buffer
<1>7. SlotKept(f) /\ client'[f].send = buffer /\ Rewrites(f)
  <2>1. client' = [client EXCEPT ![f].bNeedClose = bClose, ![f].send = buffer]
    BY <1>1
  <2>2. SlotKept(f) /\ client'[f].send = buffer
    BY <1>3, <1>6, <2>1, KeepBoth
  <2> QED BY <1>1, <1>3, <2>2, KeptRewrites
<1>8. Queue(f)' = Rest(s, k)
  BY <1>3, <1>6, <1>7, QueueAfter DEF buffer
<1>9. /\ fdEvents'[f].onWrite = "onWrite"
      /\ fdEvents'[f].iEventType = fdEvents[f].iEventType \cup {"EV_WRITE"}
      /\ \A g \in Fds \ {f} : fdEvents'[g] = fdEvents[g] /\ interest'[g] = interest[g]
      /\ refusals' = 0 => refusals = 0
  <2>1. "EV_WRITE" \in EvType /\ "onWrite" \in Handler
    BY DEF EvType, Handler
  <2>2. /\ fdEvents'[f] = [iEventType |-> fdEvents[f].iEventType \cup {"EV_WRITE"},
                           onWrite |-> IF "EV_WRITE" = "EV_WRITE" THEN "onWrite" ELSE fdEvents[f].onWrite]
        /\ \A g \in Fds \ {f} : fdEvents'[g] = fdEvents[g] /\ interest'[g] = interest[g]
        /\ refusals' = 0 => refusals = 0
    BY <1>2, <1>3, <2>1, AddFdEventDoes
  <2> QED BY <2>2
<1>10. OnlyFd(f) /\ Open(f)'
  BY <1>4, <1>7, <1>9 DEF OnlyFd, Rewrites, SlotKept, Open
<1>11. SendsOn(f)
  BY <1>1, <1>3, <1>4, <1>5, <1>9, <1>10, AdvancesAside DEF SendsOn
<1>12. Evens(f)
  <2>1. CASE ok
    BY <1>1, <1>2, <1>8, <2>1, PromiseEvens
  <2>2. CASE ~ok
    BY <1>5, <2>2 DEF Evens
  <2> QED BY <2>1, <2>2
<1> QED BY <1>11, <1>12

\* All of them.
LEMMA SendingSteps ==
    ASSUME Core,
           \/ \E f \in Fds : Flush(f)
           \/ \E s \in Conns, bClose \in BOOLEAN :
                \/ WriteFails(s, bClose)
                \/ \E k \in 0 .. SendMax + 2 :
                     WriteSent(s, bClose, k) \/ WriteQueued(s, bClose, k) \/ WriteOverflow(s, bClose, k)
    PROVE  \E f \in Fds :
             /\ Evens(f)
             /\ (Ends(f) /\ (conn[f] # NoConn => net'[conn[f]].link = "drained")) \/ SendsOn(f)
<1>1. CASE \E f \in Fds : Flush(f)
  BY <1>1, FlushDoes
<1>2. ASSUME NEW s \in Conns, Write(s) PROVE net[s].fd \in Fds
  BY <1>2, WriteFacts
<1>3. ASSUME NEW s \in Conns, NEW bClose \in BOOLEAN, WriteFails(s, bClose)
      PROVE  net[s].fd \in Fds /\ Evens(net[s].fd) /\ SendsOn(net[s].fd)
  <2>1. Write(s)
    BY <1>3 DEF WriteFails
  <2> QED BY <1>2, <1>3, <2>1, WriteFailsDoes
<1>4. ASSUME NEW s \in Conns, NEW bClose \in BOOLEAN, NEW k \in 0 .. SendMax + 2,
             WriteSent(s, bClose, k) \/ WriteQueued(s, bClose, k) \/ WriteOverflow(s, bClose, k)
      PROVE  \E f \in Fds :
               /\ Evens(f)
               /\ (Ends(f) /\ (conn[f] # NoConn => net'[conn[f]].link = "drained")) \/ SendsOn(f)
  <2>1. Write(s) /\ k \in Nat
    <3>1. Write(s)
      BY <1>4 DEF WriteSent, WriteQueued, WriteOverflow
    <3> QED BY <3>1, CommMgrAssumption
  <2>2. net[s].fd \in Fds
    BY <1>2, <2>1
  <2> QED BY <1>4, <2>1, <2>2, WriteSentDoes, WriteQueuedDoes, WriteOverflowDoes
<1> QED BY <1>1, <1>3, <1>4

\* The steps that make, answer or give up a connection, and the peers' that move one.
Turns ==
    \/ AcceptReject \/ ReturnAccept \/ ReturnConnect
    \/ \E f \in Fds : AcceptOne(f) \/ OnConnect(f) \/ AppConnect(f) \/ AppConnectFails(f)
    \/ PeerConnect \/ \E c \in Conns : PeerFin(c) \/ PeerReset(c) \/ Resolves(c)

LEMMA Kinds ==
    ASSUME Core, [Next]_vars
    PROVE  \/ Unmoved
           \/ \E f \in Fds : Ends(f) /\ (conn[f] # NoConn => net'[conn[f]].link = "closed")
           \/ \E f \in Fds :
                /\ Evens(f)
                /\ (Ends(f) /\ (conn[f] # NoConn => net'[conn[f]].link = "drained")) \/ SendsOn(f)
           \/ Turns
<1> DEFINE Kind == \/ Unmoved
                   \/ \E f \in Fds : Ends(f) /\ (conn[f] # NoConn => net'[conn[f]].link = "closed")
                   \/ \E f \in Fds :
                        /\ Evens(f)
                        /\ (Ends(f) /\ (conn[f] # NoConn => net'[conn[f]].link = "drained")) \/ SendsOn(f)
                   \/ Turns
<1> SUFFICES Kind OBVIOUS
<1>a. ASSUME \/ Poll \/ OnAccept \/ AcceptDone \/ DeliverPackage \/ NoWholePackage \/ ReturnRead
             \/ \E f \in Fds : SkipRead(f) \/ ReadNothing(f) \/ ReadEof(f) \/ ReadData(f) \/ SkipWrite(f)
             \/ \E s \in Conns : WriteRefused(s)
             \/ \E c \in Conns : PeerReads(c) \/ \E item \in Items : PeerSend(c, item)
             \/ UNCHANGED vars
      PROVE  Kind
  BY <1>a, UnmovedSteps
<1>b. ASSUME \/ InvalidPackage \/ (ReturnClosing /\ ~IsClose(call.fd))
             \/ \E f \in Fds : ReadError(f) \/ FlushFails(f)
             \/ \E s \in Conns : AppClose(s)
      PROVE  Kind
  BY <1>b, ClosingSteps
<1>c. ASSUME \/ \E f \in Fds : Flush(f)
             \/ \E s \in Conns, bClose \in BOOLEAN :
                  \/ WriteFails(s, bClose)
                  \/ \E k \in 0 .. SendMax + 2 :
                       WriteSent(s, bClose, k) \/ WriteQueued(s, bClose, k) \/ WriteOverflow(s, bClose, k)
      PROVE  Kind
  BY <1>c, SendingSteps
<1>1. CASE Handlers
  <2>1. CASE Poll \/ OnAccept \/ Accepting
    BY <2>1, <1>a DEF Accepting, Turns
  <2>2. CASE Packages
    BY <2>2, <1>a, <1>b DEF Packages
  <2>3. ASSUME NEW f \in Fds, Reading(f) PROVE Kind
    BY <2>3, <1>a, <1>b DEF Reading
  <2>4. ASSUME NEW f \in Fds, Writing(f) PROVE Kind
    BY <2>4, <1>a, <1>b, <1>c DEF Writing, Turns
  <2> QED BY <1>1, <2>1, <2>2, <2>3, <2>4 DEF Handlers
<1>2. CASE Returns
  <2>1. CASE ReturnAccept \/ ReturnConnect
    BY <2>1 DEF Turns
  <2>2. CASE ReturnRead
    BY <2>2, <1>a
  <2>3. CASE ReturnClosing
    <3>1. CASE IsClose(call.fd)
      <4>1. UNCHANGED <<eventVars, client, conn, net>>
        BY <2>3, <3>1 DEF ReturnClosing, slots, world
      <4> QED BY <4>1 DEF Unmoved, Books
    <3> QED BY <2>3, <3>1, <1>b
  <2> QED BY <1>2, <2>1, <2>2, <2>3 DEF Returns
<1>3. CASE App
  <2>1. ASSUME NEW s \in Conns, AppClose(s) PROVE Kind
    BY <2>1, <1>b
  <2>2. ASSUME NEW s \in Conns, AppWrites(s) PROVE Kind
    BY <2>2, <1>a, <1>c DEF AppWrites
  <2>3. ASSUME NEW f \in Fds, AppConnect(f) \/ AppConnectFails(f) PROVE Kind
    BY <2>3 DEF Turns
  <2> QED BY <1>3, <2>1, <2>2, <2>3 DEF App
<1>4. CASE Peers
  BY <1>4, <1>a DEF Peers, Turns
<1> QED BY <1>1, <1>2, <1>3, <1>4, <1>a DEF Next

\* A callback begins at the end of a handler's step, and ends with a Return.
LEMMA CallGoesOn ==
    ASSUME Core, [Next]_vars
    PROVE  UNCHANGED <<pc, call>> \/ pc # "callback" \/ Returns
<1>1. CASE Handlers
  <2>1. CASE Poll \/ OnAccept \/ Accepting \/ Packages
    BY <2>1 DEF Poll, OnAccept, TakeIn, Accepting, AcceptReject, AcceptOne, AcceptDone,
                Packages, DeliverPackage, InvalidPackage, NoWholePackage, Parsing
  <2>2. ASSUME NEW f \in Fds, Reading(f) \/ Writing(f) PROVE pc # "callback"
    BY <2>2 DEF Reading, Writing, SkipRead, ReadError, ReadNothing, ReadEof, ReadData, OnTcpRead, TakeIn,
                SkipWrite, OnConnect, FlushFails, Flush, Writable, TakeOut
  <2> QED BY <1>1, <2>1, <2>2 DEF Handlers
<1>2. CASE App
  <2>1. ASSUME NEW s \in Conns, AppClose(s) \/ AppWrites(s) PROVE UNCHANGED loop
    BY <2>1 DEF AppClose, AppWrites, Write, WriteRefused, WriteFails, WriteSent, WriteQueued, WriteOverflow
  <2>2. ASSUME NEW f \in Fds, AppConnect(f) \/ AppConnectFails(f) PROVE UNCHANGED loop
    BY <2>2 DEF AppConnect, AppConnectFails, MayConnect
  <2>3. UNCHANGED loop
    BY <1>2, <2>1, <2>2 DEF App
  <2> QED BY <2>3 DEF loop
<1>3. CASE Peers
  BY <1>3 DEF Peers, PeerConnect, PeerFin, PeerReset, Resolves, ConnectOk, ConnectRefused, Moves,
              PeerReads, PeerSend, Peer
<1>4. CASE UNCHANGED vars
  BY <1>4 DEF vars, loop
<1> QED BY <1>1, <1>2, <1>3, <1>4 DEF Next

-----------------------------------------------------------------------------
(* onConnect(true).  An EPOLLOUT that is still in the batch is not meant   *)
(* for a connect under way, unless the descriptor was given out since.     *)
Late(f) == "OUT" \in batch[f] /\ LinkOf(f) = "connecting" => f \in reopened
News == (\A f \in Fds : Late(f)) /\ ToldConnected

LEMMA LoopFrame ==
    ASSUME Core, [Next]_vars, ~Poll
    PROVE  reopened \subseteq reopened' /\ \A g \in Fds : batch'[g] \subseteq batch[g]
<1>0. LoopInv
  BY DEF Core
<1>a. ASSUME batch' = batch, reopened \subseteq reopened'
      PROVE  reopened \subseteq reopened' /\ \A g \in Fds : batch'[g] \subseteq batch[g]
  BY <1>a
<1>b. ASSUME NEW e \in Fds \cup {Listener}, TakeIn(e) \/ (e \in Fds /\ TakeOut(e)), reopened' = reopened
      PROVE  reopened \subseteq reopened' /\ \A g \in Fds : batch'[g] \subseteq batch[g]
  BY <1>0, <1>b, TakenTypes
<1>1. CASE Handlers
  <2>1. CASE OnAccept
    BY <2>1, <1>b DEF OnAccept, world
  <2>2. CASE Accepting \/ Packages
    BY <2>2, <1>a DEF Accepting, AcceptReject, AcceptOne, AcceptDone, loop, world, CallBack,
                      Packages, DeliverPackage, InvalidPackage, NoWholePackage, Parsing, Close
  <2>3. ASSUME NEW f \in Fds, Reading(f)
        PROVE  reopened \subseteq reopened' /\ \A g \in Fds : batch'[g] \subseteq batch[g]
    <3>1. TakeIn(f) /\ reopened' = reopened
      BY <2>3 DEF Reading, SkipRead, ReadError, ReadNothing, ReadEof, ReadData, OnTcpRead, Close, world
    <3> QED BY <3>1, <1>b
  <2>4. ASSUME NEW f \in Fds, Writing(f)
        PROVE  reopened \subseteq reopened' /\ \A g \in Fds : batch'[g] \subseteq batch[g]
    <3>1. TakeOut(f) /\ reopened' = reopened
      BY <2>4 DEF Writing, SkipWrite, OnConnect, FlushFails, Flush, Writable, Close, world
    <3> QED BY <3>1, <1>b
  <2> QED BY <1>1, <2>1, <2>2, <2>3, <2>4 DEF Handlers
<1>2. CASE Returns
  BY <1>2, <1>a DEF Returns, ReturnAccept, ReturnRead, ReturnConnect, ReturnClosing, Close, world
<1>3. CASE App
  <2>1. ASSUME NEW s \in Conns, AppClose(s) \/ AppWrites(s) PROVE UNCHANGED <<loop, reopened>>
    BY <2>1 DEF AppClose, AppWrites, Write, WriteRefused, WriteFails, WriteSent, WriteQueued, WriteOverflow,
                Close, world
  <2>2. ASSUME NEW f \in Fds, AppConnect(f) \/ AppConnectFails(f)
        PROVE  UNCHANGED loop /\ reopened \subseteq reopened'
    BY <2>2 DEF AppConnect, AppConnectFails, MayConnect
  <2> QED BY <1>3, <2>1, <2>2, <1>a DEF App, loop
<1>4. CASE Peers
  BY <1>4, <1>a DEF Peers, PeerConnect, PeerFin, PeerReset, Resolves, ConnectOk, ConnectRefused, Moves,
                    PeerReads, PeerSend, Peer, loop
<1>5. CASE UNCHANGED vars
  BY <1>5, <1>a DEF vars, loop, world
<1> QED BY <1>1, <1>2, <1>3, <1>4, <1>5 DEF Next

\* Which connection a descriptor stands for after a step, and how it stands.
LEMMA LinkFrame ==
    ASSUME Core, [Next]_vars, NEW g \in Fds, conn'[g] # NoConn
    PROVE  \/ conn'[g] = conn[g] /\ net'[conn[g]].link = net[conn[g]].link
           \/ pc = "loop" /\ conn'[g] = conn[g] /\ net'[conn[g]].link # "connecting"
           \/ g \in reopened' /\ (pc = "callback" => call.fd # g)
<1> DEFINE Goal == \/ conn'[g] = conn[g] /\ net'[conn[g]].link = net[conn[g]].link
                   \/ pc = "loop" /\ conn'[g] = conn[g] /\ net'[conn[g]].link # "connecting"
                   \/ g \in reopened' /\ (pc = "callback" => call.fd # g)
<1> SUFFICES Goal OBVIOUS
<1>0. FdInv /\ KernelInv /\ FdTypes /\ NetTypes /\ client \in [Fds -> Slot] /\ net \in [Conns -> Net]
      /\ conn \in [Fds -> Conns \cup {NoConn}]
  BY DEF Core, FdInv, FdTypes, KernelInv, NetTypes
<1>1. CASE Unmoved
  BY <1>0, <1>1 DEF Unmoved
<1>2. ASSUME NEW f \in Fds, Ends(f) PROVE Goal
  BY <1>2 DEF Ends, Aside, OnlyFd
<1>3. ASSUME NEW f \in Fds, SendsOn(f) PROVE Goal
  BY <1>3 DEF SendsOn, Aside, OnlyFd, Advances
<1>5. CASE AcceptReject
  <2>1. backlog # <<>> /\ net' = Ended(net, Head(backlog), "closed") /\ conn' = conn
    BY <1>5 DEF AcceptReject
  <2>2. Head(backlog) \in Conns /\ net[Head(backlog)].fd = NoFd
    BY <1>0, <2>1, FirstWaiting
  <2>3. Head(backlog) # conn[g]
    BY <1>0, <2>1, <2>2, CommMgrAssumption DEF KernelInv
  <2>4. conn[g] \in Conns \ {Head(backlog)}
    BY <1>0, <2>1, <2>3
  <2>5. net'[conn[g]] = net[conn[g]]
    BY <1>0, <2>1, <2>2, <2>4, EndedDoes
  <2> QED BY <2>1, <2>5
<1>6. CASE ReturnAccept
  <2>1. CASE UNCHANGED <<conn, net>>
    BY <2>1
  <2>2. CASE conn' = [conn EXCEPT ![call.fd] = NoConn] /\ net' = Ended(net, conn[call.fd], "closed")
    <3>1. call.fd \in Fds
      BY <1>6 DEF ReturnAccept, Core, CallInv
    <3>2. call.fd # g /\ conn'[g] = conn[g]
      BY <1>0, <2>2, <3>1
    <3>3. CASE conn[call.fd] = NoConn
      BY <2>2, <3>2, <3>3 DEF Ended
    <3>4. CASE conn[call.fd] # NoConn
      <4>1. conn[call.fd] \in Conns /\ conn[g] \in Conns \ {conn[call.fd]}
        BY <1>0, <3>1, <3>2, <3>4, KernelFacts
      <4>2. net'[conn[g]] = net[conn[g]]
        BY <1>0, <2>2, <4>1, EndedDoes
      <4> QED BY <3>2, <4>2
    <3> QED BY <3>3, <3>4
  <2> QED BY <1>6, <2>1, <2>2 DEF ReturnAccept
<1>7. CASE ReturnConnect
  BY <1>7 DEF ReturnConnect, world
<1>8. ASSUME NEW f \in Fds, AcceptOne(f) PROVE Goal
  <2>1. /\ backlog # <<>> /\ pc = "accept" /\ reopened' = reopened \cup {f}
        /\ conn' = [conn EXCEPT ![f] = Head(backlog)]
        /\ net' = [net EXCEPT ![Head(backlog)].fd = f, ![Head(backlog)].known = TRUE]
    BY <1>8 DEF AcceptOne
  <2>2. CASE g = f
    BY <2>1, <2>2
  <2>3. CASE g # f
    <3>1. Head(backlog) \in Conns /\ net[Head(backlog)].fd = NoFd /\ conn'[g] = conn[g]
      BY <1>0, <2>1, <2>3, FirstWaiting
    <3>2. Head(backlog) # conn[g] /\ conn[g] \in Conns
      BY <1>0, <3>1, CommMgrAssumption DEF KernelInv
    <3>3. net'[conn[g]] = net[conn[g]]
      BY <1>0, <2>1, <3>1, <3>2
    <3> QED BY <3>1, <3>3
  <2> QED BY <2>2, <2>3
<1>9. ASSUME NEW f \in Fds, OnConnect(f) PROVE Goal
  <2>1. conn' = conn /\ net' = [net EXCEPT ![conn[f]].known = TRUE]
    BY <1>9 DEF OnConnect
  <2> QED BY <1>0, <2>1 DEF Net
<1>10. ASSUME NEW f \in Fds, AppConnect(f) PROVE Goal
  <2> DEFINE c == Min(Unused)
  <2>1. /\ MayConnect(f) /\ Unused # {} /\ reopened' = reopened \cup {f}
        /\ conn' = [conn EXCEPT ![f] = c] /\ net' = [net EXCEPT ![c].link = "connecting", ![c].fd = f]
    BY <1>10 DEF AppConnect
  <2>2. c \in Conns /\ net[c] = Fresh /\ (pc = "callback" => call.fd # f)
    BY <1>0, <2>1, NextConn, ConnectFacts
  <2> HIDE DEF c
  <2>3. CASE g = f
    BY <2>1, <2>2, <2>3
  <2>4. CASE g # f
    <3>1. conn'[g] = conn[g] /\ conn[g] \in Conns
      BY <1>0, <2>1, <2>4
    <3>2. conn[g] # c
      BY <1>0, <2>2, <3>1, KernelFacts DEF Fresh
    <3>3. net'[conn[g]] = net[conn[g]]
      BY <1>0, <2>1, <2>2, <3>1, <3>2
    <3> QED BY <3>1, <3>3
  <2> QED BY <2>3, <2>4
<1>11. ASSUME NEW f \in Fds, AppConnectFails(f) PROVE Goal
  BY <1>11 DEF AppConnectFails
<1>12. CASE PeerConnect
  <2>1. Unused # {} /\ conn' = conn /\ net' = [net EXCEPT ![Min(Unused)].link = "up"]
    BY <1>12 DEF PeerConnect, Peer
  <2>2. Min(Unused) \in Conns /\ net[Min(Unused)].link = "unused"
    BY <1>0, <2>1, NextConn DEF Fresh
  <2>3. conn[g] # Min(Unused) /\ conn[g] \in Conns
    BY <1>0, <2>1, <2>2, KernelFacts
  <2>4. net'[conn[g]] = net[conn[g]]
    BY <1>0, <2>1, <2>2, <2>3
  <2> QED BY <2>1, <2>4
<1>13. ASSUME NEW c \in Conns, PeerFin(c) \/ PeerReset(c) \/ Resolves(c) PROVE Goal
  <2>1. PICK to \in {"fin", "rst", "up", "refused"} :
          pc = "loop" /\ conn' = conn /\ net' = [net EXCEPT ![c].link = to]
    BY <1>13 DEF PeerFin, PeerReset, Resolves, ConnectOk, ConnectRefused, Moves, Peer
  <2>2. conn[g] \in Conns /\ net[c] \in Net
    BY <1>0, <2>1
  <2>3. CASE c = conn[g]
    <3>1. net'[conn[g]].link = to
      BY <1>0, <2>1, <2>2, <2>3 DEF Net
    <3> QED BY <2>1, <3>1
  <2>4. CASE c # conn[g]
    <3>1. net'[conn[g]] = net[conn[g]]
      BY <1>0, <2>1, <2>2, <2>4
    <3> QED BY <2>1, <3>1
  <2> QED BY <2>3, <2>4
<1> QED BY Kinds, <1>1, <1>2, <1>3, <1>5, <1>6, <1>7, <1>8, <1>9, <1>10, <1>11, <1>12, <1>13 DEF Turns

\* Who is called back, and when: only OnConnect tells of a connect.
LEMMA NewCall ==
    ASSUME Core, [Next]_vars, pc' = "callback", call'.on = "connect"
    PROVE  UNCHANGED <<pc, call>> \/ \E f \in Fds : OnConnect(f)
<1>1. CASE Handlers
  <2>1. CASE Poll \/ OnAccept \/ AcceptReject \/ AcceptDone \/ Packages
    BY <2>1 DEF Poll, OnAccept, AcceptReject, AcceptDone, loop, Packages, DeliverPackage, InvalidPackage,
                NoWholePackage, CallBack, ResumeAt
  <2>2. ASSUME NEW f \in Fds, AcceptOne(f) PROVE FALSE
    BY <2>2 DEF AcceptOne, CallBack
  <2>3. ASSUME NEW f \in Fds, Reading(f) PROVE UNCHANGED <<pc, call>>
    BY <2>3 DEF Reading, SkipRead, ReadError, ReadNothing, ReadEof, ReadData, CallBack
  <2>4. ASSUME NEW f \in Fds, Writing(f) PROVE UNCHANGED <<pc, call>> \/ OnConnect(f)
    BY <2>4 DEF Writing, SkipWrite, FlushFails, Flush
  <2> QED BY <1>1, <2>1, <2>2, <2>3, <2>4 DEF Handlers, Accepting
<1>2. CASE Returns
  BY <1>2 DEF Returns, ReturnAccept, ReturnRead, ReturnConnect, ReturnClosing, ResumeAt
<1>3. CASE App
  <2>1. ASSUME NEW s \in Conns, AppClose(s) \/ AppWrites(s) PROVE UNCHANGED loop
    BY <2>1 DEF AppClose, AppWrites, Write, WriteRefused, WriteFails, WriteSent, WriteQueued, WriteOverflow
  <2>2. ASSUME NEW f \in Fds, AppConnect(f) \/ AppConnectFails(f) PROVE UNCHANGED loop
    BY <2>2 DEF AppConnect, AppConnectFails, MayConnect
  <2>3. UNCHANGED loop
    BY <1>3, <2>1, <2>2 DEF App
  <2> QED BY <2>3 DEF loop
<1>4. CASE Peers
  BY <1>4 DEF Peers, PeerConnect, PeerFin, PeerReset, Resolves, ConnectOk, ConnectRefused, Moves,
              PeerReads, PeerSend, Peer, loop
<1>5. CASE UNCHANGED vars
  BY <1>5 DEF vars, loop
<1> QED BY <1>1, <1>2, <1>3, <1>4, <1>5 DEF Next

LEMMA InitNews == Init => News
BY DEF Init, News, Late, ToldConnected, LinkOf

LEMMA NewsNext == Core /\ News /\ [Next]_vars => News'
<1> SUFFICES ASSUME Core, News, [Next]_vars PROVE News'
  OBVIOUS
<1>0. Core' /\ FdInv /\ KernelInv
  BY CoreNext DEF Core
<1>1. ASSUME NEW f \in Fds PROVE Late(f)'
  <2> SUFFICES ASSUME "OUT" \in batch'[f], conn'[f] # NoConn, net'[conn'[f]].link = "connecting"
               PROVE  f \in reopened'
    BY DEF Late, LinkOf
  <2>1. CASE Poll
    <3>1. UNCHANGED <<conn, net>> /\ batch'[f] = Ready(f)
      BY <2>1, CommMgrAssumption DEF Poll, Core, LoopInv
    <3> QED BY <3>1 DEF Ready, LinkOf
  <2>2. CASE ~Poll
    <3>1. reopened \subseteq reopened' /\ "OUT" \in batch[f]
      BY <2>2, LoopFrame
    <3>2. CASE f \in reopened'
      BY <3>2
    <3>3. CASE f \notin reopened'
      <4>1. conn'[f] = conn[f] /\ net[conn[f]].link = "connecting"
        BY <3>3, LinkFrame
      <4> QED BY <3>1, <4>1 DEF News, Late, LinkOf
    <3> QED BY <3>2, <3>3
  <2> QED BY <2>1, <2>2
<1>2. ToldConnected'
  <2> SUFFICES ASSUME pc' = "callback", call'.on = "connect", conn'[call'.fd] = call'.conn
               PROVE  \/ LinkOf(call.fd)' \in {"up", "fin"}
                      \/ LinkOf(call.fd)' = "connecting" /\ call'.fd \in reopened'
    BY DEF ToldConnected
  <2>0. call'.fd \in Fds /\ call'.conn \in Conns /\ call'.conn # NoConn
    BY <1>0, NoConnIsNone DEF Core, CallInv
  <2>1. CASE UNCHANGED <<pc, call>>
    <3>1. conn[call.fd] = call.conn /\ net'[conn[call.fd]].link = net[conn[call.fd]].link
      BY <2>0, <2>1, LinkFrame
    <3>2. ~Poll
      BY <2>1 DEF Poll
    <3>3. reopened \subseteq reopened'
      BY <3>2, LoopFrame
    <3> QED BY <2>0, <2>1, <3>1, <3>3 DEF News, ToldConnected, LinkOf
  <2>2. ASSUME NEW f \in Fds, OnConnect(f)
        PROVE  \/ LinkOf(call.fd)' \in {"up", "fin"}
               \/ LinkOf(call.fd)' = "connecting" /\ call'.fd \in reopened'
    <3>1. /\ "OUT" \in batch[f] /\ UNCHANGED <<conn, reopened>> /\ ~SoError(f)
          /\ call'.fd = f /\ net' = [net EXCEPT ![conn[f]].known = TRUE]
      BY <2>2 DEF OnConnect, Writable, TakeOut, CallBack
    <3>2. conn[f] # NoConn /\ conn[f] \in Conns /\ net[conn[f]].link \in Live
      BY <1>0, <2>0, <3>1, KernelFacts DEF KernelInv
    <3>3. net'[conn[f]].link = net[conn[f]].link
      <4>1. net \in [Conns -> Net]
        BY <1>0 DEF KernelInv, NetTypes
      <4> QED BY <3>1, <3>2, <4>1 DEF Net
    <3>4. net[conn[f]].link \in {"up", "fin", "connecting"}
      BY <3>1, <3>2 DEF SoError, LinkOf, Live
    <3> QED BY <3>1, <3>2, <3>3, <3>4 DEF News, Late, LinkOf
  <2> QED BY <2>1, <2>2, NewCall
<1> QED BY <1>1, <1>2 DEF News

(* onConnect(true) tells of an established connection, or of one whose     *)
(* descriptor was given out after epoll_wait returned.  It goes by         *)
(* SO_ERROR alone, which is 0 also while the connect is under way: it is   *)
(* the batch that rules this out, and only for descriptors as old as it.   *)
THEOREM TellsOfConnected == Spec => []ToldConnected
<1>1. Core /\ News /\ [Next]_vars => (Core /\ News)'
  BY CoreNext, NewsNext
<1>2. Init => Core /\ News
  BY InitCore, InitNews
<1>3. News => ToldConnected
  BY DEF News
<1> QED BY <1>1, <1>2, <1>3, PTL DEF Spec

-----------------------------------------------------------------------------
(* Every open connection can be reached by an event, CEvent's table says.  *)
Reach(g) ==
    \/ Beginning(g) \/ "EV_READ" \in fdEvents[g].iEventType
    \/ "EV_WRITE" \in fdEvents[g].iEventType /\ fdEvents[g].onWrite = "onConnect"
Armed(g) ==
    Queue(g) # <<>> => "EV_WRITE" \in fdEvents[g].iEventType /\ fdEvents[g].onWrite = "onWrite"
Reached == refusals = 0 => \A g \in Fds : Open(g) => Reach(g) /\ Armed(g)

\* What a step that leaves the slot alone leaves reachable.
LEMMA StillReached ==
    ASSUME NEW g \in Fds, Open(g) => Reach(g) /\ Armed(g), fdEvents'[g] = fdEvents[g],
           client'[g].iFd = client[g].iFd, client'[g].send = client[g].send,
           Beginning(g) => Beginning(g)'
    PROVE  (Open(g) => Reach(g) /\ Armed(g))'
BY DEF Open, Reach, Armed, Queue

LEMMA ReturnsReached ==
    ASSUME Core, Reached, Returns, refusals' = 0, NEW g \in Fds, Open(g)'
    PROVE  Reach(g)' /\ Armed(g)'
<1> SUFFICES ASSUME NEW f, f = call.fd PROVE Reach(g)' /\ Armed(g)'
  OBVIOUS
<1>0. /\ pc = "callback" /\ f \in Fds /\ FdEventsType /\ client \in [Fds -> Slot]
      /\ interest[f] \subseteq fdEvents[f].iEventType
      /\ (refusals = 0 => fdEvents[f].iEventType = interest[f])
  BY DEF Returns, ReturnAccept, ReturnRead, ReturnConnect, ReturnClosing, Core, CallInv, FdInv, FdTypes, SlotInv
<1>1. ASSUME refusals = 0, UNCHANGED <<client, eventVars>>, ~Beginning(g) PROVE Reach(g)' /\ Armed(g)'
  BY <1>1, StillReached DEF Reached, Open, eventVars
<1>2. ASSUME NEW ok \in BOOLEAN, Open(f), AddFdEvent(f, "EV_READ", "none", ok), client' = client
      PROVE  Reach(g)' /\ Armed(g)'
  <2>1. "EV_READ" \in EvType /\ "none" \in Handler
    BY DEF EvType, Handler
  <2>2. /\ fdEvents'[f] = [iEventType |-> fdEvents[f].iEventType \cup {"EV_READ"},
                           onWrite |-> IF "EV_READ" = "EV_WRITE" THEN "none" ELSE fdEvents[f].onWrite]
        /\ \A h \in Fds \ {f} : fdEvents'[h] = fdEvents[h]
        /\ refusals = 0
    BY <1>0, <1>2, <2>1, AddFdEventDoes
  <2>3. CASE g = f
    <3>1. Reach(g)'
      BY <2>2, <2>3 DEF Reach
    <3>2. Armed(g)
      BY <1>2, <2>2, <2>3 DEF Reached
    <3> QED BY <1>2, <2>2, <2>3, <3>1, <3>2 DEF Armed, Queue
  <2>4. CASE g # f
    <3>1. ~Beginning(g) /\ fdEvents'[g] = fdEvents[g]
      BY <2>2, <2>4 DEF Beginning
    <3>2. Open(g) => Reach(g) /\ Armed(g)
      BY <2>2 DEF Reached
    <3> QED BY <1>2, <3>1, <3>2, StillReached
  <2> QED BY <2>3, <2>4
<1>3. ASSUME refusals = 0, ~Open(f)', UNCHANGED <<client, eventVars>> PROVE Reach(g)' /\ Armed(g)'
  <2>1. ~Beginning(g)
    BY <1>3 DEF Beginning
  <2> QED BY <1>1, <1>3, <2>1
<1>4. CASE ReturnAccept
  <2>1. client' = client
    BY <1>4 DEF ReturnAccept, slots
  <2>2. CASE IsClose(f) /\ UNCHANGED eventVars
    BY <1>3, <2>1, <2>2 DEF IsClose, Open, eventVars
  <2>3. ASSUME NEW ok \in BOOLEAN, ~IsClose(f), AddFdEvent(f, "EV_READ", "none", ok)
        PROVE  Reach(g)' /\ Armed(g)'
    BY <1>2, <2>1, <2>3 DEF IsClose, Open
  <2> QED BY <1>4, <2>2, <2>3 DEF ReturnAccept
<1>5. CASE ReturnRead
  <2>1. call.on = "read" /\ UNCHANGED eventVars
    BY <1>5 DEF ReturnRead
  <2>2. ~Beginning(g)
    BY <2>1 DEF Beginning
  <2>3. Unmoved
    BY <1>5, UnmovedSteps
  <2> QED BY <2>1, <2>2, <2>3, StillReached DEF Unmoved, Reached, eventVars
<1>6. CASE ReturnConnect
  <2>1. client' = client
    BY <1>6 DEF ReturnConnect, slots
  <2>2. CASE IsClose(f) /\ UNCHANGED eventVars
    BY <1>3, <2>1, <2>2 DEF IsClose, Open, eventVars
  <2>3. ASSUME NEW ok \in BOOLEAN, ~IsClose(f), AddFdEvent(f, "EV_READ", "none", ok)
        PROVE  Reach(g)' /\ Armed(g)'
    BY <1>2, <2>1, <2>3 DEF IsClose, Open
  <2> QED BY <1>6, <2>2, <2>3 DEF ReturnConnect
<1>7. CASE ReturnClosing
  <2>1. CASE IsClose(f)
    <3>1. UNCHANGED <<client, eventVars>>
      BY <1>7, <2>1 DEF ReturnClosing, slots
    <3> QED BY <1>3, <2>1, <3>1 DEF IsClose, Open, eventVars
  <2>2. CASE ~IsClose(f)
    <3>1. Open(f) /\ Close(f, client[f], net, "closed") /\ client[f] \in Slot /\ Advances(net, f)
      BY <1>0, <1>7, <2>2 DEF ReturnClosing, IsClose, Open, Advances, Core, KernelInv, NetTypes
    <3>2. Ends(f)
      BY <1>0, <3>1, CloseEnds
    <3>3. g # f /\ ~Beginning(g)
      BY <3>2 DEF Ends, Beginning
    <3>4. refusals = 0 /\ client'[g] = client[g] /\ fdEvents'[g] = fdEvents[g]
      BY <3>2, <3>3 DEF Ends, Aside, OnlyFd
    <3> QED BY <3>3, <3>4, StillReached DEF Reached
  <2> QED BY <2>1, <2>2
<1> QED BY <1>4, <1>5, <1>6, <1>7 DEF Returns

\* A slot that was not in use, or was left by onAccept, has nothing queued.
LEMMA FreeQueue ==
    ASSUME Core, NEW f \in Fds, conn[f] = NoConn, refusals = 0 PROVE ~Open(f) /\ client[f].send = NoBuf
BY DEF Core, FdInv, SlotInv

LEMMA InitReached == Init => Reached
BY DEF Init, Reached, Open

LEMMA ReachedNext == Core /\ Reached /\ [Next]_vars => Reached'
<1> SUFFICES ASSUME Core, Reached, [Next]_vars, refusals' = 0, NEW g \in Fds, Open(g)'
             PROVE  Reach(g)' /\ Armed(g)'
  BY DEF Reached
<1>0. /\ Core' /\ FdEventsType /\ client \in [Fds -> Slot]
      /\ (refusals = 0 => (Open(g) => Reach(g) /\ Armed(g)))
  BY CoreNext DEF Core, FdInv, FdTypes, Reached
<1>1. CASE Returns
  BY <1>1, ReturnsReached
<1> SUFFICES ASSUME ~Returns PROVE Reach(g)' /\ Armed(g)'
  BY <1>1
<1>2. Beginning(g) => Beginning(g)'
  BY CallGoesOn DEF Beginning
<1>3. ASSUME refusals = 0, fdEvents'[g] = fdEvents[g],
             client'[g].iFd = client[g].iFd, client'[g].send = client[g].send
      PROVE  Reach(g)' /\ Armed(g)'
  BY <1>0, <1>2, <1>3, StillReached
<1>4. CASE Unmoved
  BY <1>3, <1>4 DEF Unmoved, eventVars
<1>5. ASSUME NEW f \in Fds, Ends(f) PROVE Reach(g)' /\ Armed(g)'
  <2>1. g # f
    BY <1>5 DEF Ends
  <2> QED BY <1>3, <1>5, <2>1 DEF Ends, Aside, OnlyFd
<1>6. ASSUME NEW f \in Fds, SendsOn(f) PROVE Reach(g)' /\ Armed(g)'
  <2>1. refusals = 0
    BY <1>6 DEF SendsOn, Aside, OnlyFd
  <2>2. CASE g = f
    <3>1. Reach(g) /\ Armed(g)
      BY <1>0, <1>6, <2>1, <2>2 DEF SendsOn
    <3>2. Reach(g)'
      BY <1>2, <1>6, <2>2, <3>1 DEF SendsOn, Reach
    <3>3. Armed(g)'
      BY <1>6, <2>2, <3>1 DEF SendsOn, Armed
    <3> QED BY <3>2, <3>3
  <2>3. CASE g # f
    BY <1>3, <1>6, <2>1, <2>3 DEF SendsOn, Aside, OnlyFd
  <2> QED BY <2>2, <2>3
<1>7. CASE AcceptReject
  BY <1>3, <1>7 DEF AcceptReject, slots, eventVars
<1>8. ASSUME NEW f \in Fds, AcceptOne(f) PROVE Reach(g)' /\ Armed(g)'
  <2>1. /\ conn[f] = NoConn /\ client' = [client EXCEPT ![f].iFd = TRUE, ![f].iSrvId = "srv"]
        /\ UNCHANGED eventVars /\ pc' = "callback" /\ call'.fd = f /\ call'.on = "accept"
    BY <1>8 DEF AcceptOne, FreeFds, CallBack
  <2>2. refusals = 0 /\ fdEvents' = fdEvents
    BY <2>1 DEF eventVars
  <2>3. CASE g = f
    <3>1. client'[f].send = client[f].send
      BY <1>0, <2>1 DEF Slot
    <3>2. Queue(g)' = <<>>
      BY <2>1, <2>2, <2>3, <3>1, FreeQueue DEF Queue
    <3> QED BY <2>1, <2>3, <3>2 DEF Reach, Armed, Beginning
  <2>4. CASE g # f
    <3>1. client'[g] = client[g]
      BY <1>0, <2>1, <2>4
    <3> QED BY <1>3, <2>2, <3>1
  <2> QED BY <2>3, <2>4
<1>9. ASSUME NEW f \in Fds, OnConnect(f) PROVE Reach(g)' /\ Armed(g)'
  <2>1. /\ Open(f) /\ fdEvents[f].onWrite = "onConnect" /\ DelFdEvent(f, {"EV_WRITE"})
        /\ UNCHANGED client /\ pc' = "callback" /\ call'.fd = f /\ call'.on \in {"connect", "connectFail"}
    BY <1>9 DEF OnConnect, Writable, IsClose, Open, slots, CallBack
  <2>2. refusals = 0 /\ \A h \in Fds \ {f} : fdEvents'[h] = fdEvents[h]
    BY <1>0, <2>1, DelFdEventDoes
  <2>3. CASE g = f
    <3>1. Queue(f) = <<>>
      BY <1>0, <2>1, <2>2, <2>3 DEF Armed
    <3> QED BY <2>1, <2>3, <3>1 DEF Reach, Armed, Beginning, Queue
  <2>4. CASE g # f
    BY <1>3, <2>1, <2>2, <2>4
  <2> QED BY <2>3, <2>4
<1>10. ASSUME NEW f \in Fds, AppConnect(f) PROVE Reach(g)' /\ Armed(g)'
  <2>1. /\ MayConnect(f) /\ client' = [client EXCEPT ![f].iFd = TRUE, ![f].iSrvId = "conn"]
    BY <1>10 DEF AppConnect
  <2>2. PICK ok \in BOOLEAN : AddFdEvent(f, "EV_WRITE", "onConnect", ok)
    BY <1>10 DEF AppConnect
  <2>3. /\ fdEvents'[f] = [iEventType |-> fdEvents[f].iEventType \cup {"EV_WRITE"},
                           onWrite |-> IF "EV_WRITE" = "EV_WRITE" THEN "onConnect" ELSE fdEvents[f].onWrite]
        /\ refusals = 0 /\ \A h \in Fds \ {f} : fdEvents'[h] = fdEvents[h]
    <3>1. "EV_WRITE" \in EvType /\ "onConnect" \in Handler
      BY DEF EvType, Handler
    <3> QED BY <1>0, <2>2, <3>1, AddFdEventDoes
  <2>4. CASE g = f
    <3>1. client'[f].send = client[f].send /\ conn[f] = NoConn
      BY <1>0, <2>1, ConnectFacts DEF Slot
    <3>2. Queue(g)' = <<>>
      BY <2>3, <2>4, <3>1, FreeQueue DEF Queue
    <3> QED BY <2>3, <2>4, <3>2 DEF Reach, Armed
  <2>5. CASE g # f
    <3>1. client'[g] = client[g]
      BY <1>0, <2>1, <2>5
    <3> QED BY <1>3, <2>3, <2>5, <3>1
  <2> QED BY <2>4, <2>5
<1>11. ASSUME NEW f \in Fds, AppConnectFails(f) PROVE Reach(g)' /\ Armed(g)'
  <2>1. client' = [client EXCEPT ![f].iFd = FALSE, ![f].iSrvId = "conn", ![f].recv = NoBuf, ![f].send = NoBuf]
    BY <1>11 DEF AppConnectFails
  <2>2. g # f
    BY <1>0, <2>1 DEF Open, Slot
  <2>3. client'[g] = client[g]
    BY <1>0, <2>1, <2>2
  <2>4. refusals = 0 /\ fdEvents'[g] = fdEvents[g]
    <3>1. CASE DelFdEvent(f, EvType)
      BY <1>0, <2>2, <3>1, DelFdEventDoes
    <3>2. CASE EpollCtl(f, FALSE) /\ fdEvents' = [fdEvents EXCEPT ![f] = [iEventType |-> {}, onWrite |-> "none"]]
      BY <1>0, <2>2, <3>2, FdEventsAssumption DEF EpollCtl, FdEventsType
    <3> QED BY <1>11, <3>1, <3>2 DEF AppConnectFails
  <2> QED BY <1>3, <2>3, <2>4
<1>12. CASE PeerConnect \/ \E c \in Conns : PeerFin(c) \/ PeerReset(c) \/ Resolves(c)
  BY <1>3, <1>12 DEF PeerConnect, PeerFin, PeerReset, Resolves, ConnectOk, ConnectRefused, Moves, Peer,
                     slots, eventVars
<1> QED BY Kinds, <1>4, <1>5, <1>6, <1>7, <1>8, <1>9, <1>10, <1>11, <1>12 DEF Turns, Returns

(* Nothing the application does inside a callback, and no handler, leaves  *)
(* an open connection that no event can reach, or with data queued and no  *)
(* one waiting for room.                                                   *)
THEOREM ForgetsNoConnection == Spec => []NoConnectionForgotten
<1>1. Core /\ Reached /\ [Next]_vars => (Core /\ Reached)'
  BY CoreNext, ReachedNext
<1>2. Init => Core /\ Reached
  BY InitCore, InitReached
<1>3. Core /\ Reached => NoConnectionForgotten
  BY DEF Core, FdInv, SlotInv, Reached, Reach, Armed, NoConnectionForgotten, Watched, Open
<1> QED BY <1>1, <1>2, <1>3, PTL DEF Spec

-----------------------------------------------------------------------------
(* What has gone out, what is queued and what was promised.                *)
Even(f) == Open(f) /\ net[conn[f]].whole => net[conn[f]].sent \o Queue(f) = net[conn[f]].owed
Settled(c) == net[c].link = "drained" /\ net[c].whole => net[c].sent = net[c].owed
Balanced == refusals = 0 => (\A f \in Fds : Even(f)) /\ (\A c \in Conns : Settled(c))

\* A step that changes no books, and drains nothing.
LEMMA SameBooks ==
    ASSUME Core, Core', Balanced, refusals = 0, refusals' = 0,
           \A d \in Conns : Books(d)' = Books(d) /\ (net'[d].link = "drained" => net[d].link = "drained"),
           \A g \in Fds : Open(g)' => Open(g) /\ conn'[g] = conn[g] /\ client'[g].send = client[g].send
    PROVE  Balanced'
<1>1. ASSUME NEW g \in Fds, Open(g)' PROVE conn[g] \in Conns /\ conn'[g] = conn[g]
  BY <1>1 DEF Core, FdInv, FdTypes, SlotInv
<1>2. ASSUME NEW g \in Fds PROVE Even(g)'
  <2> SUFFICES ASSUME Open(g)' PROVE Even(g)'
    BY DEF Even
  <2>1. Even(g) /\ Open(g) /\ conn[g] \in Conns /\ conn'[g] = conn[g]
    BY <1>1 DEF Balanced
  <2>2. Queue(g)' = Queue(g) /\ Books(conn[g])' = Books(conn[g])
    BY <2>1 DEF Queue
  <2>3. /\ net'[conn[g]].sent = net[conn[g]].sent /\ net'[conn[g]].owed = net[conn[g]].owed
        /\ net'[conn[g]].whole = net[conn[g]].whole
    BY <2>1, <2>2 DEF Books
  <2> QED BY <2>1, <2>2, <2>3 DEF Even
<1>3. ASSUME NEW d \in Conns PROVE Settled(d)'
  <2>1. /\ net'[d].sent = net[d].sent /\ net'[d].owed = net[d].owed /\ net'[d].whole = net[d].whole
    BY DEF Books
  <2> QED BY <2>1 DEF Settled, Balanced
<1> QED BY <1>2, <1>3 DEF Balanced

\* A connection that begins, on a descriptor that was free.
LEMMA FreshBooks ==
    ASSUME Core, Core', Balanced, refusals = 0, NEW f \in Fds, conn[f] = NoConn, NEW c \in Conns,
           net[c].sent = <<>> /\ net[c].owed = <<>>, conn'[f] = c, client'[f].send = client[f].send,
           net'[c].sent = <<>> /\ net'[c].owed = <<>>, net'[c].link # "drained",
           \A g \in Fds : conn[g] # c,
           \A d \in Conns \ {c} : net'[d] = net[d],
           \A g \in Fds \ {f} : client'[g] = client[g] /\ conn'[g] = conn[g]
    PROVE  Balanced'
<1>1. ASSUME NEW g \in Fds, Open(g)', g # f PROVE Even(g)'
  <2>1. Even(g) /\ Open(g) /\ conn'[g] = conn[g] /\ Queue(g)' = Queue(g)
    BY <1>1 DEF Balanced, Open, Queue
  <2>2. conn[g] \in Conns \ {c}
    BY <2>1 DEF Core, FdInv, FdTypes, SlotInv
  <2> QED BY <2>1, <2>2 DEF Even
<1>2. Even(f)'
  <2>1. Queue(f)' = <<>>
    BY FreeQueue DEF Queue
  <2>2. <<>> \o <<>> = <<>>
    <3>1. <<>> \in Seq(Piece)
      OBVIOUS
    <3> QED BY <3>1, ConcatEmptySeq
  <2> QED BY <2>1, <2>2 DEF Even
<1>3. \A g \in Fds : Even(g)'
  BY <1>1, <1>2 DEF Even
<1>4. ASSUME NEW d \in Conns PROVE Settled(d)'
  BY DEF Settled, Balanced
<1> QED BY <1>3, <1>4 DEF Balanced

LEMMA InitBalanced == Init => Balanced
BY DEF Init, Balanced, Even, Settled, Open, Fresh

(* An ADD for reading, while the kernel has refused nothing.               *)
LEMMA ReadAdded ==
    ASSUME FdInv, NEW f \in Fds, NEW ok \in BOOLEAN, AddFdEvent(f, "EV_READ", "none", ok), refusals' = 0
    PROVE  refusals = 0 /\ ok
<1>0. FdEventsType /\ SlotInv(f)
  BY DEF FdInv, FdTypes
<1>1. ASSUME NEW type \in EvType, NEW handler \in Handler, AddFdEvent(f, type, handler, ok)
      PROVE  /\ refusals' = 0 => refusals = 0
             /\ refusals' = 0 /\ fdEvents[f].iEventType = interest[f] => ok
  <2>1. /\ fdEvents'[f] = [iEventType |-> fdEvents[f].iEventType \cup {type},
                           onWrite |-> IF type = "EV_WRITE" THEN handler ELSE fdEvents[f].onWrite]
        /\ interest'[f] = IF ok THEN fdEvents'[f].iEventType ELSE interest[f]
        /\ \A g \in Fds \ {f} : fdEvents'[g] = fdEvents[g] /\ interest'[g] = interest[g]
        /\ refusals' = 0 => refusals = 0
        /\ refusals' = 0 /\ fdEvents[f].iEventType = interest[f] => ok
    BY <1>0, <1>1, AddFdEventDoes
  <2> QED BY <2>1
<1>2. "EV_READ" \in EvType /\ "none" \in Handler
  BY DEF EvType, Handler
<1> QED BY <1>0, <1>1, <1>2 DEF SlotInv

LEMMA BalancedNext == Core /\ Balanced /\ [Next]_vars => Balanced'
<1> SUFFICES ASSUME Core, Balanced, [Next]_vars, refusals' = 0 PROVE Balanced'
  BY DEF Balanced
<1>0. /\ Core' /\ FdInv /\ KernelInv /\ FdEventsType /\ client \in [Fds -> Slot] /\ net \in [Conns -> Net]
      /\ conn \in [Fds -> Conns \cup {NoConn}]
  BY CoreNext DEF Core, FdInv, FdTypes, KernelInv, NetTypes
<1>1. CASE Unmoved
  BY <1>0, <1>1, SameBooks DEF Unmoved, Open, eventVars
\* The others, when f's connection ends or goes on.
<1>2. ASSUME NEW f \in Fds, Aside(f), NEW g \in Fds \ {f}, Open(g)'
      PROVE  Even(g)' /\ Open(g) /\ conn'[g] = conn[g] /\ conn[g] # NoConn
  <2>1. /\ refusals = 0 /\ Open(g) /\ conn'[g] = conn[g] /\ client'[g] = client[g]
    BY <1>2 DEF Aside, OnlyFd, Open
  <2>2. Even(g) /\ conn[g] # NoConn
    BY <1>0, <2>1 DEF Balanced, FdInv, SlotInv
  <2>3. net'[conn[g]] = net[conn[g]]
    BY <1>2, <2>2 DEF Aside
  <2> QED BY <2>1, <2>2, <2>3 DEF Even, Queue
<1>3. ASSUME NEW f \in Fds, Ends(f), conn[f] # NoConn => net'[conn[f]].link = "closed" PROVE Balanced'
  <2>1. refusals = 0 /\ Aside(f) /\ ~Open(f)'
    BY <1>3 DEF Ends
  <2>2. \A g \in Fds : Even(g)'
    BY <1>2, <2>1 DEF Even
  <2>3. ASSUME NEW d \in Conns PROVE Settled(d)'
    <3>1. CASE d = conn[f]
      <4>1. net'[d].link = "closed"
        BY <1>3, <3>1, NoConnIsNone
      <4> QED BY <4>1 DEF Settled
    <3>2. CASE d # conn[f]
      <4>1. Settled(d) /\ net'[d] = net[d]
        BY <1>3, <2>1, <3>2 DEF Ends, Balanced
      <4> QED BY <4>1 DEF Settled
    <3> QED BY <3>1, <3>2
  <2> QED BY <2>2, <2>3 DEF Balanced
<1>4. ASSUME NEW f \in Fds, Evens(f), Ends(f) PROVE Balanced'
  <2>1. refusals = 0 /\ Aside(f) /\ ~Open(f)' /\ Open(f)
    BY <1>4 DEF Ends
  <2>2. \A g \in Fds : Even(g)'
    BY <1>2, <2>1 DEF Even
  <2>3. ASSUME NEW d \in Conns PROVE Settled(d)'
    <3>1. CASE d = conn[f]
      <4> SUFFICES ASSUME net'[d].whole PROVE net'[d].sent = net'[d].owed
        BY DEF Settled
      <4>1. d # NoConn /\ Even(f)
        BY <2>1, NoConnIsNone DEF Balanced
      <4>2. net'[d].sent \o Queue(f)' = net'[d].owed
        BY <1>4, <2>1, <3>1, <4>1 DEF Evens, Even
      <4>3. Queue(f)' = <<>> /\ net'[d].sent \in Seq(Piece)
        BY <1>0, <2>1, QueueAfter DEF Core, KernelInv, NetTypes, Net
      <4>4. net'[d].sent \o <<>> = net'[d].sent
        BY <4>3, ConcatEmptySeq
      <4> QED BY <4>2, <4>3, <4>4
    <3>2. CASE d # conn[f]
      <4>1. Settled(d) /\ net'[d] = net[d]
        BY <1>4, <2>1, <3>2 DEF Ends, Balanced
      <4> QED BY <4>1 DEF Settled
    <3> QED BY <3>1, <3>2
  <2> QED BY <2>2, <2>3 DEF Balanced
<1>5. ASSUME NEW f \in Fds, Evens(f), SendsOn(f) PROVE Balanced'
  <2>1. /\ refusals = 0 /\ Aside(f) /\ Open(f) /\ conn' = conn /\ Advances(net', f)
    BY <1>5 DEF SendsOn, Aside, OnlyFd
  <2>2. conn[f] # NoConn /\ conn[f] \in Conns /\ Even(f)
    BY <1>0, <2>1, KernelFacts DEF Balanced, FdInv, SlotInv
  <2>3. Even(f)'
    BY <1>5, <2>1, <2>2 DEF Evens, Even
  <2>4. \A g \in Fds : Even(g)'
    BY <1>2, <2>1, <2>3 DEF Even
  <2>5. ASSUME NEW d \in Conns PROVE Settled(d)'
    <3>1. CASE d = conn[f]
      <4>1. net'[d].link = net[d].link /\ net[d].link \in Live
        BY <1>0, <2>1, <2>2, <3>1 DEF Advances, KernelInv
      <4> QED BY <4>1 DEF Settled, Live
    <3>2. CASE d # conn[f]
      <4>1. Settled(d) /\ net'[d] = net[d]
        BY <2>1, <3>2 DEF Advances, Balanced
      <4> QED BY <4>1 DEF Settled
    <3> QED BY <3>1, <3>2
  <2> QED BY <2>4, <2>5 DEF Balanced
\* A connection that ends before it has a descriptor, or is given up at once.
<1>6. ASSUME NEW c \in Conns, \A d \in Conns \ {c} : net'[d] = net[d], net'[c].link = "closed",
             refusals = 0, client' = client,
             \A g \in Fds : Open(g)' => conn'[g] = conn[g] /\ conn[g] # c
      PROVE  Balanced'
  <2>1. ASSUME NEW g \in Fds, Open(g)' PROVE Even(g)'
    <3>1. Even(g) /\ Open(g) /\ conn'[g] = conn[g] /\ Queue(g)' = Queue(g)
      BY <1>6, <2>1 DEF Balanced, Open, Queue
    <3>2. conn[g] \in Conns \ {c}
      BY <1>0, <1>6, <2>1, <3>1 DEF FdInv, SlotInv
    <3> QED BY <1>6, <3>1, <3>2 DEF Even
  <2>2. ASSUME NEW d \in Conns PROVE Settled(d)'
    BY <1>6 DEF Settled, Balanced
  <2> QED BY <2>1, <2>2 DEF Balanced, Even
<1>7. CASE AcceptReject
  <2>1. /\ backlog # <<>> /\ net' = Ended(net, Head(backlog), "closed")
        /\ UNCHANGED <<client, conn, refusals>>
    BY <1>7 DEF AcceptReject, slots, eventVars
  <2>2. Head(backlog) \in Conns /\ net[Head(backlog)].fd = NoFd
    BY <1>0, <2>1, FirstWaiting
  <2>3. \A d \in Conns \ {Head(backlog)} : net'[d] = net[d]
    BY <1>0, <2>1, <2>2, EndedDoes
  <2>4. net'[Head(backlog)].link = "closed"
    BY <1>0, <2>1, <2>2, EndedDoes
  <2>5. \A g \in Fds : conn[g] # Head(backlog)
    BY <1>0, <2>2, NoConnIsNone, CommMgrAssumption DEF KernelInv
  <2> QED BY <1>6, <2>1, <2>2, <2>3, <2>4, <2>5
<1>8. CASE ReturnAccept
  <2>1. call.fd \in Fds /\ client' = client /\ (Open(call.fd) => conn[call.fd] = call.conn /\ call.conn \in Conns)
    BY <1>8 DEF ReturnAccept, Core, CallInv, slots
  <2> SUFFICES ASSUME NEW f \in Fds, f = call.fd PROVE Balanced'
    BY <2>1
  <2>2. ASSUME NEW ok \in BOOLEAN, Open(f), AddFdEvent(f, "EV_READ", "none", ok) PROVE refusals = 0 /\ ok
    BY <1>0, <2>2, ReadAdded
  <2>3. CASE UNCHANGED <<conn, net>> /\ UNCHANGED eventVars
    BY <1>0, <2>1, <2>3, SameBooks DEF Books, Open, eventVars
  <2>4. ASSUME NEW ok \in BOOLEAN, Open(f), AddFdEvent(f, "EV_READ", "none", ok), ok => UNCHANGED <<conn, net>>
        PROVE  Balanced'
    <3>1. refusals = 0 /\ UNCHANGED <<conn, net>>
      BY <2>2, <2>4
    <3> QED BY <1>0, <2>1, <3>1, SameBooks DEF Books, Open
  <2> QED BY <1>8, <2>3, <2>4 DEF ReturnAccept, IsClose, Open
<1>9. CASE ReturnConnect
  <2>1. UNCHANGED <<client, conn, net>> /\ call.fd \in Fds
    BY <1>9 DEF ReturnConnect, slots, world, Core, CallInv
  <2>2. refusals = 0
    <3>1. CASE UNCHANGED eventVars
      BY <3>1 DEF eventVars
    <3>2. ASSUME NEW ok \in BOOLEAN, AddFdEvent(call.fd, "EV_READ", "none", ok) PROVE refusals = 0
      <4>1. "EV_READ" \in EvType /\ "none" \in Handler
        BY DEF EvType, Handler
      <4> QED BY <1>0, <2>1, <3>2, <4>1, AddFdEventDoes
    <3> QED BY <1>9, <3>1, <3>2 DEF ReturnConnect
  <2> QED BY <1>0, <2>1, <2>2, SameBooks DEF Books, Open
<1>10. ASSUME NEW f \in Fds, AcceptOne(f) PROVE Balanced'
  <2> DEFINE c == Head(backlog)
  <2>1. /\ backlog # <<>> /\ conn[f] = NoConn /\ conn' = [conn EXCEPT ![f] = c] /\ refusals' = refusals
        /\ net' = [net EXCEPT ![c].fd = f, ![c].known = TRUE]
        /\ client' = [client EXCEPT ![f].iFd = TRUE, ![f].iSrvId = "srv"]
    BY <1>10 DEF AcceptOne, FreeFds, eventVars
  <2>2. /\ c \in Conns /\ Untouched(c) /\ net[c].fd = NoFd /\ net[c].link \in {"up", "fin", "rst"}
    BY <1>0, <2>1, FirstWaiting
  <2>3. net[c].sent = <<>> /\ net[c].owed = <<>>
    BY <2>2 DEF Untouched, Fresh
  <2> HIDE DEF c
  <2>4. /\ net'[c].sent = net[c].sent /\ net'[c].owed = net[c].owed /\ net'[c].link = net[c].link
        /\ \A d \in Conns \ {c} : net'[d] = net[d]
    BY <1>0, <2>1, <2>2 DEF Net
  <2>5. /\ client'[f].send = client[f].send /\ conn'[f] = c
        /\ \A g \in Fds \ {f} : client'[g] = client[g] /\ conn'[g] = conn[g]
    BY <1>0, <2>1 DEF Slot
  <2>6. \A g \in Fds : conn[g] # c
    BY <1>0, <2>2, NoConnIsNone, CommMgrAssumption DEF KernelInv
  <2> QED BY <1>0, <2>1, <2>2, <2>3, <2>4, <2>5, <2>6, FreshBooks
<1>11. ASSUME NEW f \in Fds, AppConnect(f) PROVE Balanced'
  <2> DEFINE c == Min(Unused)
  <2>1. /\ MayConnect(f) /\ Unused # {} /\ AddFdEvent(f, "EV_WRITE", "onConnect", TRUE)
        /\ conn' = [conn EXCEPT ![f] = c] /\ net' = [net EXCEPT ![c].link = "connecting", ![c].fd = f]
        /\ client' = [client EXCEPT ![f].iFd = TRUE, ![f].iSrvId = "conn"]
    BY <1>11 DEF AppConnect
  <2>2. c \in Conns /\ net[c] = Fresh /\ net[c] \in Net /\ conn[f] = NoConn
    BY <1>0, <2>1, NextConn, ConnectFacts
  <2>3. net[c].sent = <<>> /\ net[c].owed = <<>> /\ net[c].link = "unused"
    BY <2>2 DEF Fresh
  <2> HIDE DEF c
  <2>4. /\ net'[c].sent = net[c].sent /\ net'[c].owed = net[c].owed /\ net'[c].link = "connecting"
        /\ \A d \in Conns \ {c} : net'[d] = net[d]
    BY <1>0, <2>1, <2>2 DEF Net
  <2>5. /\ client'[f].send = client[f].send /\ conn'[f] = c
        /\ \A g \in Fds \ {f} : client'[g] = client[g] /\ conn'[g] = conn[g]
    BY <1>0, <2>1 DEF Slot
  <2>6. \A g \in Fds : conn[g] # c
    BY <1>0, <2>2, <2>3, KernelFacts, NoConnIsNone
  <2>7. refusals = 0
    <3>1. PICK ok \in BOOLEAN : AddFdEvent(f, "EV_WRITE", "onConnect", ok)
      BY <2>1
    <3>2. "EV_WRITE" \in EvType /\ "onConnect" \in Handler
      BY DEF EvType, Handler
    <3> QED BY <1>0, <3>1, <3>2, AddFdEventDoes
  <2> QED BY <1>0, <2>2, <2>3, <2>4, <2>5, <2>6, <2>7, FreshBooks
<1>12. ASSUME NEW f \in Fds, OnConnect(f) PROVE Balanced'
  <2>1. /\ DelFdEvent(f, {"EV_WRITE"}) /\ net' = [net EXCEPT ![conn[f]].known = TRUE]
        /\ UNCHANGED <<client, conn>>
    BY <1>12 DEF OnConnect, slots
  <2>2. refusals = 0
    BY <1>0, <2>1, DelFdEventDoes
  <2>3. \A d \in Conns : Books(d)' = Books(d) /\ net'[d].link = net[d].link
    BY <1>0, <2>1 DEF Books, Net
  <2> QED BY <1>0, <2>1, <2>2, <2>3, SameBooks DEF Open
<1>13. ASSUME NEW f \in Fds, AppConnectFails(f) PROVE Balanced'
  <2>1. /\ client' = [client EXCEPT ![f].iFd = FALSE, ![f].iSrvId = "conn", ![f].recv = NoBuf, ![f].send = NoBuf]
        /\ UNCHANGED <<conn, net>>
    BY <1>13 DEF AppConnectFails
  <2>2. refusals = 0
    <3>1. CASE DelFdEvent(f, EvType)
      BY <1>0, <3>1, DelFdEventDoes
    <3>2. CASE EpollCtl(f, FALSE)
      BY <1>0, <3>2, FdEventsAssumption DEF EpollCtl, FdEventsType
    <3> QED BY <1>13, <3>1, <3>2 DEF AppConnectFails
  <2>3. \A g \in Fds : Open(g)' => Open(g) /\ client'[g].send = client[g].send
    BY <1>0, <2>1 DEF Open, Slot
  <2> QED BY <1>0, <2>1, <2>2, <2>3, SameBooks DEF Books
<1>14. CASE PeerConnect \/ \E c \in Conns : PeerFin(c) \/ PeerReset(c) \/ Resolves(c)
  <2>1. UNCHANGED <<client, conn, refusals>>
    BY <1>14 DEF PeerConnect, PeerFin, PeerReset, Resolves, ConnectOk, ConnectRefused, Moves, Peer,
                 slots, eventVars
  <2>2. ASSUME NEW c, NEW to \in {"up", "fin", "rst", "refused"}, net' = [net EXCEPT ![c].link = to]
        PROVE  \A d \in Conns : Books(d)' = Books(d) /\ (net'[d].link = "drained" => net[d].link = "drained")
    BY <1>0, <2>2 DEF Books, Net
  <2>3. ASSUME PeerConnect
        PROVE  \A d \in Conns : Books(d)' = Books(d) /\ (net'[d].link = "drained" => net[d].link = "drained")
    BY <2>2, <2>3 DEF PeerConnect
  <2>4. ASSUME NEW c \in Conns, PeerFin(c) \/ PeerReset(c) \/ Resolves(c)
        PROVE  \A d \in Conns : Books(d)' = Books(d) /\ (net'[d].link = "drained" => net[d].link = "drained")
    <3>1. PICK to \in {"up", "fin", "rst", "refused"} : net' = [net EXCEPT ![c].link = to]
      BY <2>4 DEF PeerFin, PeerReset, Resolves, ConnectOk, ConnectRefused, Moves
    <3> QED BY <2>2, <3>1
  <2>5. \A d \in Conns : Books(d)' = Books(d) /\ (net'[d].link = "drained" => net[d].link = "drained")
    BY <1>14, <2>3, <2>4
  <2> QED BY <1>0, <2>1, <2>5, SameBooks DEF Open
<1> QED BY Kinds, <1>1, <1>3, <1>4, <1>5, <1>7, <1>8, <1>9, <1>10, <1>11, <1>12, <1>13, <1>14 DEF Turns

LEMMA BalancedAlways == Spec => [](Core /\ Balanced)
<1>1. Core /\ Balanced /\ [Next]_vars => (Core /\ Balanced)'
  BY CoreNext, BalancedNext
<1>2. Init => Core /\ Balanced
  BY InitCore, InitBalanced
<1> QED BY <1>1, <1>2, PTL DEF Spec

(* Partial sends, EAGAIN, writes made while something is queued and        *)
(* write(int) keep the order and the number of the pieces: what has gone   *)
(* out and what is queued is what was accepted.                            *)
THEOREM KeepsFrames == Spec => []FrameIntegrity
<1>1. Balanced => FrameIntegrity
  BY DEF Balanced, Even, FrameIntegrity
<1> QED BY <1>1, BalancedAlways, PTL

(* A connection the loop closes after its last write has sent everything   *)
(* it accepted, and nothing else, while the kernel refused no ADD.         *)
THEOREM DrainsWhole == Spec => []DrainedWhole
<1>1. Balanced => DrainedWhole
  BY DEF Balanced, Settled, DrainedWhole
<1> QED BY <1>1, BalancedAlways, PTL
=============================================================================
