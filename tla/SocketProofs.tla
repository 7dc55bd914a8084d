---------------------------- MODULE SocketProofs ----------------------------
(***************************************************************************)
(* Proofs about what lies between a socket and the library's user.         *)
(*                                                                         *)
(* SocketBuf, for every first and every largest size: the type invariant,  *)
(* that no byte is lost, repeated or reordered, and that an array is never *)
(* replaced by one too small.  All follow from one inductive invariant;    *)
(* addData's check of the maximum, kept as Fits, is what makes it          *)
(* inductive.                                                              *)
(*                                                                         *)
(* WorkerClient, for any size of the send buffer and any number of writes: *)
(* what a worker writes to a connection of its own goes out once and in    *)
(* order, and nothing is left without the handler that sends it.           *)
(*                                                                         *)
(* Connector, for any number of requests and sockets: what was read, what  *)
(* a readn has, what has come and what is still to come are together the   *)
(* answer to the last request, so a caller reads nothing else.             *)
(*                                                                         *)
(* PackageFilters, for any packages whose length fits its bytes, and any   *)
(* leftovers: what was handed out, what has come and what is still on its  *)
(* way are, joined, what was sent, so each package is found where it ends. *)
(*                                                                         *)
(* HttpExchange, for any requests in any number: what Entered does entry   *)
(* by entry gives every table of the reader, and with it what setData      *)
(* leaves of this request and of earlier ones; the writer is followed from *)
(* begin to end.                                                           *)
(***************************************************************************)
EXTENDS SocketBuf, WorkerClient, Connector, PackageFilters, HttpExchange, SequenceTheorems,
        WellFoundedInduction, NaturalsInduction, TLAPS

-----------------------------------------------------------------------------
(* SocketBuf.                                                              *)
Fits == adding <= m_iDataAllowMaxSize - GetSize
IInv == TypeOK /\ DataInOrder /\ Fits

LEMMA InitIInv == Init => IInv
BY SocketBufAssumption DEF Init, IInv, TypeOK, DataInOrder, Fits, GetSize, Positions

\* incBuf grows the array unless it has its largest size.
LEMMA IncreasedValue ==
    ASSUME TypeOK
    PROVE  /\ Increased \in 1 .. m_iDataAllowMaxSize
           /\ Increased >= m_iBufSize
           /\ m_iBufSize < m_iDataAllowMaxSize => Increased > m_iBufSize
BY SocketBufAssumption DEF TypeOK, Increased

\* Making room moves the data and keeps what they are.
LEMMA MakeRoomKeeps ==
    ASSUME TypeOK, DataInOrder, MakeRoom, UNCHANGED <<adding, in, out>>
    PROVE  TypeOK' /\ DataInOrder' /\ GetSize' = GetSize
<1>1. CASE MoveData
  <2>1. CASE GetSize = 0
    BY <1>1, <2>1 DEF MoveData, TypeOK, DataInOrder, GetSize, Positions
  <2>2. CASE GetSize # 0
    <3>1. /\ m_pszBuf' = Moved /\ m_iDataBeginPos' = 0 /\ m_iDataEndPos' = GetSize
          /\ m_iBufSize' = m_iBufSize /\ GetSize \in 1 .. m_iBufSize
      BY <1>1, <2>2 DEF MoveData, TypeOK, GetSize
    <3>2. GetSize' = GetSize
      BY <3>1 DEF GetSize
    <3>3. Moved \in [Positions(m_iBufSize) -> Nat \cup {Garbage}]
      <4>1. ASSUME NEW i \in Positions(m_iBufSize), i < GetSize
            PROVE  m_iDataBeginPos + i \in Positions(m_iBufSize)
        BY <4>1, <3>1 DEF TypeOK, Positions, GetSize
      <4> QED BY <4>1 DEF Moved, TypeOK
    <3>4. TypeOK'
      BY <3>1, <3>3 DEF TypeOK
    <3>5. \A i \in Positions(GetSize) : m_pszBuf'[i] = out + i
      <4>1. SUFFICES ASSUME NEW i \in Positions(GetSize) PROVE m_pszBuf'[i] = out + i
        OBVIOUS
      <4>2. i \in Positions(m_iBufSize) /\ i < GetSize
        BY <3>1 DEF Positions, TypeOK
      <4>3. m_pszBuf'[i] = m_pszBuf[m_iDataBeginPos + i]
        BY <3>1, <4>2 DEF Moved
      <4> QED BY <4>3 DEF DataInOrder
    <3>6. DataInOrder'
      BY <3>1, <3>2, <3>5 DEF DataInOrder, Positions
    <3> QED BY <3>2, <3>4, <3>6
  <2> QED BY <2>1, <2>2
<1>2. CASE IncBuf
  <2>1. CASE Increased = m_iBufSize
    BY <1>2, <2>1 DEF IncBuf, TypeOK, DataInOrder, GetSize, Positions
  <2>2. CASE Increased # m_iBufSize
    <3>1. /\ m_iBufSize' = Increased /\ Increased \in 1 .. m_iDataAllowMaxSize
          /\ Increased > m_iBufSize /\ m_iDataBeginPos = 0
          /\ UNCHANGED <<m_iDataBeginPos, m_iDataEndPos>>
          /\ GetSize \in 0 .. m_iBufSize /\ GetSize' = GetSize
      BY <1>2, <2>2, IncreasedValue DEF IncBuf, TypeOK, GetSize
    <3>2. m_pszBuf' = [i \in Positions(Increased) |->
                            IF i < GetSize THEN m_pszBuf[i] ELSE Garbage]
      BY <1>2, <2>2 DEF IncBuf
    <3>3. m_pszBuf' \in [Positions(Increased) -> Nat \cup {Garbage}]
      <4>1. ASSUME NEW i \in Positions(Increased), i < GetSize
            PROVE  i \in Positions(m_iBufSize)
        BY <4>1, <3>1 DEF TypeOK, Positions
      <4> QED BY <4>1, <3>2 DEF TypeOK
    <3>4. TypeOK'
      BY <3>1, <3>3 DEF TypeOK
    <3>5. \A i \in Positions(GetSize) : m_pszBuf'[i] = out + i
      BY <3>1, <3>2 DEF Positions, DataInOrder, TypeOK
    <3>6. DataInOrder'
      BY <3>1, <3>5 DEF DataInOrder, Positions
    <3> QED BY <3>1, <3>4, <3>6
  <2> QED BY <2>1, <2>2
<1> QED BY <1>1, <1>2 DEF MakeRoom

\* The data never exceed the maximum, so Fits holds whenever nothing is added.
LEMMA NothingAddedFits == TypeOK /\ adding = 0 => Fits
BY SocketBufAssumption DEF TypeOK, Fits, GetSize

LEMMA NothingAddedFitsNext == (TypeOK /\ adding = 0 => Fits)'
BY NothingAddedFits, PTL

\* What is put at the end comes after all that is there.
LEMMA PutKeeps ==
    ASSUME TypeOK, DataInOrder, NEW n \in Nat \ {0}, Put(n), adding' \in Nat
    PROVE  TypeOK' /\ DataInOrder' /\ GetSize' = GetSize + n
<1>1. /\ m_iDataEndPos' = m_iDataEndPos + n /\ m_iDataEndPos + n <= m_iBufSize
      /\ in' = in + n /\ UNCHANGED <<m_iBufSize, m_iDataBeginPos, out>>
      /\ GetSize' = GetSize + n /\ GetSize \in Nat
  BY DEF Put, TypeOK, GetSize, GetFreeSize
<1>2. m_pszBuf' = [i \in Positions(m_iBufSize) |->
                        IF m_iDataEndPos <= i /\ i < m_iDataEndPos + n
                        THEN in + (i - m_iDataEndPos) ELSE m_pszBuf[i]]
  BY DEF Put
<1>3. m_pszBuf' \in [Positions(m_iBufSize) -> Nat \cup {Garbage}]
  <2>1. ASSUME NEW i \in Positions(m_iBufSize), m_iDataEndPos <= i
        PROVE  in + (i - m_iDataEndPos) \in Nat
    BY <2>1 DEF TypeOK, Positions
  <2> QED BY <1>2, <2>1 DEF TypeOK
<1>4. TypeOK'
  BY <1>1, <1>3 DEF TypeOK
<1>5. ASSUME NEW i \in Positions(GetSize + n)
      PROVE  m_pszBuf'[m_iDataBeginPos + i] = out + i
  <2>1. m_iDataBeginPos + i \in Positions(m_iBufSize) /\ i \in Nat
    BY <1>1 DEF Positions, TypeOK, GetSize
  <2>2. CASE i < GetSize
    <3>1. m_iDataBeginPos + i < m_iDataEndPos /\ i \in Positions(GetSize)
      BY <2>1, <2>2 DEF GetSize, TypeOK, Positions
    <3>2. m_pszBuf'[m_iDataBeginPos + i] = m_pszBuf[m_iDataBeginPos + i]
      BY <1>2, <2>1, <3>1 DEF TypeOK
    <3> QED BY <3>1, <3>2 DEF DataInOrder
  <2>3. CASE ~(i < GetSize)
    <3>1. m_iDataEndPos <= m_iDataBeginPos + i /\ m_iDataBeginPos + i < m_iDataEndPos + n
      BY <2>1, <2>3 DEF GetSize, TypeOK, Positions
    <3>2. m_pszBuf'[m_iDataBeginPos + i] = in + ((m_iDataBeginPos + i) - m_iDataEndPos)
      BY <1>2, <2>1, <3>1
    <3> QED BY <2>1, <3>2 DEF DataInOrder, GetSize, TypeOK
  <2> QED BY <2>2, <2>3
<1>6. DataInOrder'
  BY <1>1, <1>5 DEF DataInOrder, TypeOK
<1> QED BY <1>1, <1>4, <1>6

\* An emptied buffer is as good as a new one.
LEMMA StartAgainKeeps ==
    ASSUME TypeOK, StartAgain, UNCHANGED <<adding, in>>, out' = in
    PROVE  TypeOK' /\ DataInOrder' /\ GetSize' = 0
<1>1. Fresh \in [Positions(m_iInitSize) -> Nat \cup {Garbage}]
  BY DEF Fresh, TypeOK
<1> QED BY <1>1, SocketBufAssumption DEF StartAgain, TypeOK, DataInOrder, GetSize, Positions

LEMMA IInvNext == IInv /\ [Next]_vars => IInv'
<1> SUFFICES ASSUME IInv, [Next]_vars PROVE IInv'
  OBVIOUS
<1> USE DEF IInv
<1>1. ASSUME MakeRoom, UNCHANGED <<adding, in, out>> PROVE IInv'
  BY <1>1, MakeRoomKeeps DEF Fits
<1>2. CASE AddFreeBuf \/ AddDataRoom
  BY <1>1, <1>2 DEF AddFreeBuf, AddDataRoom
<1>3. CASE AddDataCopy
  <2>1. adding \in Nat \ {0} /\ Put(adding) /\ adding' = 0
    BY <1>3 DEF AddDataCopy, TypeOK
  <2>2. TypeOK' /\ DataInOrder' /\ GetSize' = GetSize + adding
    BY <2>1, PutKeeps
  <2> QED BY <2>1, <2>2, NothingAddedFitsNext
<1>4. ASSUME NEW n \in 1 .. MaxBytes, AddReceived(n) PROVE IInv'
  <2>1. n \in Nat \ {0} /\ Put(n) /\ adding = 0 /\ adding' = 0
    BY <1>4, SocketBufAssumption DEF AddReceived
  <2>2. TypeOK' /\ DataInOrder'
    BY <2>1, PutKeeps
  <2> QED BY <2>1, <2>2, NothingAddedFitsNext
<1>5. ASSUME NEW n \in 1 .. MaxBytes, AddDataBegin(n) PROVE IInv'
  BY <1>5, SocketBufAssumption DEF AddDataBegin, HasRoomFor, Fits, TypeOK, DataInOrder, GetSize
<1>6. ASSUME NEW n \in 1 .. MaxBytes, RemoveData(n) PROVE IInv'
  <2>1. /\ n \in Nat \ {0} /\ n <= GetSize /\ adding = 0 /\ out' = out + n
        /\ UNCHANGED <<adding, in>>
    BY <1>6, SocketBufAssumption DEF RemoveData
  <2>2. CASE Emptied(n)
    <3>1. StartAgain /\ out' = in
      BY <1>6, <2>1, <2>2 DEF RemoveData, Emptied, DataInOrder, GetSize, TypeOK
    <3> QED BY <2>1, <3>1, StartAgainKeeps, SocketBufAssumption DEF Fits
  <2>3. CASE ~Emptied(n)
    <3>1. /\ m_iDataBeginPos' = m_iDataBeginPos + n
          /\ UNCHANGED <<m_pszBuf, m_iBufSize, m_iDataEndPos>>
          /\ n < GetSize /\ GetSize' = GetSize - n
      BY <1>6, <2>1, <2>3 DEF RemoveData, Emptied, GetSize, TypeOK
    <3>2. TypeOK' /\ Fits'
      BY <2>1, <3>1, SocketBufAssumption DEF TypeOK, Fits, GetSize
    <3>3. ASSUME NEW i \in Positions(GetSize - n)
          PROVE  m_pszBuf[(m_iDataBeginPos + n) + i] = (out + n) + i
      <4>1. n + i \in Positions(GetSize) /\ i \in Nat
        BY <2>1, <3>1 DEF Positions, GetSize, TypeOK
      <4>2. m_pszBuf[m_iDataBeginPos + (n + i)] = out + (n + i)
        BY <4>1 DEF DataInOrder
      <4> QED BY <2>1, <4>1, <4>2 DEF TypeOK
    <3>4. DataInOrder'
      BY <2>1, <3>1, <3>3 DEF DataInOrder, TypeOK
    <3> QED BY <3>2, <3>4
  <2> QED BY <2>2, <2>3
<1>7. CASE Reset
  BY <1>7, StartAgainKeeps, SocketBufAssumption DEF Reset, Fits
<1>8. CASE UNCHANGED vars
  BY <1>8 DEF vars, TypeOK, DataInOrder, Fits, GetSize, Positions
<1> QED BY <1>2, <1>3, <1>4, <1>5, <1>6, <1>7, <1>8 DEF Next, AddData

LEMMA IInvAlways == Spec => []IInv
BY InitIInv, IInvNext, PTL DEF Spec

(* The data always lie within the array, the array within the maximum.     *)
THEOREM TypeCorrect == Spec => []TypeOK
BY IInvAlways, PTL DEF IInv

(* What CSocketBuf holds is what was added and not yet removed, in order,  *)
(* through every move, growth and shrinking.                               *)
THEOREM BytesInOrder == Spec => []DataInOrder
BY IInvAlways, PTL DEF IInv

(* incBuf always finds a larger array when data at the front leave no      *)
(* room, and reSize's assertion holds whenever reSize is called.           *)
THEOREM EveryResizeFits == Spec => []ResizeFits
<1>1. IInv => ResizeFits
  <2>1. SUFFICES ASSUME IInv PROVE ResizeFits
    OBVIOUS
  <2>2. TypeOK /\ Fits
    BY <2>1 DEF IInv
  <2> QED BY <2>2, IncreasedValue, SocketBufAssumption DEF ResizeFits, TypeOK, Fits, GetSize, GetFreeSize
<1> QED BY <1>1, IInvAlways, PTL

-----------------------------------------------------------------------------
(* WorkerClient.                                                           *)
Pieces == Seq(Nat)
PeerStates == {"connecting", "up", "ended", "broken"}

\* The types of the client's slot, of its handlers and of what was sent.
ClientTypeOK ==
    /\ client \in {"none", "open", "closed"}
    /\ peerState \in PeerStates
    /\ callback \in {"no", "connect", "connectNow", "connectFail"}
    /\ watchWrite \in {"none", "onWrite", "onTcpConnect"}
    /\ sendBuf \in Pieces /\ sent \in Pieces /\ owed \in Pieces
    /\ bNeedClose \in BOOLEAN /\ watchRead \in BOOLEAN /\ told \in BOOLEAN /\ unwatched \in BOOLEAN
    /\ torn \in BOOLEAN /\ closeDue \in BOOLEAN /\ drained \in BOOLEAN
    /\ writes \in Nat

\* What a client that is not open has left, and one that has not begun has done.
Inert ==
    /\ IsClose => sendBuf = <<>> /\ watchWrite = "none" /\ ~watchRead
    /\ client = "none" => callback = "no" /\ ~told /\ sent = <<>> /\ owed = <<>> /\ ~closeDue
    /\ drained => client = "closed"

\* What the two marks of the model know of the code's: the close that is due is
\* asked for in bNeedClose, and a callback has been announced as it is.
MarksAgree ==
    /\ closeDue => bNeedClose
    /\ callback = "connect" => told
    /\ callback = "connectNow" => unwatched

ClientInv == ClientTypeOK /\ Inert /\ MarksAgree /\ WorkerWrites

-----------------------------------------------------------------------------
(* Sequences: a sequence cut in two, and the first part of one.            *)
LEMMA ConcatAt ==
    ASSUME NEW a \in Seq(Nat), NEW b \in Seq(Nat), NEW i \in 1 .. Len(a) + Len(b)
    PROVE  (a \o b)[i] = IF i <= Len(a) THEN a[i] ELSE b[i - Len(a)]
BY ConcatProperties

LEMMA Cut ==
    ASSUME NEW s \in Pieces, NEW k \in 0 .. Len(s)
    PROVE  /\ SubSeq(s, 1, k) \in Pieces /\ Len(SubSeq(s, 1, k)) = k
           /\ SubSeq(s, k + 1, Len(s)) \in Pieces
           /\ Len(SubSeq(s, k + 1, Len(s))) = Len(s) - k
           /\ SubSeq(s, 1, k) \o SubSeq(s, k + 1, Len(s)) = s
<1>. DEFINE a == SubSeq(s, 1, k)
            b == SubSeq(s, k + 1, Len(s))
<1>1. Len(s) \in Nat /\ k \in Int /\ \A i \in 1 .. Len(s) : s[i] \in Nat
  BY LenProperties, ElementOfSeq DEF Pieces
<1>2. a \in Pieces /\ Len(a) = k /\ \A i \in 1 .. k : a[i] = s[i]
  <2>1. \A i \in 1 .. k : s[i] \in Nat
    BY <1>1
  <2>. HIDE DEF a
  <2>2. a \in Seq(Nat) /\ Len(a) = (IF 1 <= k THEN k - 1 + 1 ELSE 0)
        /\ \A i \in 1 .. k - 1 + 1 : a[i] = s[1 + i - 1]
    BY <1>1, <2>1, SubSeqProperties DEF a
  <2>. QED  BY <2>2 DEF Pieces
<1>3. b \in Pieces /\ Len(b) = Len(s) - k /\ \A i \in 1 .. Len(s) - k : b[i] = s[k + i]
  <2>1. k + 1 \in Int /\ Len(s) \in Int /\ \A i \in k + 1 .. Len(s) : s[i] \in Nat
    BY <1>1
  <2>. HIDE DEF b
  <2>2. b \in Seq(Nat) /\ Len(b) = (IF k + 1 <= Len(s) THEN Len(s) - (k + 1) + 1 ELSE 0)
        /\ \A i \in 1 .. Len(s) - (k + 1) + 1 : b[i] = s[k + 1 + i - 1]
    BY <2>1, SubSeqProperties DEF b
  <2>. QED  BY <1>1, <2>2 DEF Pieces
<1>4. a \o b = s
  <2>. HIDE DEF a, b
  <2>1. a \o b \in Pieces /\ Len(a \o b) = Len(s)
    BY <1>1, <1>2, <1>3, ConcatProperties DEF Pieces
  <2>2. ASSUME NEW i \in 1 .. Len(s) PROVE (a \o b)[i] = s[i]
    <3>1. (a \o b)[i] = IF i <= Len(a) THEN a[i] ELSE b[i - Len(a)]
      <4>1. i \in 1 .. Len(a) + Len(b)
        BY <1>1, <1>2, <1>3
      <4>. QED  BY <1>2, <1>3, <4>1, ConcatAt, Zenon DEF Pieces
    <3>2. CASE i <= k
      BY <1>2, <3>1, <3>2
    <3>3. CASE i > k
      <4>1. i - k \in 1 .. Len(s) - k
        BY <1>1, <3>3
      <4>. QED  BY <1>1, <1>2, <1>3, <3>1, <3>3, <4>1
    <3>4. i <= k \/ i > k
      BY <1>1
    <3>. QED  BY <3>2, <3>3, <3>4
  <2>. QED  BY <2>1, <2>2, SeqEqual DEF Pieces
<1>. QED  BY <1>2, <1>3, <1>4

LEMMA FirstPart ==
    ASSUME NEW s \in Pieces, NEW t \in Pieces, NEW u \in Pieces, s \o t = u
    PROVE  s = SubSeq(u, 1, Len(s)) /\ Len(s) <= Len(u)
<1>1. Len(s) \in Nat /\ Len(t) \in Nat /\ Len(u) = Len(s) + Len(t)
  BY LenProperties, ConcatProperties DEF Pieces
<1>2. Len(s) \in 0 .. Len(u)
  BY <1>1
<1>3. SubSeq(u, 1, Len(s)) \in Pieces /\ Len(SubSeq(u, 1, Len(s))) = Len(s)
  BY <1>2, Cut
<1>4. ASSUME NEW i \in 1 .. Len(s) PROVE SubSeq(u, 1, Len(s))[i] = s[i]
  <2>1. u[i] = s[i]
    BY <1>1, ConcatProperties DEF Pieces
  <2>2. \A j \in 1 .. Len(u) : u[j] \in Nat
    BY ElementOfSeq DEF Pieces
  <2>3. SubSeq(u, 1, Len(s))[i] = u[i]
    BY <1>1, <2>2, SubSeqProperties DEF Pieces
  <2>. QED  BY <2>1, <2>3
<1>. QED  BY <1>1, <1>3, <1>4, SeqEqual DEF Pieces

LEMMA Taken ==
    ASSUME ClientInv, NEW s \in Pieces, NEW k \in SendResult(s)
    PROVE  k = -1 \/ k \in 0 .. Len(s)
<1>1. Len(s) \in Nat
  BY LenProperties DEF Pieces
<1>. QED  BY <1>1 DEF SendResult, ClientInv, ClientTypeOK, PeerStates

-----------------------------------------------------------------------------
LEMMA InitClientInv == ClientInit => ClientInv
<1>. SUFFICES ASSUME ClientInit PROVE ClientInv
  OBVIOUS
<1>1. <<>> \in Pieces /\ Len(<<>>) = 0
  BY EmptySeq DEF Pieces
<1>2. SubSeq(<<>>, 1, 0) = <<>>
  BY SubSeqEmpty
<1>3. ClientTypeOK /\ Inert /\ MarksAgree
  BY <1>1 DEF ClientInit, ClientTypeOK, Inert, MarksAgree, PeerStates, IsClose
<1>4. WireInOrder
  BY <1>1, <1>2 DEF ClientInit, WireInOrder, IsClose
<1>5. QueueWatched /\ ClosedWhenDrained /\ Served
  BY DEF ClientInit, QueueWatched, ClosedWhenDrained, Served, IsClose
<1>. QED  BY <1>3, <1>4, <1>5 DEF ClientInv, WorkerWrites

(* The part of WireInOrder that a close has to leave.                      *)
LEMMA ClosedIsPart ==
    ASSUME ClientInv, ~torn
    PROVE  sent = SubSeq(owed, 1, Len(sent)) /\ Len(sent) <= Len(owed)
<1>1. CASE IsClose
  BY <1>1 DEF ClientInv, WorkerWrites, WireInOrder
<1>2. CASE ~IsClose
  BY <1>2, FirstPart DEF ClientInv, ClientTypeOK, WorkerWrites, WireInOrder
<1>. QED  BY <1>1, <1>2

LEMMA StepsOfClosing ==
    ASSUME ClientInv, CloseClient, UNCHANGED history, UNCHANGED <<bNeedClose, peerState, told, unwatched>>,
           callback' \in {callback, "no"}, client # "none" 
    PROVE  ClientInv'
<1>1. client' = "closed" /\ IsClose'
  BY DEF CloseClient, IsClose
<1>2. ClientTypeOK' /\ Inert' /\ MarksAgree'
  BY <1>1, EmptySeq DEF CloseClient, history, ClientInv, ClientTypeOK, Inert, MarksAgree, IsClose, Pieces
<1>3. WireInOrder'
  BY <1>1, ClosedIsPart DEF WireInOrder, history
<1>4. QueueWatched' /\ Served'
  BY <1>1 DEF QueueWatched, Served, CloseClient
<1>5. ClosedWhenDrained'
  BY <1>1 DEF ClosedWhenDrained, history, ClientInv, WorkerWrites
<1>. QED  BY <1>2, <1>3, <1>4, <1>5 DEF ClientInv, WorkerWrites

LEMMA ConnectStep ==
    ASSUME ClientInv, ConnectNow \/ ConnectWaits \/ ConnectFails
    PROVE  ClientInv'
<1>1. client = "none" /\ IsClose /\ sendBuf = <<>> /\ sent = <<>> /\ owed = <<>>
  BY DEF ConnectNow, ConnectWaits, ConnectFails, ClientInv, Inert, IsClose
<1>2. UNCHANGED history /\ UNCHANGED buffers /\ UNCHANGED watchRead
  BY DEF ConnectNow, ConnectWaits, ConnectFails, buffers
<1>3. ClientTypeOK' /\ Inert' /\ MarksAgree'
  BY <1>1, <1>2 DEF ConnectNow, ConnectWaits, ConnectFails, buffers, history, ClientInv, ClientTypeOK, PeerStates,
       Inert, MarksAgree, IsClose
<1>4. WireInOrder' /\ QueueWatched' /\ ClosedWhenDrained'
  <2>1. <<>> \o <<>> = <<>> /\ SubSeq(<<>>, 1, 0) = <<>> /\ Len(<<>>) = 0
    BY EmptySeq, ConcatEmptySeq, SubSeqEmpty
  <2>. QED  BY <1>1, <1>2, <2>1 DEF WireInOrder, QueueWatched, ClosedWhenDrained, buffers, history,
              ClientInv, Inert, WorkerWrites
<1>5. Served'
  BY <1>1 DEF Served, ConnectNow, ConnectWaits, ConnectFails, ClientInv, Inert, IsClose
<1>. QED  BY <1>3, <1>4, <1>5 DEF ClientInv, WorkerWrites

LEMMA OnTcpConnectStep == ASSUME ClientInv, OnTcpConnect PROVE ClientInv'
<1>1. client = "open" /\ sendBuf = <<>>
  BY DEF OnTcpConnect, ClientInv, ClientTypeOK, Inert, IsClose, WorkerWrites, QueueWatched
<1>2. ClientTypeOK' /\ Inert' /\ MarksAgree'
  BY <1>1 DEF OnTcpConnect, buffers, history, ClientInv, ClientTypeOK, PeerStates, Inert, MarksAgree, IsClose
<1>3. WireInOrder' /\ QueueWatched' /\ ClosedWhenDrained' /\ Served'
  BY <1>1 DEF OnTcpConnect, buffers, history, ClientInv, WorkerWrites, WireInOrder, QueueWatched,
       ClosedWhenDrained, Served, IsClose
<1>. QED  BY <1>2, <1>3 DEF ClientInv, WorkerWrites

LEMMA ConnectReturnsStep == ASSUME ClientInv, ConnectReturns PROVE ClientInv'
<1>1. CASE callback = "connectFail" /\ ~IsClose
  BY <1>1, StepsOfClosing DEF ConnectReturns, IsClose
<1>2. CASE ~(callback = "connectFail" /\ ~IsClose)
  <2>1. /\ UNCHANGED <<client, sendBuf, watchWrite, bNeedClose, peerState, told, unwatched, history>>
        /\ callback' = "no" /\ callback # "no"
        /\ watchRead' = (watchRead \/ (callback = "connect" /\ ~IsClose))
    BY <1>2 DEF ConnectReturns
  <2>2. ClientTypeOK' /\ Inert' /\ MarksAgree'
    BY <2>1 DEF history, ClientInv, ClientTypeOK, PeerStates, Inert, MarksAgree, IsClose
  <2>3. WireInOrder' /\ QueueWatched' /\ ClosedWhenDrained'
    BY <2>1 DEF history, ClientInv, WorkerWrites, WireInOrder, QueueWatched, ClosedWhenDrained, IsClose
  <2>4. Served'
    BY <1>2, <2>1 DEF Served, ClientInv, ClientTypeOK, MarksAgree, IsClose
  <2>. QED  BY <2>2, <2>3, <2>4 DEF ClientInv, WorkerWrites
<1>. QED  BY <1>1, <1>2

LEMMA ClosesStep == ASSUME ClientInv, AppCloses \/ ReadCloses PROVE ClientInv'
<1>1. client # "none"
  BY DEF AppCloses, ReadCloses, ClientInv, ClientTypeOK, Inert, IsClose
<1>. QED  BY <1>1, StepsOfClosing DEF AppCloses, ReadCloses

LEMMA PeerChangesStep == ASSUME ClientInv, PeerChanges PROVE ClientInv'
<1>1. peerState' \in PeerStates
  BY DEF PeerChanges, ClientInv, ClientTypeOK, PeerStates
<1>. QED  BY <1>1 DEF PeerChanges, buffers, history, ClientInv, ClientTypeOK, Inert, MarksAgree, WorkerWrites,
             WireInOrder, QueueWatched, ClosedWhenDrained, Served, IsClose

-----------------------------------------------------------------------------
(* Writes.  What the kernel has, what is kept and what was promised, when  *)
(* the kernel takes k pieces of what is kept, when a message follows, and  *)
(* when the kernel takes k pieces of a message with nothing before it.     *)
LEMMA Together ==
    ASSUME NEW a \in Pieces, NEW b \in Pieces
    PROVE  a \o b \in Pieces
BY ConcatProperties DEF Pieces

LEMMA Grouped ==
    ASSUME NEW a \in Pieces, NEW b \in Pieces, NEW c \in Pieces
    PROVE  a \o (b \o c) = (a \o b) \o c
<1>1. \A s, t, u \in Seq(Nat) : (s \o t) \o u = s \o (t \o u)
  BY ConcatAssociative, SMTT(30)
<1>. QED  BY <1>1, Zenon DEF Pieces

LEMMA KernelTakes ==
    ASSUME NEW a \in Pieces, NEW b \in Pieces, NEW k \in 0 .. Len(b)
    PROVE  (a \o SubSeq(b, 1, k)) \o SubSeq(b, k + 1, Len(b)) = a \o b
<1>1. SubSeq(b, 1, k) \in Pieces /\ SubSeq(b, k + 1, Len(b)) \in Pieces
      /\ SubSeq(b, 1, k) \o SubSeq(b, k + 1, Len(b)) = b
  BY Cut
<1>2. (a \o SubSeq(b, 1, k)) \o SubSeq(b, k + 1, Len(b))
        = a \o (SubSeq(b, 1, k) \o SubSeq(b, k + 1, Len(b)))
  BY <1>1, Grouped, Zenon
<1>. QED  BY <1>1, <1>2

LEMMA NotEmpty ==
    ASSUME NEW b \in Pieces, NEW m \in Pieces, b # <<>> \/ m # <<>>
    PROVE  b \o m # <<>>
BY ConcatEqualIffEmpty DEF Pieces

(* What a call of write leaves, whichever way it takes: everything that    *)
(* was promised is sent or kept, what is kept has its handler, and the     *)
(* client is closed only when nothing is kept.                             *)
Outcome(bClose) ==
    /\ sendBuf' \in Pieces /\ sent' \in Pieces /\ owed' \in Pieces
    /\ torn' \in BOOLEAN /\ closeDue' \in BOOLEAN
    /\ ~torn' => sent' \o sendBuf' = owed'
    /\ closeDue' => bClose /\ (client' = "open" => sendBuf' # <<>>)
    /\ \/ /\ client' = "closed" /\ sendBuf' = <<>>
          /\ watchRead' = FALSE /\ watchWrite' = "none" /\ drained' = TRUE
       \/ /\ client' = "open" /\ watchRead' = watchRead /\ drained' = drained
          /\ watchWrite' \in {watchWrite, "onWrite", "none"}
          /\ sendBuf' # <<>> => watchWrite' = "onWrite"

LEMMA OutcomeClientInv ==
    ASSUME ClientInv, ~IsClose, NEW bClose \in BOOLEAN, Outcome(bClose), bNeedClose' = bClose,
           UNCHANGED <<peerState, callback, told>>, writes' \in Nat,
           unwatched' = (unwatched \/ watchWrite = "onTcpConnect")
    PROVE  ClientInv'
<1>1. client = "open" /\ drained = FALSE
  BY DEF IsClose, ClientInv, ClientTypeOK, Inert
<1>2. ClientTypeOK'
  BY <1>1 DEF Outcome, ClientInv, ClientTypeOK
<1>3. Inert' /\ MarksAgree'
  BY <1>1 DEF Outcome, ClientInv, ClientTypeOK, Inert, MarksAgree, IsClose
<1>4. CASE client' = "closed"
  <2>1. ~torn' => sent' = owed'
    BY <1>4, ConcatEmptySeq DEF Outcome, Pieces
  <2>2. ~torn' => sent' = SubSeq(owed', 1, Len(sent')) /\ Len(sent') <= Len(owed')
    BY <1>2, FirstPart DEF Outcome, ClientTypeOK
  <2>3. WireInOrder'
    BY <1>4, <2>2 DEF WireInOrder, IsClose
  <2>4. QueueWatched' /\ ClosedWhenDrained' /\ Served'
    BY <1>4, <2>1 DEF QueueWatched, ClosedWhenDrained, Served, Outcome, IsClose
  <2>. QED  BY <1>2, <1>3, <2>3, <2>4 DEF ClientInv, WorkerWrites
<1>5. CASE client' = "open"
  <2>1. WireInOrder' /\ QueueWatched' /\ ClosedWhenDrained'
    BY <1>1, <1>5 DEF WireInOrder, QueueWatched, ClosedWhenDrained, Outcome, IsClose
  <2>2. ASSUME ~unwatched', callback' = "no"
        PROVE  told' /\ watchRead'
    <3>1. ~unwatched /\ watchWrite # "onTcpConnect" /\ callback = "no"
      BY <2>2
    <3>2. told /\ watchRead
      BY <1>1, <3>1 DEF Served, IsClose, ClientInv, WorkerWrites
    <3>3. watchRead' = watchRead /\ told' = told
      BY <1>5 DEF Outcome
    <3>. QED  BY <3>2, <3>3
  <2>3. Served'
    BY <2>2 DEF Served
  <2>. QED  BY <1>2, <1>3, <2>1, <2>3 DEF ClientInv, WorkerWrites
<1>. QED  BY <1>4, <1>5 DEF Outcome

LEMMA SendNewOutcome ==
    ASSUME ClientInv, ~IsClose, NEW msg \in Pieces, msg # <<>>, NEW bClose \in BOOLEAN,
           SendNew(msg, sendBuf, bClose)
    PROVE  Outcome(bClose)
<1>. USE DEF Outcome, ClientInv, ClientTypeOK
<1>1. PICK k \in SendResult(msg) :
        LET rest == SubSeq(msg, k + 1, Len(msg))
            taken == sendBuf \o SubSeq(msg, 1, k)
        IN \/ k = -1 /\ StaysOpen(<<>>, watchWrite) /\ Refused(sendBuf, FALSE) /\ UNCHANGED drained
           \/ /\ k \in 0 .. Len(msg) - 1 /\ Fit(<<>>, rest)
              /\ StaysOpen(rest, "onWrite") /\ Accepted(msg, taken, bClose) /\ UNCHANGED drained
           \/ /\ k \in 0 .. Len(msg) - 1 /\ ~Fit(<<>>, rest)
              /\ StaysOpen(<<>>, watchWrite) /\ Refused(taken, k > 0) /\ UNCHANGED drained
           \/ /\ k = Len(msg) /\ Accepted(msg, taken, bClose)
              /\ IF bClose THEN CloseClient /\ drained' = TRUE
                           ELSE StaysOpen(<<>>, "none") /\ UNCHANGED drained
  BY DEF SendNew
<1>. DEFINE first == SubSeq(msg, 1, k)
            rest == SubSeq(msg, k + 1, Len(msg))
            taken == sendBuf \o first
<1>2. Len(msg) \in Nat
  BY LenProperties DEF Pieces
<1>3. ~torn => sent \o sendBuf = owed
  BY DEF WorkerWrites, WireInOrder
<1>4. <<>> \in Pieces /\ (sent \o sendBuf) \in Pieces /\ (sent \o sendBuf) \o <<>> = sent \o sendBuf
  BY EmptySeq, ConcatEmptySeq, ConcatProperties DEF Pieces
<1>5. ASSUME k \in 0 .. Len(msg)
      PROVE  /\ rest \in Pieces /\ Len(rest) = Len(msg) - k
             /\ sent \o taken \in Pieces /\ owed \o msg \in Pieces
             /\ ~torn => (sent \o taken) \o rest = owed \o msg
             /\ first = <<>> => sent \o taken = sent \o sendBuf
  <2>1. first \in Pieces /\ rest \in Pieces /\ Len(rest) = Len(msg) - k
    BY <1>5, Cut
  <2>2. (owed \o first) \o rest = owed \o msg
    BY <1>5, KernelTakes
  <2>3. sent \o taken = (sent \o sendBuf) \o first
    BY <2>1, Grouped, ZenonT(30)
  <2>4. sent \o taken \in Pieces /\ owed \o msg \in Pieces
    <3>1. taken \in Pieces /\ owed \o msg \in Pieces
      BY <2>1, Together
    <3>. HIDE DEF taken
    <3>. QED  BY <3>1, Together
  <2>5. ~torn => (sent \o taken) \o rest = owed \o msg
    BY <1>3, <2>2, <2>3
  <2>6. first = <<>> => sent \o taken = sent \o sendBuf
    BY <1>4, <2>3
  <2>. QED  BY <2>1, <2>4, <2>5, <2>6
<1>. HIDE DEF first, rest, taken
<1>6. CASE k = -1 /\ StaysOpen(<<>>, watchWrite) /\ Refused(sendBuf, FALSE) /\ UNCHANGED drained
  BY <1>3, <1>4, <1>6 DEF StaysOpen, Refused
<1>7. CASE /\ k \in 0 .. Len(msg) - 1
           /\ StaysOpen(rest, "onWrite") /\ Accepted(msg, taken, bClose) /\ UNCHANGED drained
  <2>1. rest # <<>>
    BY <1>2, <1>5, <1>7, EmptySeq
  <2>2. k \in 0 .. Len(msg)
    BY <1>2, <1>7
  <2>. QED  BY <1>5, <1>7, <2>1, <2>2 DEF StaysOpen, Accepted
<1>8. CASE /\ k \in 0 .. Len(msg) - 1
           /\ StaysOpen(<<>>, watchWrite) /\ Refused(taken, k > 0) /\ UNCHANGED drained
  <2>0. ~(k > 0) => k = 0
    BY <1>2, <1>8
  <2>1. torn' \in BOOLEAN /\ (~torn' => ~torn /\ k = 0)
    <3>1. torn' = (torn \/ k > 0)
      BY <1>8 DEF Refused
    <3>. DEFINE positive == k > 0
    <3>2. torn' = (torn \/ positive) /\ (~positive => k = 0)
      BY <2>0, <3>1
    <3>. HIDE DEF positive
    <3>. QED  BY <3>2, Zenon
  <2>2. k = 0 => first = <<>>
    BY SubSeqEmpty DEF first
  <2>3. k \in 0 .. Len(msg)
    BY <1>2, <1>8
  <2>. QED  BY <1>3, <1>4, <1>5, <1>8, <2>1, <2>2, <2>3 DEF StaysOpen, Refused
<1>9. CASE /\ k = Len(msg) /\ Accepted(msg, taken, bClose)
           /\ IF bClose THEN CloseClient /\ drained' = TRUE
                        ELSE StaysOpen(<<>>, "none") /\ UNCHANGED drained
  <2>1. rest = <<>>
    BY <1>2, <1>9, SubSeqEmpty DEF rest
  <2>2. k \in 0 .. Len(msg)
    BY <1>2, <1>9
  <2>. QED  BY <1>4, <1>5, <1>9, <2>1, <2>2 DEF StaysOpen, Accepted, CloseClient
<1>. QED  BY <1>1, <1>6, <1>7, <1>8, <1>9 DEF rest, taken, first

\* A message kept behind what the kernel has left of the earlier data.
LEMMA KeptOutcome ==
    ASSUME ClientInv, ~IsClose, NEW msg \in Pieces, msg # <<>>, NEW bClose \in BOOLEAN,
           NEW k \in 0 .. Len(sendBuf), k < Len(sendBuf),
           Kept(msg, SubSeq(sendBuf, 1, k), SubSeq(sendBuf, k + 1, Len(sendBuf)), bClose)
    PROVE  Outcome(bClose)
<1>. USE DEF Outcome, ClientInv, ClientTypeOK
<1>. DEFINE first == SubSeq(sendBuf, 1, k)
            rest == SubSeq(sendBuf, k + 1, Len(sendBuf))
<1>1. first \in Pieces /\ rest \in Pieces /\ Len(rest) = Len(sendBuf) - k
  BY Cut
<1>2. (sent \o first) \o rest = sent \o sendBuf
  BY KernelTakes
<1>3. ~torn => sent \o sendBuf = owed
  BY DEF WorkerWrites, WireInOrder
<1>4. sendBuf # <<>> /\ watchWrite = "onWrite"
  <2>1. Len(sendBuf) # 0
    BY LenProperties DEF Pieces
  <2>. QED  BY <2>1, EmptySeq DEF WorkerWrites, QueueWatched
<1>. HIDE DEF first, rest
<1>5. sent \o first \in Pieces /\ rest \o msg \in Pieces /\ owed \o msg \in Pieces
  BY <1>1, Together
<1>6. rest \o msg # <<>>
  BY <1>1, NotEmpty
<1>7. rest # <<>>
  BY <1>1, LenProperties, EmptySeq DEF Pieces
<1>8. ((sent \o first) \o rest) \o msg = (sent \o first) \o (rest \o msg)
  <2>. DEFINE now == sent \o first
  <2>1. now \in Pieces /\ rest \in Pieces /\ msg \in Pieces
    BY <1>1, <1>5
  <2>. HIDE DEF now
  <2>2. (now \o rest) \o msg = now \o (rest \o msg)
    BY ONLY <2>1, Grouped, Zenon
  <2>. QED  BY <2>2, Zenon DEF now
<1>9. ~torn => (sent \o first) \o rest = owed /\ (sent \o first) \o (rest \o msg) = owed \o msg
  BY <1>2, <1>3, <1>8
<1>10. CASE StaysOpen(rest \o msg, "onWrite") /\ Accepted(msg, first, bClose) /\ UNCHANGED drained
  BY <1>5, <1>6, <1>9, <1>10 DEF StaysOpen, Accepted
<1>11. CASE StaysOpen(rest, watchWrite) /\ Refused(first, FALSE) /\ UNCHANGED drained
  BY <1>1, <1>4, <1>5, <1>9, <1>11 DEF StaysOpen, Refused
<1>. QED  BY <1>10, <1>11 DEF Kept, first, rest

\* The same with an error of the kernel: everything stays as it is.
LEMMA NothingOutcome ==
    ASSUME ClientInv, ~IsClose, NEW bClose \in BOOLEAN, NothingSent, Refused(<<>>, FALSE), UNCHANGED drained
    PROVE  Outcome(bClose)
<1>1. sent \o <<>> = sent
  BY ConcatEmptySeq DEF ClientInv, ClientTypeOK, Pieces
<1>. QED  BY <1>1 DEF Outcome, NothingSent, Refused, ClientInv, ClientTypeOK, IsClose, WorkerWrites, WireInOrder, QueueWatched

LEMMA WorkerWriteStep == ASSUME ClientInv, NEW bClose \in BOOLEAN, WorkerWrite(bClose) PROVE ClientInv'
<1>. DEFINE msg == <<2 * writes + 1, 2 * writes + 2>>
<1>1. msg \in Pieces /\ msg # <<>>
  BY DEF ClientInv, ClientTypeOK, Pieces
<1>2. /\ ~IsClose /\ writes' = writes + 1 /\ bNeedClose' = bClose
      /\ IF sendBuf = <<>> THEN SendNew(msg, <<>>, bClose) ELSE WriteBuffered(msg, bClose)
      /\ unwatched' = (unwatched \/ watchWrite = "onTcpConnect")
      /\ UNCHANGED <<dwMaxSendBufLen, peerState, callback, told>>
  BY DEF WorkerWrite
<1>. HIDE DEF msg
<1>3. Outcome(bClose)
  <2>1. CASE sendBuf = <<>>
    <3>1. SendNew(msg, sendBuf, bClose)
      BY <1>2, <2>1
    <3>. QED  BY <1>1, <1>2, <3>1, SendNewOutcome
  <2>2. CASE sendBuf # <<>>
    <3>1. PICK k \in SendResult(sendBuf) :
            IF k = -1 THEN NothingSent /\ Refused(<<>>, FALSE) /\ UNCHANGED drained
            ELSE IF k < Len(sendBuf)
            THEN Kept(msg, SubSeq(sendBuf, 1, k), SubSeq(sendBuf, k + 1, Len(sendBuf)), bClose)
            ELSE SendNew(msg, sendBuf, bClose)
      BY <1>2, <2>2 DEF WriteBuffered
    <3>2. k = -1 \/ k \in 0 .. Len(sendBuf)
      BY Taken DEF ClientInv, ClientTypeOK
    <3>3. CASE k = -1
      BY <1>2, <3>1, <3>3, NothingOutcome
    <3>4. CASE k \in 0 .. Len(sendBuf) /\ k < Len(sendBuf)
      <4>1. k # -1
        BY <3>4
      <4>. QED  BY <1>1, <1>2, <3>1, <3>4, <4>1, KeptOutcome
    <3>5. CASE k \in 0 .. Len(sendBuf) /\ ~(k < Len(sendBuf))
      <4>1. k # -1
        BY <3>5
      <4>. QED  BY <1>1, <1>2, <3>1, <3>5, <4>1, SendNewOutcome
    <3>. QED  BY <3>2, <3>3, <3>4, <3>5
  <2>. QED  BY <2>1, <2>2
<1>4. writes' \in Nat
  BY <1>2 DEF ClientInv, ClientTypeOK
<1>. QED  BY <1>2, <1>3, <1>4, OutcomeClientInv

LEMMA OnWriteStep == ASSUME ClientInv, OnWrite PROVE ClientInv'
<1>0. PICK k \in IF sendBuf = <<>> THEN {0} ELSE SendResult(sendBuf) :
        IF k = -1 THEN CloseClient /\ UNCHANGED <<sent, drained>>
        ELSE /\ sent' = sent \o SubSeq(sendBuf, 1, k)
             /\ IF k < Len(sendBuf)
                THEN StaysOpen(SubSeq(sendBuf, k + 1, Len(sendBuf)), watchWrite) /\ UNCHANGED drained
                ELSE IF bNeedClose THEN CloseClient /\ drained' = TRUE
                     ELSE StaysOpen(<<>>, "none") /\ UNCHANGED drained
  BY DEF OnWrite
<1>1. IF k = -1 THEN CloseClient /\ UNCHANGED <<sent, drained>>
      ELSE /\ sent' = sent \o SubSeq(sendBuf, 1, k)
           /\ IF k < Len(sendBuf)
              THEN StaysOpen(SubSeq(sendBuf, k + 1, Len(sendBuf)), watchWrite) /\ UNCHANGED drained
              ELSE IF bNeedClose THEN CloseClient /\ drained' = TRUE
                   ELSE StaysOpen(<<>>, "none") /\ UNCHANGED drained
  BY <1>0
<1>2. /\ watchWrite = "onWrite"
      /\ UNCHANGED <<dwMaxSendBufLen, bNeedClose, peerState, callback, told, unwatched, owed, torn, closeDue, writes>>
  BY DEF OnWrite
<1>3. ~IsClose /\ client # "none"
  BY <1>2 DEF ClientInv, Inert, IsClose
<1>4. CASE k = -1
  BY <1>1, <1>2, <1>3, <1>4, StepsOfClosing DEF history
<1>5. CASE k \in 0 .. Len(sendBuf)
  <2>. DEFINE first == SubSeq(sendBuf, 1, k)
              rest == SubSeq(sendBuf, k + 1, Len(sendBuf))
  <2>1. first \in Pieces /\ rest \in Pieces /\ Len(rest) = Len(sendBuf) - k
    BY <1>5, Cut DEF ClientInv, ClientTypeOK
  <2>2. (sent \o first) \o rest = sent \o sendBuf
    BY <1>5, KernelTakes DEF ClientInv, ClientTypeOK
  <2>3. ~torn => (sent \o first) \o rest = owed
    BY <1>3, <2>2 DEF ClientInv, WorkerWrites, WireInOrder
  <2>4. k # -1 /\ Len(sendBuf) \in Nat
    BY <1>5, LenProperties DEF ClientInv, ClientTypeOK, Pieces
  <2>. HIDE DEF first, rest
  <2>5. ~(k < Len(sendBuf)) => rest = <<>>
    BY <1>5, <2>1, <2>4, EmptySeq, LenProperties DEF Pieces
  <2>6. k < Len(sendBuf) => rest # <<>>
    BY <1>5, <2>1, <2>4, EmptySeq, LenProperties DEF Pieces
  <2>7. sent \o first \in Pieces
    BY <2>1, Together DEF ClientInv, ClientTypeOK
  <2>8. sent' = sent \o first
    BY <1>1, <2>4 DEF first
  <2>9. CASE k < Len(sendBuf) /\ StaysOpen(rest, watchWrite) /\ UNCHANGED drained
    <3>1. Outcome(bNeedClose)
      BY <1>2, <2>1, <2>3, <2>6, <2>7, <2>8, <2>9
         DEF Outcome, StaysOpen, ClientInv, ClientTypeOK, MarksAgree
    <3>. QED  BY <1>2, <1>3, <3>1, OutcomeClientInv DEF ClientInv, ClientTypeOK
  <2>10. CASE /\ ~(k < Len(sendBuf))
              /\ IF bNeedClose THEN CloseClient /\ drained' = TRUE
                 ELSE StaysOpen(<<>>, "none") /\ UNCHANGED drained
    <3>1. Outcome(bNeedClose)
      BY <1>2, <2>1, <2>3, <2>5, <2>7, <2>8, <2>10
         DEF Outcome, StaysOpen, CloseClient, ClientInv, ClientTypeOK, MarksAgree
    <3>. QED  BY <1>2, <1>3, <3>1, OutcomeClientInv DEF ClientInv, ClientTypeOK
  <2>. QED  BY <1>1, <2>4, <2>9, <2>10 DEF rest
<1>6. k = -1 \/ k \in 0 .. Len(sendBuf)
  <2>1. CASE sendBuf = <<>>
    BY <1>0, <2>1, EmptySeq
  <2>2. CASE sendBuf # <<>>
    BY <1>0, <2>2, Taken DEF ClientInv, ClientTypeOK
  <2>. QED  BY <2>1, <2>2
<1>. QED  BY <1>4, <1>5, <1>6

-----------------------------------------------------------------------------
LEMMA ClientInvNext == ClientInv /\ [ClientNext]_clientVars => ClientInv'
<1>. SUFFICES ASSUME ClientInv, [ClientNext]_clientVars PROVE ClientInv'
  OBVIOUS
<1>1. CASE ConnectNow \/ ConnectWaits \/ ConnectFails
  BY <1>1, ConnectStep
<1>2. CASE OnTcpConnect
  BY <1>2, OnTcpConnectStep
<1>3. CASE ConnectReturns
  BY <1>3, ConnectReturnsStep
<1>4. CASE \E bClose \in BOOLEAN : WorkerWrite(bClose)
  BY <1>4, WorkerWriteStep
<1>5. CASE OnWrite
  BY <1>5, OnWriteStep
<1>6. CASE AppCloses \/ ReadCloses
  BY <1>6, ClosesStep
<1>7. CASE PeerChanges
  BY <1>7, PeerChangesStep
<1>8. CASE UNCHANGED clientVars
  BY <1>8 DEF clientVars, ClientInv, ClientTypeOK, Inert, MarksAgree, IsClose, WorkerWrites, WireInOrder, QueueWatched,
       ClosedWhenDrained, Served
<1>. QED  BY <1>1, <1>2, <1>3, <1>4, <1>5, <1>6, <1>7, <1>8 DEF ClientNext

\* What is kept, what the kernel took and what was promised are sequences of
\* pieces, and the slot, its handlers and the callback have the values the code
\* gives them, whatever the size of the buffer and however often write is called.
THEOREM ClientTypeCorrect == ClientSpec => []ClientTypeOK
<1>1. ClientInv => ClientTypeOK
  BY DEF ClientInv
<1>. QED  BY <1>1, InitClientInv, ClientInvNext, PTL DEF ClientSpec

\* What writes promised goes out once and in order, what was left behind has its
\* handler, a client is closed as drained only with everything sent, and a client
\* that was told is read: CNetWorker's write, onWrite, onTcpConnect and close,
\* for a send buffer of any size and any number of writes.
THEOREM WritesInOrder == ClientSpec => []WorkerWrites
<1>1. ClientInv => WorkerWrites
  BY DEF ClientInv
<1>. QED  BY <1>1, InitClientInv, ClientInvNext, PTL DEF ClientSpec

-----------------------------------------------------------------------------
(* Connector.                                                              *)
Cell == Nat \X Nat
Got == IF Reading THEN gathering ELSE <<>>

ConnTypes ==
    /\ kind \in {"tcp", "udp"} /\ m_bConnect \in BOOLEAN /\ mixed \in BOOLEAN
    /\ lastSocket \in Nat /\ m_iFd \in 0 .. lastSocket /\ asked \in Nat
    /\ toServer \in Seq(Cell) /\ toClient \in Seq(Cell) /\ gathering \in Seq(Cell) /\ reply \in Seq(Cell)
    /\ Reading => kind = "tcp"

\* What is open is what is in use and what was written over, and those differ.
SocketsKept ==
    /\ overlaid \subseteq 1 .. lastSocket /\ m_iFd \notin overlaid
    /\ opened = overlaid \cup ({m_iFd} \ {NoFd})
    /\ kind = "tcp" => overlaid = {} /\ (m_bConnect => m_iFd # NoFd)

\* s is what follows the first `off` cells of the answer to request a.
Follows(s, a, off) == \A i \in 1 .. Len(s) : s[i] = <<a, off + i>>
Belongs(s, a) == \A i \in 1 .. Len(s) : s[i][1] = a

\* What was read, what readn has, what has come and what is still to come are the
\* answer, one after the other.
Stream(k, a, read, got, come, due) ==
    /\ Len(read) + Len(got) + Len(come) + Len(due) <= 2
    /\ IF k = "tcp"
       THEN /\ Follows(read, a, 0) /\ Follows(got, a, Len(read))
            /\ Follows(come, a, Len(read) + Len(got))
            /\ Follows(due, a, Len(read) + Len(got) + Len(come))
       ELSE Belongs(read, a) /\ Belongs(come, a) /\ Belongs(due, a) /\ got = <<>>

AnswerComes ==
    /\ asked = 0 => reply = <<>> /\ Got = <<>> /\ toClient = <<>> /\ toServer = <<>>
    /\ ~mixed => Stream(kind, asked, reply, Got, toClient, toServer)

ConnInv == ConnTypes /\ SocketsKept /\ AnswerComes

-----------------------------------------------------------------------------
(* Cutting and joining cells.                                              *)
LEMMA Split ==
    ASSUME NEW s \in Seq(Cell), NEW n \in 0 .. Len(s)
    PROVE  /\ SubSeq(s, 1, n) \in Seq(Cell) /\ Len(SubSeq(s, 1, n)) = n
           /\ \A i \in 1 .. n : SubSeq(s, 1, n)[i] = s[i]
           /\ SubSeq(s, n + 1, Len(s)) \in Seq(Cell) /\ Len(SubSeq(s, n + 1, Len(s))) = Len(s) - n
           /\ \A i \in 1 .. Len(s) - n : SubSeq(s, n + 1, Len(s))[i] = s[n + i]
<1> DEFINE a == SubSeq(s, 1, n)
           b == SubSeq(s, n + 1, Len(s))
<1>0. Len(s) \in Nat /\ n \in Int /\ n + 1 \in Int /\ \A i \in 1 .. Len(s) : s[i] \in Cell
  BY LenProperties, ElementOfSeq
<1>1. a \in Seq(Cell) /\ Len(a) = n /\ \A i \in 1 .. n : a[i] = s[i]
  <2>1. \A i \in 1 .. n : s[i] \in Cell
    BY <1>0
  <2> HIDE DEF a
  <2>2. a \in Seq(Cell) /\ Len(a) = (IF 1 <= n THEN n - 1 + 1 ELSE 0)
        /\ \A i \in 1 .. n - 1 + 1 : a[i] = s[1 + i - 1]
    BY <1>0, <2>1, SubSeqProperties DEF a
  <2> QED BY <1>0, <2>2
<1>2. b \in Seq(Cell) /\ Len(b) = Len(s) - n /\ \A i \in 1 .. Len(s) - n : b[i] = s[n + i]
  <2>1. \A i \in n + 1 .. Len(s) : s[i] \in Cell
    BY <1>0
  <2> HIDE DEF b
  <2>2. b \in Seq(Cell) /\ Len(b) = (IF n + 1 <= Len(s) THEN Len(s) - (n + 1) + 1 ELSE 0)
        /\ \A i \in 1 .. Len(s) - (n + 1) + 1 : b[i] = s[n + 1 + i - 1]
    BY <1>0, <2>1, SubSeqProperties DEF b
  <2>3. Len(b) = Len(s) - n
    BY <1>0, <2>2
  <2>4. ASSUME NEW i \in 1 .. Len(s) - n PROVE b[i] = s[n + i]
    <3>1. n + 1 + i - 1 = n + i /\ i \in 1 .. Len(s) - (n + 1) + 1
      BY <1>0
    <3>2. b[i] = s[n + 1 + i - 1]
      BY <2>2, <3>1
    <3> QED BY <3>1, <3>2
  <2> QED BY <2>2, <2>3, <2>4
<1> QED BY <1>1, <1>2

LEMMA Joined ==
    ASSUME NEW s \in Seq(Cell), NEW t \in Seq(Cell)
    PROVE  /\ s \o t \in Seq(Cell) /\ Len(s \o t) = Len(s) + Len(t)
           /\ \A i \in 1 .. Len(s) : (s \o t)[i] = s[i]
           /\ \A i \in 1 .. Len(t) : (s \o t)[Len(s) + i] = t[i]
<1> DEFINE u == s \o t
<1>0. Len(s) \in Nat /\ Len(t) \in Nat
  BY LenProperties
<1>1. u \in Seq(Cell) /\ Len(u) = Len(s) + Len(t)
      /\ \A i \in 1 .. Len(s) + Len(t) : u[i] = IF i <= Len(s) THEN s[i] ELSE t[i - Len(s)]
  BY ConcatProperties
<1> HIDE DEF u
<1>2. ASSUME NEW i \in 1 .. Len(t) PROVE u[Len(s) + i] = t[i]
  <2>1. Len(s) + i \in 1 .. Len(s) + Len(t) /\ ~(Len(s) + i <= Len(s)) /\ Len(s) + i - Len(s) = i
    BY <1>0
  <2>2. u[Len(s) + i] = t[Len(s) + i - Len(s)]
    BY <1>1, <2>1
  <2> QED BY <2>1, <2>2
<1>3. \A i \in 1 .. Len(s) : u[i] = s[i]
  BY <1>0, <1>1
<1> QED BY <1>1, <1>2, <1>3 DEF u

\* n cells of s go over to the end of r.
LEMMA Passes ==
    ASSUME NEW r \in Seq(Cell), NEW s \in Seq(Cell), NEW n \in 0 .. Len(s), NEW a \in Nat, NEW off \in Nat
    PROVE  LET q == r \o SubSeq(s, 1, n)
               t == SubSeq(s, n + 1, Len(s))
           IN  /\ q \in Seq(Cell) /\ t \in Seq(Cell)
               /\ Len(q) = Len(r) + n /\ Len(t) = Len(s) - n
               /\ Follows(r, a, off) /\ Follows(s, a, off + Len(r)) =>
                    Follows(q, a, off) /\ Follows(t, a, off + Len(r) + n)
<1> DEFINE h == SubSeq(s, 1, n)
           t == SubSeq(s, n + 1, Len(s))
           q == r \o h
<1>0. Len(r) \in Nat /\ Len(s) \in Nat
  BY LenProperties
<1>1. /\ h \in Seq(Cell) /\ Len(h) = n /\ \A i \in 1 .. n : h[i] = s[i]
      /\ t \in Seq(Cell) /\ Len(t) = Len(s) - n /\ \A i \in 1 .. Len(s) - n : t[i] = s[n + i]
  BY Split
<1> HIDE DEF h, t
<1>2. /\ q \in Seq(Cell) /\ Len(q) = Len(r) + n
      /\ \A i \in 1 .. Len(r) : q[i] = r[i]
      /\ \A i \in 1 .. n : q[Len(r) + i] = h[i]
  BY <1>1, Joined
<1> HIDE DEF q
<1>3. ASSUME Follows(r, a, off), Follows(s, a, off + Len(r))
      PROVE  Follows(q, a, off) /\ Follows(t, a, off + Len(r) + n)
  <2>1. ASSUME NEW i \in 1 .. Len(q) PROVE q[i] = <<a, off + i>>
    <3>1. CASE i <= Len(r)
      BY <1>0, <1>2, <1>3, <3>1 DEF Follows
    <3>2. CASE i > Len(r)
      <4>1. PICK j \in 1 .. n : i = Len(r) + j
        <5>1. i - Len(r) \in 1 .. n /\ i = Len(r) + (i - Len(r))
          BY <1>0, <1>2, <3>2
        <5> QED BY <5>1
      <4>2. q[i] = s[j] /\ j \in 1 .. Len(s)
        BY <1>0, <1>1, <1>2, <4>1
      <4>3. s[j] = <<a, off + Len(r) + j>>
        BY <1>3, <4>2 DEF Follows
      <4>4. off + Len(r) + j = off + i
        BY <1>0, <4>1
      <4> QED BY <4>2, <4>3, <4>4
    <3> QED BY <1>0, <1>2, <3>1, <3>2
  <2>2. ASSUME NEW i \in 1 .. Len(t) PROVE t[i] = <<a, off + Len(r) + n + i>>
    <3>1. t[i] = s[n + i] /\ n + i \in 1 .. Len(s)
      BY <1>0, <1>1
    <3>2. s[n + i] = <<a, off + Len(r) + (n + i)>>
      BY <1>3, <3>1 DEF Follows
    <3>3. off + Len(r) + (n + i) = off + Len(r) + n + i
      BY <1>0
    <3> QED BY <3>1, <3>2, <3>3
  <2> QED BY <2>1, <2>2 DEF Follows
<1> QED BY <1>1, <1>2, <1>3 DEF q, h, t

LEMMA NoCells ==
    /\ <<>> \in Seq(Cell) /\ NoReadn \in Seq(Cell) /\ Len(<<>>) = 0
    /\ \A a, off : Follows(<<>>, a, off) /\ Belongs(<<>>, a)
BY DEF Follows, Belongs, NoReadn, Cell

LEMMA AnswerCells ==
    ASSUME NEW a \in Nat
    PROVE  /\ Answer(a) \in Seq(Cell) /\ Len(Answer(a)) = 2
           /\ Follows(Answer(a), a, 0) /\ Belongs(Answer(a), a)
<1>1. Answer(a) \in Seq(Cell) /\ Len(Answer(a)) = 2 /\ Answer(a)[1] = <<a, 1>> /\ Answer(a)[2] = <<a, 2>>
  BY DEF Answer, Cell
<1>2. \A i \in 1 .. 2 : i = 1 \/ i = 2
  OBVIOUS
<1>3. 0 + 1 = 1 /\ 0 + 2 = 2
  OBVIOUS
<1> QED BY <1>1, <1>2, <1>3 DEF Follows, Belongs

LEMMA WholeAnswer ==
    ASSUME NEW k, NEW a \in Nat
    PROVE  Stream(k, a, <<>>, <<>>, <<>>, <<>>) /\ Stream(k, a, <<>>, <<>>, <<>>, Answer(a))
<1>1. Len(<<>>) = 0 /\ Len(<<>>) + Len(<<>>) = 0 /\ Len(<<>>) + Len(<<>>) + Len(<<>>) = 0
      /\ Len(<<>>) + Len(<<>>) + Len(<<>>) + Len(<<>>) <= 2
  BY NoCells
<1>2. Len(<<>>) + Len(<<>>) + Len(<<>>) + Len(Answer(a)) <= 2
  <2>1. Len(Answer(a)) = 2
    BY AnswerCells
  <2> QED BY <1>1, <2>1
<1>3. Follows(Answer(a), a, Len(<<>>) + Len(<<>>) + Len(<<>>)) /\ Belongs(Answer(a), a)
  BY <1>1, AnswerCells
<1> QED BY <1>1, <1>2, <1>3, NoCells DEF Stream

LEMMA FollowsIsPrefix ==
    ASSUME NEW s \in Seq(Cell), NEW a \in Nat, Len(s) <= 2, Follows(s, a, 0)
    PROVE  IsPrefix(s, Answer(a))
<1> DEFINE t == Answer(a)
           n == Len(s)
<1>0. n \in Nat /\ n \in 0 .. n /\ n \in 0 .. 2
  <2>1. n \in Nat /\ n <= 2
    BY LenProperties
  <2> HIDE DEF n
  <2> QED BY <2>1
<1>1. t \in Seq(Cell) /\ Len(t) = 2 /\ Follows(t, a, 0)
  BY AnswerCells
<1> HIDE DEF t
<1>2. SubSeq(s, 1, n) \in Seq(Cell) /\ Len(SubSeq(s, 1, n)) = n /\ \A i \in 1 .. n : SubSeq(s, 1, n)[i] = s[i]
  BY <1>0, Split
<1>3. SubSeq(t, 1, n) \in Seq(Cell) /\ Len(SubSeq(t, 1, n)) = n /\ \A i \in 1 .. n : SubSeq(t, 1, n)[i] = t[i]
  BY <1>0, <1>1, Split
<1>4. ASSUME NEW i \in 1 .. n PROVE s[i] = t[i]
  <2>1. i \in 1 .. Len(t)
    BY <1>0, <1>1
  <2>2. t[i] = <<a, 0 + i>>
    BY <1>1, <2>1 DEF Follows
  <2>3. s[i] = <<a, 0 + i>>
    BY DEF Follows
  <2> QED BY <2>2, <2>3
<1> HIDE DEF n
<1>5. SubSeq(s, 1, n) = SubSeq(t, 1, n)
  BY <1>2, <1>3, <1>4, SeqEqual
<1> QED BY <1>0, <1>1, <1>5 DEF IsPrefix, n, t

-----------------------------------------------------------------------------
(* Steps that make or drop a socket.                                       *)
LEMMA StreamBegins ==
    ASSUME gathering' = NoReadn, toClient' = <<>>, reply' = <<>>, asked' \in Nat,
           toServer' = <<>> \/ (asked' # 0 /\ toServer' = Answer(asked'))
    PROVE  AnswerComes'
<1>1. Got' = <<>> /\ Len(<<>>) = 0
  BY DEF Got, Reading
<1>2. Stream(kind', asked', <<>>, <<>>, <<>>, <<>>) /\ Stream(kind', asked', <<>>, <<>>, <<>>, Answer(asked'))
  BY WholeAnswer
<1> QED BY <1>1, <1>2 DEF AnswerComes

LEMMA TcpConnects ==
    ASSUME ConnInv, kind = "tcp", UNCHANGED <<kind, overlaid>>, NEW requested,
           (\E waited \in BOOLEAN : Connected(waited, requested)) \/ ConnectFailed
    PROVE  /\ SocketsKept' /\ gathering' = NoReadn /\ toClient' = <<>> /\ toServer' \in {<<>>, requested}
           /\ m_bConnect' \in BOOLEAN /\ mixed' \in BOOLEAN /\ lastSocket' \in Nat /\ m_iFd' \in 0 .. lastSocket'
<1>0. lastSocket \in Nat /\ m_iFd \in 0 .. lastSocket /\ overlaid = {} /\ opened = {m_iFd} \ {NoFd}
  BY DEF ConnInv, ConnTypes, SocketsKept
<1>1. Closing = {}
  BY <1>0 DEF Closing
<1>2. ASSUME NEW waited \in BOOLEAN, Connected(waited, requested)
      PROVE  /\ SocketsKept' /\ gathering' = NoReadn /\ toClient' = <<>> /\ toServer' = requested
             /\ m_bConnect' \in BOOLEAN /\ mixed' \in BOOLEAN /\ lastSocket' \in Nat /\ m_iFd' \in 0 .. lastSocket'
  <2>1. /\ m_iFd' = lastSocket + 1 /\ m_bConnect' = waited /\ opened' = {lastSocket + 1}
        /\ lastSocket + 1 # NoFd /\ lastSocket' = lastSocket + 1
    BY <1>0, <1>1, <1>2 DEF Connected, OnSocket, NoFd
  <2>2. gathering' = NoReadn /\ toClient' = <<>> /\ toServer' = requested /\ mixed' \in BOOLEAN
    BY <1>2 DEF Connected, OnSocket
  <2>3. SocketsKept'
    BY <1>0, <2>1 DEF SocketsKept
  <2> QED BY <1>0, <2>1, <2>2, <2>3
<1>3. CASE ConnectFailed
  <2>1. m_iFd' = NoFd /\ m_bConnect' = FALSE /\ opened' = {} /\ lastSocket' = lastSocket
    BY <1>1, <1>3 DEF ConnectFailed, OnSocket
  <2>2. gathering' = NoReadn /\ toClient' = <<>> /\ toServer' = <<>> /\ mixed' \in BOOLEAN
    BY <1>3 DEF ConnectFailed, OnSocket
  <2>3. SocketsKept'
    BY <1>0, <2>1 DEF SocketsKept
  <2>4. m_iFd' \in 0 .. lastSocket' /\ lastSocket' \in Nat
    BY <1>0, <2>1 DEF NoFd
  <2> QED BY <2>1, <2>2, <2>3, <2>4
<1> QED BY <1>2, <1>3

LEMMA Closes ==
    ASSUME ConnInv, UNCHANGED <<kind, overlaid>>, Close(<<>>)
    PROVE  /\ SocketsKept' /\ gathering' = NoReadn /\ toClient' = <<>> /\ toServer' = <<>>
           /\ m_bConnect' \in BOOLEAN /\ mixed' = mixed /\ lastSocket' \in Nat /\ m_iFd' \in 0 .. lastSocket'
<1>0. lastSocket \in Nat /\ m_iFd \in 0 .. lastSocket /\ opened \ {m_iFd} = overlaid \ {NoFd} /\ overlaid \subseteq 1 .. lastSocket
      /\ mixed \in BOOLEAN
  BY DEF ConnInv, ConnTypes, SocketsKept, NoFd
<1>1. m_iFd' = NoFd /\ m_bConnect' = FALSE /\ opened' = opened \ {m_iFd} /\ lastSocket' = lastSocket
      /\ gathering' = NoReadn /\ toClient' = <<>> /\ toServer' = <<>> /\ mixed' = mixed
  BY <1>0 DEF Close, OnSocket
<1>2. NoFd \notin overlaid
  BY <1>0 DEF NoFd
<1>3. SocketsKept'
  BY <1>0, <1>1, <1>2 DEF SocketsKept, ConnInv
<1>4. m_iFd' \in 0 .. lastSocket' /\ lastSocket' \in Nat
  BY <1>0, <1>1 DEF NoFd
<1> QED BY <1>1, <1>3, <1>4

LEMMA TcpConnectStep == ASSUME ConnInv, TcpConnect PROVE ConnInv'
<1>1. /\ kind = "tcp" /\ UNCHANGED <<kind, overlaid>> /\ asked' = 0 /\ reply' = <<>>
      /\ (\E waited \in BOOLEAN : Connected(waited, <<>>)) \/ ConnectFailed
  BY DEF TcpConnect
<1>2. /\ SocketsKept' /\ gathering' = NoReadn /\ toClient' = <<>> /\ toServer' \in {<<>>, <<>>}
      /\ m_bConnect' \in BOOLEAN /\ mixed' \in BOOLEAN /\ lastSocket' \in Nat /\ m_iFd' \in 0 .. lastSocket'
  BY <1>1, TcpConnects
<1>3. AnswerComes'
  BY <1>1, <1>2, StreamBegins
<1>4. ConnTypes'
  BY <1>1, <1>2, NoCells DEF ConnTypes, Reading, ConnInv
<1> QED BY <1>2, <1>3, <1>4 DEF ConnInv

LEMMA TcpWriteConnectsStep == ASSUME ConnInv, TcpWriteConnects PROVE ConnInv'
<1>0. asked \in Nat
  BY DEF ConnInv, ConnTypes
<1>1. /\ kind = "tcp" /\ UNCHANGED <<kind, overlaid>> /\ asked' = asked + 1 /\ reply' = <<>>
      /\ (\E waited \in BOOLEAN : Connected(waited, Answer(asked + 1))) \/ ConnectFailed
  BY DEF TcpWriteConnects, Asks
<1>2. /\ SocketsKept' /\ gathering' = NoReadn /\ toClient' = <<>> /\ toServer' \in {<<>>, Answer(asked + 1)}
      /\ m_bConnect' \in BOOLEAN /\ mixed' \in BOOLEAN /\ lastSocket' \in Nat /\ m_iFd' \in 0 .. lastSocket'
  BY <1>1, TcpConnects
<1>3. AnswerComes'
  BY <1>0, <1>1, <1>2, StreamBegins
<1>4. Answer(asked + 1) \in Seq(Cell)
  BY <1>0, AnswerCells
<1>5. toServer' \in Seq(Cell) /\ toClient' \in Seq(Cell) /\ gathering' \in Seq(Cell) /\ reply' \in Seq(Cell) /\ ~Reading'
  <2>1. \A s \in {<<>>, Answer(asked + 1)} : s \in Seq(Cell)
    BY <1>4, NoCells
  <2>2. toServer' \in Seq(Cell)
    BY <1>2, <2>1
  <2> QED BY <1>1, <1>2, <2>2, NoCells DEF Reading
<1>6. asked' \in Nat /\ kind' \in {"tcp", "udp"}
  BY <1>0, <1>1
<1>7. ConnTypes'
  BY <1>2, <1>5, <1>6 DEF ConnTypes
<1> QED BY <1>2, <1>3, <1>7 DEF ConnInv

\* A caller that has its whole answer, or none to come, finds nothing left over.
LEMMA SendWorksDoes ==
    ASSUME ConnInv, SendWorks, Asks, ~Reading, UNCHANGED <<kind, overlaid>> PROVE ConnInv'
<1>0. /\ asked \in Nat /\ asked' = asked + 1 /\ asked' # 0 /\ reply' = <<>> /\ toServer \in Seq(Cell) /\ toClient \in Seq(Cell)
      /\ reply \in Seq(Cell) /\ Len(toServer) \in Nat /\ Len(toClient) \in Nat /\ Len(reply) \in Nat
  BY LenProperties DEF ConnInv, ConnTypes, Asks
<1>1. /\ toServer' = IF peer = "up" THEN toServer \o Answer(asked + 1) ELSE <<>>
      /\ mixed' = (mixed \/ (asked # 0 /\ reply # Answer(asked)))
      /\ UNCHANGED <<m_iFd, m_bConnect, opened, lastSocket, peer, toClient, gathering>>
  BY DEF SendWorks
<1>2. Answer(asked + 1) \in Seq(Cell) /\ toServer' \in Seq(Cell)
  BY <1>0, <1>1, AnswerCells, Joined, NoCells
<1>3. SocketsKept'
  BY <1>1 DEF ConnInv, SocketsKept
<1>4. ConnTypes'
  BY <1>0, <1>1, <1>2, NoCells DEF ConnInv, ConnTypes, Reading
<1>5. ASSUME ~mixed' PROVE toClient = <<>> /\ toServer = <<>>
  <2>1. ~mixed /\ (asked = 0 \/ reply = Answer(asked))
    BY <1>1, <1>5
  <2>2. CASE asked = 0
    BY <2>2 DEF ConnInv, AnswerComes
  <2>3. CASE reply = Answer(asked)
    <3>1. Len(reply) = 2
      BY <1>0, <2>3, AnswerCells
    <3>2. Got = <<>> /\ Len(<<>>) = 0
      BY DEF Got
    <3>3. Len(reply) + 0 + Len(toClient) + Len(toServer) <= 2
      BY <2>1, <3>2 DEF ConnInv, AnswerComes, Stream
    <3>4. Len(toClient) = 0 /\ Len(toServer) = 0
      BY <1>0, <3>1, <3>3
    <3> QED BY <1>0, <3>4, EmptySeq
  <2> QED BY <2>1, <2>2, <2>3
<1>6. AnswerComes'
  <2>1. Got' = <<>>
    BY <1>1 DEF Got, Reading
  <2>2. ASSUME ~mixed' PROVE Stream(kind, asked', <<>>, <<>>, toClient', toServer')
    <3>1. toClient' = <<>> /\ (toServer' = <<>> \/ toServer' = <<>> \o Answer(asked'))
      BY <1>0, <1>1, <1>5, <2>2
    <3>2. <<>> \o Answer(asked') = Answer(asked')
      BY <1>0, <1>2, ConcatEmptySeq
    <3>3. Stream(kind, asked', <<>>, <<>>, <<>>, <<>>) /\ Stream(kind, asked', <<>>, <<>>, <<>>, Answer(asked'))
      BY <1>0, WholeAnswer
    <3> QED BY <3>1, <3>2, <3>3
  <2> QED BY <1>0, <2>1, <2>2 DEF AnswerComes
<1> QED BY <1>3, <1>4, <1>6 DEF ConnInv

LEMMA TcpWriteStep == ASSUME ConnInv, TcpWrite PROVE ConnInv'
<1>1. CASE SendWorks
  BY <1>1, SendWorksDoes DEF TcpWrite
<1>2. CASE Close(<<>>)
  <2>0. asked \in Nat /\ mixed \in BOOLEAN /\ asked' = asked + 1 /\ reply' = <<>> /\ UNCHANGED <<kind, overlaid>>
        /\ kind = "tcp"
    BY DEF ConnInv, ConnTypes, TcpWrite, Asks
  <2>1. /\ SocketsKept' /\ gathering' = NoReadn /\ toClient' = <<>> /\ toServer' = <<>>
        /\ m_bConnect' \in BOOLEAN /\ mixed' = mixed /\ lastSocket' \in Nat /\ m_iFd' \in 0 .. lastSocket'
    BY <1>2, <2>0, Closes
  <2>2. AnswerComes'
    BY <2>0, <2>1, StreamBegins
  <2>3. ConnTypes'
    BY <2>0, <2>1, NoCells DEF ConnTypes, Reading, ConnInv
  <2> QED BY <2>1, <2>2, <2>3 DEF ConnInv
<1> QED BY <1>1, <1>2 DEF TcpWrite

LEMMA UdpWriteStep == ASSUME ConnInv, UdpWrite PROVE ConnInv'
<1>1. ~Reading
  BY DEF UdpWrite, ConnInv, ConnTypes
<1> QED BY <1>1, SendWorksDoes DEF UdpWrite

LEMMA CloseCalledStep == ASSUME ConnInv, CloseCalled PROVE ConnInv'
<1>0. asked' = 0 /\ reply' = <<>> /\ Close(<<>>) /\ UNCHANGED <<kind, overlaid>> /\ mixed \in BOOLEAN
      /\ kind \in {"tcp", "udp"}
  BY DEF CloseCalled, ConnInv, ConnTypes
<1>1. /\ SocketsKept' /\ gathering' = NoReadn /\ toClient' = <<>> /\ toServer' = <<>>
      /\ m_bConnect' \in BOOLEAN /\ mixed' = mixed /\ lastSocket' \in Nat /\ m_iFd' \in 0 .. lastSocket'
  BY <1>0, Closes
<1>2. AnswerComes'
  BY <1>0, <1>1, StreamBegins
<1>3. ConnTypes'
  BY <1>0, <1>1, NoCells DEF ConnTypes, Reading, ConnInv
<1> QED BY <1>1, <1>2, <1>3 DEF ConnInv

LEMMA UdpConnectStep == ASSUME ConnInv, UdpConnect PROVE ConnInv'
<1>0. /\ kind = "udp" /\ kind' = kind /\ asked' = 0 /\ reply' = <<>> /\ overlaid' = overlaid \cup ({m_iFd} \ {NoFd})
      /\ lastSocket \in Nat /\ m_iFd \in 0 .. lastSocket /\ m_bConnect \in BOOLEAN
      /\ opened = overlaid \cup ({m_iFd} \ {NoFd}) /\ overlaid \subseteq 1 .. lastSocket
  BY DEF UdpConnect, ConnInv, ConnTypes, SocketsKept
<1>1. PICK fd \in {lastSocket + 1, NoFd}, connected \in BOOLEAN :
          OnSocket(fd, connected, IF fd = NoFd THEN opened ELSE opened \cup {fd}, <<>>)
  <2>1. lastSocket + 1 # NoFd
    BY <1>0 DEF NoFd
  <2> QED BY <1>0, <2>1 DEF UdpConnect
<1>2. /\ m_iFd' = fd /\ m_bConnect' \in BOOLEAN /\ opened' = (IF fd = NoFd THEN opened ELSE opened \cup {fd})
      /\ lastSocket' = (IF fd = NoFd THEN lastSocket ELSE fd)
      /\ gathering' = NoReadn /\ toClient' = <<>> /\ toServer' = <<>> /\ mixed' \in BOOLEAN
  BY <1>1 DEF OnSocket
<1>3. lastSocket' \in Nat /\ m_iFd' \in 0 .. lastSocket' /\ overlaid' \subseteq 1 .. lastSocket' /\ m_iFd' \notin overlaid'
  BY <1>0, <1>2 DEF NoFd
<1>4. SocketsKept'
  BY <1>0, <1>2, <1>3 DEF SocketsKept
<1>5. AnswerComes'
  BY <1>0, <1>2, StreamBegins
<1>6. ConnTypes'
  BY <1>0, <1>2, <1>3, NoCells DEF ConnTypes, Reading, ConnInv
<1> QED BY <1>4, <1>5, <1>6 DEF ConnInv

-----------------------------------------------------------------------------
(* Steps that read, and the other side's.                                  *)
LEMMA Bounds ==
    ASSUME ConnInv
    PROVE  /\ asked \in Nat /\ mixed \in BOOLEAN /\ kind \in {"tcp", "udp"}
           /\ toServer \in Seq(Cell) /\ toClient \in Seq(Cell) /\ reply \in Seq(Cell) /\ Got \in Seq(Cell)
           /\ Len(toServer) \in Nat /\ Len(toClient) \in Nat /\ Len(reply) \in Nat /\ Len(Got) \in Nat
<1>1. /\ asked \in Nat /\ mixed \in BOOLEAN /\ kind \in {"tcp", "udp"}
      /\ toServer \in Seq(Cell) /\ toClient \in Seq(Cell) /\ reply \in Seq(Cell) /\ gathering \in Seq(Cell)
  BY DEF ConnInv, ConnTypes
<1>2. Got \in Seq(Cell)
  BY <1>1, NoCells DEF Got
<1> QED BY <1>1, <1>2, LenProperties

\* A sequence of which some cells are taken is empty when it was.
LEMMA NoneOfNone ==
    ASSUME NEW s \in Seq(Cell), NEW n \in 0 .. Len(s), s = <<>>
    PROVE  n = 0 /\ SubSeq(s, 1, n) = <<>> /\ SubSeq(s, n + 1, Len(s)) = <<>>
<1>1. n = 0
  OBVIOUS
<1>2. /\ SubSeq(s, 1, n) \in Seq(Cell) /\ Len(SubSeq(s, 1, n)) = n
      /\ SubSeq(s, n + 1, Len(s)) \in Seq(Cell) /\ Len(SubSeq(s, n + 1, Len(s))) = Len(s) - n
  BY Split
<1> DEFINE a == SubSeq(s, 1, n)
           b == SubSeq(s, n + 1, Len(s))
<1>3. a \in Seq(Cell) /\ Len(a) = 0 /\ b \in Seq(Cell) /\ Len(b) = 0
  BY <1>1, <1>2
<1> HIDE DEF a, b
<1>4. a = <<>> /\ b = <<>>
  BY <1>3, EmptySeq
<1> QED BY <1>1, <1>4 DEF a, b

LEMMA TcpReadStep == ASSUME ConnInv, NEW n \in 1 .. 2, TcpRead(n) PROVE ConnInv'
<1> DEFINE t == SubSeq(toClient, n + 1, Len(toClient))
           q == reply \o SubSeq(toClient, 1, n)
<1>0. /\ kind = "tcp" /\ ~Reading /\ n \in 0 .. Len(toClient) /\ toClient' = t /\ reply' = q
      /\ UNCHANGED <<kind, m_iFd, m_bConnect, opened, lastSocket, peer, toServer, gathering, asked, mixed, overlaid>>
  BY Bounds DEF TcpRead, Readable
<1>1. /\ q \in Seq(Cell) /\ t \in Seq(Cell) /\ Len(q) = Len(reply) + n /\ Len(t) = Len(toClient) - n
      /\ Follows(reply, asked, 0) /\ Follows(toClient, asked, 0 + Len(reply)) =>
           Follows(q, asked, 0) /\ Follows(t, asked, 0 + Len(reply) + n)
  <2>1. 0 \in Nat
    OBVIOUS
  <2> QED BY <1>0, <2>1, Bounds, Passes, ZenonT(30)
<1> HIDE DEF t, q
<1>2. Got = <<>> /\ Got' = <<>> /\ Len(<<>>) = 0 /\ \A off : Follows(<<>>, asked, off)
  BY <1>0, NoCells DEF Got, Reading
<1>3. asked # 0
  <2>1. asked = 0 => toClient = <<>>
    BY DEF ConnInv, AnswerComes
  <2>2. Len(toClient) > 0
    BY <1>0, Bounds
  <2> QED BY <1>2, <2>1, <2>2
<1>4. ASSUME ~mixed PROVE Stream("tcp", asked, q, <<>>, t, toServer)
  <2>1. Stream("tcp", asked, reply, <<>>, toClient, toServer)
    BY <1>0, <1>2, <1>4 DEF ConnInv, AnswerComes
  <2>2. /\ Len(reply) + 0 + Len(toClient) + Len(toServer) <= 2 /\ Follows(reply, asked, 0)
        /\ Follows(toClient, asked, Len(reply) + 0) /\ Follows(toServer, asked, Len(reply) + 0 + Len(toClient))
    BY <1>2, <2>1 DEF Stream
  <2>3. /\ Len(reply) + 0 = 0 + Len(reply) /\ 0 + Len(reply) + n = Len(q) + 0
        /\ Len(q) + 0 + Len(t) = Len(reply) + 0 + Len(toClient)
        /\ Len(q) + 0 + Len(t) + Len(toServer) <= 2
    BY <1>1, <2>2, Bounds
  <2>4. Follows(q, asked, 0) /\ Follows(t, asked, Len(q) + 0) /\ Follows(toServer, asked, Len(q) + 0 + Len(t))
    BY <1>1, <2>2, <2>3
  <2> QED BY <1>2, <2>3, <2>4 DEF Stream
<1>5. AnswerComes'
  BY <1>0, <1>2, <1>3, <1>4 DEF AnswerComes
<1>6. ConnTypes' /\ SocketsKept'
  BY <1>0, <1>1 DEF ConnInv, ConnTypes, SocketsKept, Reading
<1> QED BY <1>5, <1>6 DEF ConnInv

LEMMA ReadnReceivesStep == ASSUME ConnInv, NEW n \in 1 .. 2, ReadnReceives(n) PROVE ConnInv'
<1> DEFINE t == SubSeq(toClient, n + 1, Len(toClient))
           q == gathering \o SubSeq(toClient, 1, n)
<1>0. /\ kind = "tcp" /\ Reading /\ n \in 0 .. Len(toClient) /\ Got = gathering /\ toClient' = t
      /\ IF Len(q) = 2 THEN gathering' = NoReadn /\ reply' = reply \o q ELSE gathering' = q /\ UNCHANGED reply
      /\ UNCHANGED <<kind, m_iFd, m_bConnect, opened, lastSocket, peer, toServer, asked, mixed, overlaid>>
  BY Bounds DEF ReadnReceives, ConnInv, ConnTypes, Got
<1>1. /\ q \in Seq(Cell) /\ t \in Seq(Cell) /\ Len(q) = Len(gathering) + n /\ Len(t) = Len(toClient) - n
      /\ Follows(gathering, asked, Len(reply)) /\ Follows(toClient, asked, Len(reply) + Len(gathering)) =>
           Follows(q, asked, Len(reply)) /\ Follows(t, asked, Len(reply) + Len(gathering) + n)
  <2>1. gathering \in Seq(Cell) /\ toClient \in Seq(Cell) /\ asked \in Nat /\ Len(reply) \in Nat
    BY <1>0, Bounds
  <2>2. n \in 0 .. Len(toClient)
    BY <1>0
  <2> HIDE DEF t, q
  <2> QED BY <2>1, <2>2, Passes DEF t, q
<1> HIDE DEF t, q
<1>2. asked # 0
  <2>1. asked = 0 => toClient = <<>>
    BY DEF ConnInv, AnswerComes
  <2>2. Len(toClient) > 0
    BY <1>0, Bounds
  <2> QED BY <2>1, <2>2, NoCells
<1>3. /\ reply \o q \in Seq(Cell) /\ Len(reply \o q) = Len(reply) + Len(q)
      /\ \A i \in 1 .. Len(reply) : (reply \o q)[i] = reply[i]
      /\ \A i \in 1 .. Len(q) : (reply \o q)[Len(reply) + i] = q[i]
  BY <1>1, Bounds, Joined
<1>4. ASSUME ~mixed
      PROVE  /\ Follows(reply, asked, 0) /\ Follows(q, asked, Len(reply)) /\ Follows(t, asked, Len(reply) + Len(q))
             /\ Follows(toServer, asked, Len(reply) + Len(q) + Len(t))
             /\ Len(reply) + Len(q) + Len(t) + Len(toServer) <= 2
  <2>1. Stream("tcp", asked, reply, gathering, toClient, toServer)
    BY <1>0, <1>4 DEF ConnInv, AnswerComes
  <2>2. /\ Len(reply) + Len(gathering) + Len(toClient) + Len(toServer) <= 2
        /\ Follows(reply, asked, 0) /\ Follows(gathering, asked, Len(reply))
        /\ Follows(toClient, asked, Len(reply) + Len(gathering))
        /\ Follows(toServer, asked, Len(reply) + Len(gathering) + Len(toClient))
    BY <2>1 DEF Stream
  <2>3. /\ Len(reply) + Len(gathering) + n = Len(reply) + Len(q)
        /\ Len(reply) + Len(gathering) + Len(toClient) = Len(reply) + Len(q) + Len(t)
        /\ Len(reply) + Len(q) + Len(t) + Len(toServer) <= 2
    BY <1>0, <1>1, <2>2, Bounds
  <2> QED BY <1>1, <2>2, <2>3
<1>5. CASE Len(q) = 2
  <2>1. gathering' = NoReadn /\ reply' = reply \o q /\ Got' = <<>> /\ ~Reading'
    BY <1>0, <1>5 DEF Got, Reading
  <2> DEFINE r == reply \o q
  <2>2. ASSUME ~mixed PROVE Stream("tcp", asked, r, <<>>, t, toServer)
    <3>0. /\ r \in Seq(Cell) /\ Len(r) = Len(reply) + Len(q)
          /\ \A i \in 1 .. Len(reply) : r[i] = reply[i]
          /\ \A i \in 1 .. Len(q) : r[Len(reply) + i] = q[i]
      BY <1>3
    <3> HIDE DEF r
    <3>1. Len(reply) = 0 /\ Len(t) = 0 /\ Len(toServer) = 0
      <4>1. Len(t) \in Nat
        BY <1>1, LenProperties
      <4>2. Len(reply) \in Nat /\ Len(toServer) \in Nat
        BY Bounds
      <4>3. Len(reply) + 2 + Len(t) + Len(toServer) <= 2
        BY <1>4, <1>5, <2>2
      <4> QED BY <4>1, <4>2, <4>3
    <3>2. \A i \in 1 .. Len(q) : 0 + i = i
      BY <1>5
    <3>3. Follows(r, asked, 0)
      BY <1>4, <1>5, <2>2, <3>0, <3>1, <3>2 DEF Follows
    <3>4. \A off : Follows(t, asked, off) /\ Follows(toServer, asked, off)
      BY <3>1 DEF Follows
    <3>5. Len(r) + 0 + Len(t) + Len(toServer) <= 2
      BY <1>5, <3>0, <3>1
    <3> QED BY <3>3, <3>4, <3>5, NoCells DEF Stream
  <2>3. AnswerComes'
    BY <1>0, <1>2, <2>1, <2>2 DEF AnswerComes
  <2>4. ConnTypes' /\ SocketsKept'
    BY <1>0, <1>1, <1>3, <2>1, NoCells DEF ConnInv, ConnTypes, SocketsKept
  <2> QED BY <2>3, <2>4 DEF ConnInv
<1>6. CASE Len(q) # 2
  <2>1. gathering' = q /\ reply' = reply
    BY <1>0, <1>6
  <2>2. ~mixed => Got' = q
    <3> SUFFICES ASSUME ~mixed PROVE q # NoReadn
      BY <2>1 DEF Got, Reading
    <3>1. 1 \in 1 .. Len(q)
      BY <1>0, <1>1, Bounds
    <3>2. q[1] = <<asked, Len(reply) + 1>>
      BY <1>4, <3>1 DEF Follows
    <3>3. Len(reply) + 1 # 0
      BY Bounds
    <3>4. q[1] # <<0, 0>>
      BY <3>2, <3>3
    <3> QED BY <3>4 DEF NoReadn
  <2>3. ~mixed => Stream("tcp", asked, reply, q, t, toServer)
    BY <1>4 DEF Stream
  <2>4. AnswerComes'
    BY <1>0, <1>2, <2>1, <2>2, <2>3 DEF AnswerComes
  <2>5. ConnTypes' /\ SocketsKept'
    BY <1>0, <1>1, <2>1 DEF ConnInv, ConnTypes, SocketsKept
  <2> QED BY <2>4, <2>5 DEF ConnInv
<1> QED BY <1>5, <1>6

LEMMA Follow ==
    ASSUME NEW r \in Seq(Cell), NEW s \in Seq(Cell), NEW a \in Nat, Follows(r, a, 0), Follows(s, a, Len(r))
    PROVE  r \o s \in Seq(Cell) /\ Len(r \o s) = Len(r) + Len(s) /\ Follows(r \o s, a, 0)
<1> DEFINE q == r \o s
<1>0. Len(r) \in Nat /\ Len(s) \in Nat
  BY LenProperties
<1>1. /\ q \in Seq(Cell) /\ Len(q) = Len(r) + Len(s)
      /\ \A i \in 1 .. Len(r) : q[i] = r[i]
      /\ \A i \in 1 .. Len(s) : q[Len(r) + i] = s[i]
  BY Joined
<1> HIDE DEF q
<1>2. ASSUME NEW i \in 1 .. Len(q) PROVE q[i] = <<a, 0 + i>>
  <2>1. CASE i <= Len(r)
    BY <1>0, <1>1, <2>1 DEF Follows
  <2>2. CASE i > Len(r)
    <3>1. PICK j \in 1 .. Len(s) : i = Len(r) + j
      <4>1. i - Len(r) \in 1 .. Len(s) /\ i = Len(r) + (i - Len(r))
        BY <1>0, <1>1, <2>2
      <4> QED BY <4>1
    <3>2. q[i] = s[j] /\ s[j] = <<a, Len(r) + j>>
      BY <1>1, <3>1 DEF Follows
    <3>3. Len(r) + j = 0 + i
      BY <1>0, <3>1
    <3> QED BY <3>2, <3>3
  <2> QED BY <1>0, <1>1, <2>1, <2>2
<1> QED BY <1>1, <1>2 DEF Follows, q

\* What is lost on the way takes nothing from what was read.
LEMMA LessComes ==
    ASSUME NEW k, NEW a \in Nat, NEW r \in Seq(Cell), NEW g \in Seq(Cell), NEW c \in Seq(Cell), NEW d \in Seq(Cell),
           Stream(k, a, r, g, c, d)
    PROVE  Stream(k, a, r, g, c, <<>>) /\ Stream(k, a, r, g, <<>>, <<>>)
<1>0. Len(r) \in Nat /\ Len(g) \in Nat /\ Len(c) \in Nat /\ Len(d) \in Nat /\ Len(<<>>) = 0
  BY LenProperties, NoCells
<1>1. Len(r) + Len(g) + Len(c) + Len(d) <= 2
  BY DEF Stream
<1>2. Len(r) + Len(g) + Len(c) + 0 <= 2 /\ Len(r) + Len(g) + 0 + 0 <= 2
  BY <1>0, <1>1
<1> QED BY <1>0, <1>2, NoCells DEF Stream

LEMMA TcpReadEndStep == ASSUME ConnInv, TcpReadEnd PROVE ConnInv'
<1>0. kind = "tcp" /\ ~Reading /\ toClient = <<>> /\ Got = <<>> /\ UNCHANGED <<kind, asked, reply, overlaid>>
  BY DEF TcpReadEnd, Readable, Got
<1>1. CASE Close(<<>>)
  <2>1. /\ SocketsKept' /\ gathering' = NoReadn /\ toClient' = <<>> /\ toServer' = <<>>
        /\ m_bConnect' \in BOOLEAN /\ mixed' = mixed /\ lastSocket' \in Nat /\ m_iFd' \in 0 .. lastSocket'
    BY <1>0, <1>1, Closes
  <2>2. Got' = <<>>
    BY <2>1 DEF Got, Reading
  <2>3. ~mixed => Stream(kind, asked, reply, <<>>, <<>>, <<>>)
    <3> SUFFICES ASSUME ~mixed PROVE Stream(kind, asked, reply, Got, <<>>, <<>>)
      BY <1>0
    <3>1. Stream(kind, asked, reply, Got, toClient, toServer)
      BY DEF ConnInv, AnswerComes
    <3> QED BY <3>1, Bounds, LessComes
  <2>4. AnswerComes'
    <3>1. asked = 0 => reply = <<>>
      BY DEF ConnInv, AnswerComes
    <3> QED BY <1>0, <2>1, <2>2, <2>3, <3>1 DEF AnswerComes
  <2>5. ConnTypes'
    <3>1. asked' \in Nat /\ reply' \in Seq(Cell) /\ mixed' \in BOOLEAN /\ kind' \in {"tcp", "udp"}
      BY <1>0, <2>1, Bounds
    <3>2. toServer' \in Seq(Cell) /\ toClient' \in Seq(Cell) /\ gathering' \in Seq(Cell) /\ ~Reading'
      BY <2>1, NoCells DEF Reading
    <3> QED BY <2>1, <3>1, <3>2 DEF ConnTypes
  <2> QED BY <2>1, <2>4, <2>5 DEF ConnInv
<1>2. CASE UNCHANGED <<m_iFd, m_bConnect, opened, lastSocket, toServer, toClient, gathering, mixed>>
  BY <1>0, <1>2 DEF ConnInv, ConnTypes, SocketsKept, AnswerComes, Got, Reading
<1> QED BY <1>1, <1>2 DEF TcpReadEnd

LEMMA ReadnBeginsStep == ASSUME ConnInv, ReadnBegins PROVE ConnInv'
<1>0. /\ kind = "tcp" /\ ~Reading /\ gathering' = <<>> /\ Got = <<>>
      /\ UNCHANGED <<kind, m_iFd, m_bConnect, opened, lastSocket, peer, toServer, toClient, asked, reply, mixed, overlaid>>
  BY DEF ReadnBegins, Readable, Got
<1>1. Got' = <<>>
  BY <1>0 DEF Got
<1>2. AnswerComes'
  BY <1>0, <1>1 DEF ConnInv, AnswerComes
<1>3. ConnTypes' /\ SocketsKept'
  BY <1>0, NoCells DEF ConnInv, ConnTypes, SocketsKept
<1> QED BY <1>2, <1>3 DEF ConnInv

LEMMA ReadnEndsStep == ASSUME ConnInv, ReadnEnds PROVE ConnInv'
<1>0. kind = "tcp" /\ Reading /\ Got = gathering /\ reply' = reply \o gathering /\ Close(<<>>) /\ UNCHANGED <<kind, asked, overlaid>>
  BY DEF ReadnEnds, ConnInv, ConnTypes, Got
<1>1. /\ SocketsKept' /\ gathering' = NoReadn /\ toClient' = <<>> /\ toServer' = <<>>
      /\ m_bConnect' \in BOOLEAN /\ mixed' = mixed /\ lastSocket' \in Nat /\ m_iFd' \in 0 .. lastSocket'
  BY <1>0, Closes
<1>2. Got' = <<>>
  BY <1>1 DEF Got, Reading
<1>3. reply \o Got \in Seq(Cell)
  BY Bounds, Joined
<1>4. ASSUME ~mixed PROVE Stream("tcp", asked, reply \o Got, <<>>, <<>>, <<>>)
  <2>1. Stream("tcp", asked, reply, Got, toClient, toServer)
    BY <1>0, <1>4 DEF ConnInv, AnswerComes
  <2>2. Follows(reply, asked, 0) /\ Follows(Got, asked, Len(reply))
    BY <2>1 DEF Stream
  <2>3. Stream("tcp", asked, reply, Got, <<>>, <<>>)
    BY <2>1, Bounds, LessComes
  <2>4. Len(reply) + Len(Got) <= 2
    <3>1. Len(reply) + Len(Got) + 0 + 0 <= 2
      BY <2>3, NoCells DEF Stream
    <3> QED BY <3>1, Bounds
  <2>5. Len(reply \o Got) = Len(reply) + Len(Got) /\ Follows(reply \o Got, asked, 0)
    BY <2>2, Bounds, Follow
  <2>6. Len(reply \o Got) + 0 + 0 + 0 <= 2
    BY <2>4, <2>5, Bounds
  <2> QED BY <2>5, <2>6, NoCells DEF Stream
<1>5. AnswerComes'
  <2>1. asked = 0 => reply \o Got = <<>>
    <3> SUFFICES ASSUME asked = 0 PROVE reply \o Got = <<>>
      OBVIOUS
    <3>1. Len(reply \o Got) = Len(reply) + Len(Got)
      BY Bounds, Joined
    <3>2. Len(reply) = 0 /\ Len(Got) = 0
      BY NoCells DEF ConnInv, AnswerComes
    <3>3. Len(reply \o Got) = 0
      BY <3>1, <3>2
    <3> QED BY <1>3, <3>3, EmptySeq
  <2> QED BY <1>0, <1>1, <1>2, <1>4, <2>1 DEF AnswerComes
<1>6. ConnTypes'
  <2>1. asked' \in Nat /\ reply' \in Seq(Cell) /\ mixed' \in BOOLEAN /\ kind' \in {"tcp", "udp"}
    BY <1>0, <1>1, <1>3, Bounds
  <2>2. toServer' \in Seq(Cell) /\ toClient' \in Seq(Cell) /\ gathering' \in Seq(Cell) /\ ~Reading'
    BY <1>1, NoCells DEF Reading
  <2> QED BY <1>1, <2>1, <2>2 DEF ConnTypes
<1> QED BY <1>1, <1>5, <1>6 DEF ConnInv

LEMMA ReadnFailsStep == ASSUME ConnInv, ReadnFails PROVE ConnInv'
<1>0. /\ Reading /\ Got = gathering /\ mixed' = (mixed \/ gathering # <<>>) /\ gathering' = NoReadn
      /\ UNCHANGED <<kind, m_iFd, m_bConnect, opened, lastSocket, toServer, toClient, asked, reply, overlaid>>
  BY DEF ReadnFails, Got
<1>1. Got' = <<>> /\ ~Reading'
  BY <1>0 DEF Got, Reading
<1>2. AnswerComes'
  BY <1>0, <1>1 DEF ConnInv, AnswerComes
<1>3. mixed' \in BOOLEAN
  BY <1>0, Bounds
<1>4. ConnTypes' /\ SocketsKept'
  BY <1>0, <1>1, <1>3, NoCells DEF ConnInv, ConnTypes, SocketsKept
<1> QED BY <1>2, <1>4 DEF ConnInv

LEMMA TakenOut ==
    ASSUME NEW s \in Seq(Cell), NEW i \in 1 .. Len(s)
    PROVE  /\ RemoveAt(s, i) \in Seq(Cell) /\ Len(RemoveAt(s, i)) = Len(s) - 1
           /\ \A a : Belongs(s, a) => Belongs(RemoveAt(s, i), a)
           /\ i = 1 => \A j \in 1 .. Len(s) - 1 : RemoveAt(s, i)[j] = s[1 + j]
<1> DEFINE f == SubSeq(s, 1, i - 1)
           b == SubSeq(s, i + 1, Len(s))
           r == f \o b
<1>0. Len(s) \in Nat /\ i - 1 \in 0 .. Len(s) /\ i \in 0 .. Len(s) /\ i \in Nat
  <2>1. Len(s) \in Nat
    BY LenProperties
  <2> QED BY <2>1
<1>1. f \in Seq(Cell) /\ Len(f) = i - 1 /\ \A j \in 1 .. i - 1 : f[j] = s[j]
  <2>1. PICK n \in 0 .. Len(s) : n = i - 1
    BY <1>0
  <2>2. SubSeq(s, 1, n) \in Seq(Cell) /\ Len(SubSeq(s, 1, n)) = n /\ \A j \in 1 .. n : SubSeq(s, 1, n)[j] = s[j]
    BY Split
  <2> QED BY <2>1, <2>2
<1>2. b \in Seq(Cell) /\ Len(b) = Len(s) - i /\ \A j \in 1 .. Len(s) - i : b[j] = s[i + j]
  BY <1>0, Split
<1> HIDE DEF f, b
<1>3. /\ r \in Seq(Cell) /\ Len(r) = Len(f) + Len(b)
      /\ \A j \in 1 .. Len(f) : r[j] = f[j]
      /\ \A j \in 1 .. Len(b) : r[Len(f) + j] = b[j]
  BY <1>1, <1>2, Joined
<1>4. RemoveAt(s, i) = r
  BY DEF RemoveAt, f, b
<1> HIDE DEF r
<1>5. Len(r) = Len(s) - 1
  BY <1>0, <1>1, <1>2, <1>3
<1>6. ASSUME NEW a, Belongs(s, a) PROVE Belongs(r, a)
  <2> SUFFICES ASSUME NEW j \in 1 .. Len(r) PROVE r[j][1] = a
    BY DEF Belongs
  <2>1. CASE j <= i - 1
    <3>1. j \in 1 .. i - 1 /\ j \in 1 .. Len(s)
      BY <1>0, <2>1
    <3> QED BY <1>1, <1>3, <1>6, <3>1, SMTT(30) DEF Belongs
  <2>2. CASE j > i - 1
    <3>1. PICK k \in 1 .. Len(s) - i : j = i - 1 + k
      <4>1. j - (i - 1) \in 1 .. Len(s) - i /\ j = i - 1 + (j - (i - 1))
        BY <1>0, <1>5, <2>2
      <4> QED BY <4>1
    <3>2. r[j] = s[i + k] /\ i + k \in 1 .. Len(s)
      BY <1>0, <1>1, <1>2, <1>3, <3>1
    <3> QED BY <1>6, <3>2 DEF Belongs
  <2> QED BY <1>0, <1>5, <2>1, <2>2
<1>7. ASSUME i = 1, NEW j \in 1 .. Len(s) - 1 PROVE r[j] = s[1 + j]
  <2>1. Len(f) = 0 /\ j \in 1 .. Len(b) /\ j \in Nat
    BY <1>0, <1>1, <1>2, <1>7
  <2>2. 0 + j = j
    BY <2>1
  <2> QED BY <1>2, <1>3, <1>7, <2>1, <2>2
<1> QED BY <1>3, <1>4, <1>5, <1>6, <1>7

LEMMA UdpReadStep == ASSUME ConnInv, UdpRead PROVE ConnInv'
<1> DEFINE q == Append(reply, Head(toClient))
           t == Tail(toClient)
<1>0. /\ kind = "udp" /\ toClient # <<>> /\ ~Reading /\ Got = <<>> /\ reply' = q /\ toClient' = t
      /\ UNCHANGED <<kind, m_iFd, m_bConnect, opened, lastSocket, peer, toServer, gathering, asked, mixed, overlaid>>
  BY DEF UdpRead, ConnInv, ConnTypes, Got
<1>1. Len(toClient) > 0 /\ Head(toClient) = toClient[1] /\ toClient[1] \in Cell
  <2>1. Len(toClient) # 0
    BY <1>0, Bounds, EmptySeq
  <2>2. Len(toClient) > 0 /\ 1 \in 1 .. Len(toClient)
    BY <2>1, Bounds
  <2> QED BY <1>0, <2>2, Bounds, ElementOfSeq, HeadTailProperties
<1>2. t \in Seq(Cell) /\ Len(t) = Len(toClient) - 1 /\ \A i \in 1 .. Len(t) : t[i] = toClient[i + 1]
  BY <1>0, Bounds, HeadTailProperties
<1>3. /\ q \in Seq(Cell) /\ Len(q) = Len(reply) + 1 /\ q[Len(reply) + 1] = toClient[1]
      /\ \A i \in 1 .. Len(reply) : q[i] = reply[i]
  BY <1>1, Bounds, AppendProperties
<1> HIDE DEF q, t
<1>4. ASSUME ~mixed PROVE Stream("udp", asked, q, <<>>, t, toServer)
  <2>1. Stream("udp", asked, reply, <<>>, toClient, toServer)
    BY <1>0, <1>4 DEF ConnInv, AnswerComes
  <2>2. Len(reply) + 0 + Len(toClient) + Len(toServer) <= 2 /\ Belongs(reply, asked) /\ Belongs(toClient, asked)
        /\ Belongs(toServer, asked)
    BY <2>1, NoCells DEF Stream
  <2>3. Len(q) + 0 + Len(t) + Len(toServer) <= 2
    BY <1>2, <1>3, <2>2, Bounds
  <2>4. Belongs(q, asked)
    <3>1. toClient[1][1] = asked
      BY <1>1, <2>2, Bounds DEF Belongs
    <3>2. \A i \in 1 .. Len(q) : i \in 1 .. Len(reply) \/ i = Len(reply) + 1
      BY <1>3, Bounds
    <3> QED BY <1>3, <2>2, <3>1, <3>2 DEF Belongs
  <2>5. Belongs(t, asked)
    <3>1. \A i \in 1 .. Len(t) : i + 1 \in 1 .. Len(toClient)
      BY <1>2, Bounds
    <3> QED BY <1>2, <2>2, <3>1 DEF Belongs
  <2> QED BY <2>2, <2>3, <2>4, <2>5, NoCells DEF Stream
<1>5. asked # 0
  BY <1>0 DEF ConnInv, AnswerComes
<1>6. Got' = <<>> /\ ~Reading'
  BY <1>0 DEF Got, Reading
<1>7. AnswerComes'
  BY <1>0, <1>4, <1>5, <1>6 DEF AnswerComes
<1>8. ConnTypes' /\ SocketsKept'
  BY <1>0, <1>2, <1>3, <1>6 DEF ConnInv, ConnTypes, SocketsKept
<1> QED BY <1>7, <1>8 DEF ConnInv

LEMMA ServerAnswersStep == ASSUME ConnInv, NEW i \in 1 .. Len(toServer), ServerAnswers(i) PROVE ConnInv'
<1> DEFINE c == Append(toClient, toServer[i])
           d == RemoveAt(toServer, i)
<1>0. /\ kind = "tcp" => i = 1
      /\ toClient' = c /\ toServer' = d
      /\ UNCHANGED <<peer, kind, m_iFd, m_bConnect, opened, lastSocket, gathering, asked, reply, mixed, overlaid>>
  BY DEF ServerAnswers, Moves, ServerUnchanged
<1>1. /\ d \in Seq(Cell) /\ Len(d) = Len(toServer) - 1
      /\ \A a : Belongs(toServer, a) => Belongs(d, a)
      /\ i = 1 => \A j \in 1 .. Len(toServer) - 1 : d[j] = toServer[1 + j]
  BY Bounds, TakenOut
<1>2. toServer[i] \in Cell
  BY Bounds, ElementOfSeq
<1>3. /\ c \in Seq(Cell) /\ Len(c) = Len(toClient) + 1 /\ c[Len(toClient) + 1] = toServer[i]
      /\ \A j \in 1 .. Len(toClient) : c[j] = toClient[j]
  BY <1>2, Bounds, AppendProperties
<1> HIDE DEF c, d
<1>4. asked # 0
  <2>1. toServer # <<>>
    BY NoCells
  <2> QED BY <2>1 DEF ConnInv, AnswerComes
<1>5. \A j \in 1 .. Len(c) : j \in 1 .. Len(toClient) \/ j = Len(toClient) + 1
  BY <1>3, Bounds
<1>6. ASSUME ~mixed PROVE Stream(kind, asked, reply, Got, c, d)
  <2>1. Stream(kind, asked, reply, Got, toClient, toServer)
    BY <1>6 DEF ConnInv, AnswerComes
  <2>2. Len(reply) + Len(Got) + Len(toClient) + Len(toServer) <= 2
    BY <2>1 DEF Stream
  <2>3. Len(reply) + Len(Got) + Len(c) + Len(d) <= 2
    BY <1>1, <1>3, <2>2, Bounds
  <2>4. CASE kind = "tcp"
    <3>1. /\ Follows(reply, asked, 0) /\ Follows(Got, asked, Len(reply))
          /\ Follows(toClient, asked, Len(reply) + Len(Got))
          /\ Follows(toServer, asked, Len(reply) + Len(Got) + Len(toClient))
      BY <2>1, <2>4 DEF Stream
    <3>2. Follows(c, asked, Len(reply) + Len(Got))
      <4>1. toServer[i] = <<asked, Len(reply) + Len(Got) + Len(toClient) + 1>>
        BY <1>0, <2>4, <3>1 DEF Follows
      <4>2. Len(reply) + Len(Got) + Len(toClient) + 1 = Len(reply) + Len(Got) + (Len(toClient) + 1)
        BY Bounds
      <4>3. c[Len(toClient) + 1] = <<asked, Len(reply) + Len(Got) + (Len(toClient) + 1)>>
        BY <1>3, <4>1, <4>2
      <4> QED BY <1>3, <1>5, <3>1, <4>3 DEF Follows
    <3>3. Follows(d, asked, Len(reply) + Len(Got) + Len(c))
      <4> SUFFICES ASSUME NEW j \in 1 .. Len(d) PROVE d[j] = <<asked, Len(reply) + Len(Got) + Len(c) + j>>
        BY DEF Follows
      <4>1. 1 + j \in 1 .. Len(toServer) /\ j \in 1 .. Len(toServer) - 1
        BY <1>1, Bounds
      <4>2. d[j] = <<asked, Len(reply) + Len(Got) + Len(toClient) + (1 + j)>>
        BY <1>0, <1>1, <2>4, <3>1, <4>1 DEF Follows
      <4>3. Len(reply) + Len(Got) + Len(toClient) + (1 + j) = Len(reply) + Len(Got) + Len(c) + j
        BY <1>3, Bounds
      <4> QED BY <4>2, <4>3
    <3> QED BY <2>3, <2>4, <3>1, <3>2, <3>3 DEF Stream
  <2>5. CASE kind # "tcp"
    <3>1. Belongs(reply, asked) /\ Belongs(toClient, asked) /\ Belongs(toServer, asked) /\ Got = <<>>
      BY <2>1, <2>5 DEF Stream
    <3>2. Belongs(c, asked)
      BY <1>3, <1>5, <3>1 DEF Belongs
    <3> QED BY <1>1, <2>3, <2>5, <3>1, <3>2 DEF Stream
  <2> QED BY <2>4, <2>5
<1>7. Got' = Got
  BY <1>0 DEF Got, Reading
<1>8. AnswerComes'
  BY <1>0, <1>4, <1>6, <1>7 DEF AnswerComes
<1>9. ConnTypes' /\ SocketsKept'
  BY <1>0, <1>1, <1>3 DEF ConnInv, ConnTypes, SocketsKept, Reading
<1> QED BY <1>8, <1>9 DEF ConnInv

LEMMA DatagramLostStep == ASSUME ConnInv, NEW i \in 1 .. Len(toServer), DatagramLost(i) PROVE ConnInv'
<1> DEFINE d == RemoveAt(toServer, i)
<1>0. /\ kind = "udp" /\ toServer' = d
      /\ UNCHANGED <<peer, toClient, kind, m_iFd, m_bConnect, opened, lastSocket, gathering, asked, reply, mixed, overlaid>>
  BY DEF DatagramLost, Moves, ServerUnchanged
<1>1. d \in Seq(Cell) /\ Len(d) = Len(toServer) - 1 /\ \A a : Belongs(toServer, a) => Belongs(d, a)
  BY Bounds, TakenOut
<1> HIDE DEF d
<1>2. asked # 0
  <2>1. toServer # <<>>
    BY NoCells
  <2> QED BY <2>1 DEF ConnInv, AnswerComes
<1>3. Got' = Got
  BY <1>0 DEF Got, Reading
<1>4. ASSUME ~mixed PROVE Stream("udp", asked, reply, Got, toClient, d)
  <2>1. Stream("udp", asked, reply, Got, toClient, toServer)
    BY <1>0, <1>4 DEF ConnInv, AnswerComes
  <2>2. Len(reply) + Len(Got) + Len(toClient) + Len(toServer) <= 2
    BY <2>1 DEF Stream
  <2>3. Len(reply) + Len(Got) + Len(toClient) + Len(d) <= 2
    BY <1>1, <2>2, Bounds
  <2> QED BY <1>1, <2>1, <2>3 DEF Stream
<1>5. AnswerComes'
  BY <1>0, <1>2, <1>3, <1>4 DEF AnswerComes
<1>6. ConnTypes' /\ SocketsKept'
  BY <1>0, <1>1 DEF ConnInv, ConnTypes, SocketsKept, Reading
<1> QED BY <1>5, <1>6 DEF ConnInv

LEMMA PeerLeavesStep == ASSUME ConnInv, PeerLeaves PROVE ConnInv'
<1>0. /\ toServer' = <<>> /\ toClient' \in {toClient, <<>>}
      /\ UNCHANGED <<kind, m_iFd, m_bConnect, opened, lastSocket, gathering, asked, reply, mixed, overlaid>>
  BY DEF PeerLeaves, ServerUnchanged
<1>1. Got' = Got
  BY <1>0 DEF Got, Reading
<1>2. ASSUME ~mixed PROVE Stream(kind, asked, reply, Got, toClient, <<>>) /\ Stream(kind, asked, reply, Got, <<>>, <<>>)
  <2>1. Stream(kind, asked, reply, Got, toClient, toServer)
    BY <1>2 DEF ConnInv, AnswerComes
  <2> QED BY <2>1, Bounds, LessComes
<1>3. AnswerComes'
  <2>1. asked = 0 => reply = <<>> /\ Got = <<>> /\ toClient = <<>>
    BY DEF ConnInv, AnswerComes
  <2>2. asked' = 0 => reply' = <<>> /\ Got' = <<>> /\ toClient' = <<>> /\ toServer' = <<>>
    BY <1>0, <1>1, <2>1
  <2>3. ~mixed' => Stream(kind', asked', reply', Got', toClient', toServer')
    BY <1>0, <1>1, <1>2
  <2> QED BY <2>2, <2>3 DEF AnswerComes
<1>4. toServer' \in Seq(Cell) /\ toClient' \in Seq(Cell)
  BY <1>0, Bounds, NoCells
<1>5. ConnTypes' /\ SocketsKept'
  BY <1>0, <1>4 DEF ConnInv, ConnTypes, SocketsKept, Reading
<1> QED BY <1>3, <1>5 DEF ConnInv

-----------------------------------------------------------------------------
LEMMA InitConnInv == ConnInit => ConnInv
<1> SUFFICES ASSUME ConnInit PROVE ConnInv
  OBVIOUS
<1>1. Got = <<>> /\ ~Reading
  BY DEF ConnInit, Got, Reading
<1>2. Stream(kind, asked, <<>>, <<>>, <<>>, <<>>)
  <2>1. asked \in Nat
    BY DEF ConnInit
  <2> QED BY <2>1, WholeAnswer
<1>3. AnswerComes
  BY <1>1, <1>2 DEF ConnInit, AnswerComes
<1>4. ConnTypes
  <2>1. toServer \in Seq(Cell) /\ toClient \in Seq(Cell) /\ gathering \in Seq(Cell) /\ reply \in Seq(Cell)
    BY NoCells DEF ConnInit
  <2>2. kind \in {"tcp", "udp"} /\ m_bConnect \in BOOLEAN /\ mixed \in BOOLEAN
    BY DEF ConnInit
  <2>3. lastSocket \in Nat /\ m_iFd \in 0 .. lastSocket /\ asked \in Nat
    BY DEF ConnInit, NoFd
  <2> QED BY <1>1, <2>1, <2>2, <2>3 DEF ConnTypes
<1>5. SocketsKept
  BY DEF ConnInit, SocketsKept, NoFd
<1> QED BY <1>3, <1>4, <1>5 DEF ConnInv

LEMMA ConnInvNext == ConnInv /\ [ConnNext]_connVars => ConnInv'
<1> SUFFICES ASSUME ConnInv, [ConnNext]_connVars PROVE ConnInv'
  OBVIOUS
<1>1. CASE TcpConnect \/ TcpWriteConnects \/ TcpWrite
  BY <1>1, TcpConnectStep, TcpWriteConnectsStep, TcpWriteStep
<1>2. CASE TcpReadEnd \/ ReadnBegins \/ ReadnEnds \/ ReadnFails
  BY <1>2, TcpReadEndStep, ReadnBeginsStep, ReadnEndsStep, ReadnFailsStep
<1>3. CASE \E n \in 1 .. 2 : TcpRead(n) \/ ReadnReceives(n)
  BY <1>3, TcpReadStep, ReadnReceivesStep
<1>4. CASE UdpConnect \/ UdpWrite \/ UdpRead \/ CloseCalled
  BY <1>4, UdpConnectStep, UdpWriteStep, UdpReadStep, CloseCalledStep
<1>5. CASE \E i \in 1 .. Len(toServer) : ServerAnswers(i) \/ DatagramLost(i)
  BY <1>5, ServerAnswersStep, DatagramLostStep
<1>6. CASE PeerLeaves
  BY <1>6, PeerLeavesStep
<1>7. CASE UNCHANGED connVars
  BY <1>7 DEF connVars, ConnInv, ConnTypes, SocketsKept, AnswerComes, Got, Reading
<1> QED BY <1>1, <1>2, <1>3, <1>4, <1>5, <1>6, <1>7 DEF ConnNext

LEMMA ConnInvGives == ConnInv => AnswersAndSockets
<1> SUFFICES ASSUME ConnInv PROVE AnswersAndSockets
  OBVIOUS
<1>1. ASSUME ~mixed, kind = "tcp"
      PROVE  IsPrefix(reply, Answer(asked)) /\ IsPrefix(reply \o Got, Answer(asked))
  <2>1. Stream("tcp", asked, reply, Got, toClient, toServer)
    BY <1>1 DEF ConnInv, AnswerComes
  <2>2. Len(reply) + Len(Got) + Len(toClient) + Len(toServer) <= 2 /\ Follows(reply, asked, 0) /\ Follows(Got, asked, Len(reply))
    BY <2>1 DEF Stream
  <2>3. Len(reply) <= 2 /\ Len(reply) + Len(Got) <= 2
    BY <2>2, Bounds
  <2>4. IsPrefix(reply, Answer(asked))
    BY <2>2, <2>3, Bounds, FollowsIsPrefix
  <2> DEFINE q == reply \o Got
  <2>5. q \in Seq(Cell) /\ Len(q) = Len(reply) + Len(Got) /\ Follows(q, asked, 0)
    BY <2>2, Bounds, Follow
  <2> HIDE DEF q
  <2>6. IsPrefix(q, Answer(asked))
    <3>1. Len(q) <= 2
      BY <2>3, <2>5
    <3> QED BY <2>5, <3>1, Bounds, FollowsIsPrefix
  <2> QED BY <2>4, <2>6 DEF q
<1>2. ASSUME ~mixed, kind # "tcp" PROVE \A i \in DOMAIN reply : reply[i][1] = asked
  <2>1. Stream(kind, asked, reply, Got, toClient, toServer)
    BY <1>2 DEF ConnInv, AnswerComes
  <2>2. DOMAIN reply = 1 .. Len(reply)
    BY Bounds, LenProperties
  <2> QED BY <1>2, <2>1, <2>2 DEF Stream, Belongs
<1>3. Reading => Got = gathering
  BY DEF Got
<1>4. /\ opened = overlaid \cup ({m_iFd} \ {NoFd})
      /\ kind = "tcp" => overlaid = {} /\ (m_bConnect => m_iFd # NoFd)
  BY DEF ConnInv, SocketsKept
<1> QED BY <1>1, <1>2, <1>3, <1>4 DEF AnswersAndSockets

\* A caller who asks only when it has the whole answer reads the answer to its
\* last request and nothing else, through every reconnect, end, reset and lost
\* datagram, and the connector leaks no socket but those a second UDP connect
\* writes over (CTcpConnector, CUdpConnector).
THEOREM AnswersInOrder == ConnSpec => []AnswersAndSockets
<1>1. ConnInv /\ [ConnNext]_connVars => ConnInv'
  BY ConnInvNext
<1> QED BY InitConnInv, <1>1, ConnInvGives, PTL DEF ConnSpec

-----------------------------------------------------------------------------
(* PackageFilters.  Induction on a set of numbers; two ways to cut one     *)
(* sequence.                                                               *)
LEMMA Least == ASSUME NEW T, T \subseteq Nat, T # {} PROVE \E n \in T : \A m \in T : n <= m
<1> DEFINE R == {ss \in Nat \X Nat : ss[1] < ss[2]}
<1>1. IsWellFoundedOn(R, Nat)
  BY NatLessThanWellFounded DEF OpToRel
<1> HIDE DEF R
<1>2. PICK n \in T : \A m \in T : ~(<<m, n>> \in R)
  BY <1>1, WFMin
<1>3. \A m \in T : ~(m < n)
  <2> SUFFICES ASSUME NEW m \in T, m < n PROVE FALSE
    OBVIOUS
  <2>1. <<m, n>> \in R
    BY DEF R
  <2> QED BY <1>2, <2>1
<1>4. \A m \in T : n <= m
  BY <1>3
<1> QED BY <1>4

LEMMA SetInduction == ASSUME NEW S, 0 \in S, \A n \in Nat : n \in S => n + 1 \in S PROVE Nat \subseteq S
<1> SUFFICES ASSUME NEW k \in Nat, k \notin S PROVE FALSE
  OBVIOUS
<1> DEFINE T == Nat \ S
<1>1. PICK n \in T : \A m \in T : n <= m
  BY Least
<1>2. n # 0
  OBVIOUS
<1>3. n - 1 \in Nat /\ n - 1 \notin T /\ n - 1 + 1 = n
  BY <1>1, <1>2
<1> QED BY <1>1, <1>3

LEMMA Overlap ==
    ASSUME NEW d \in Pieces, NEW u \in Pieces, NEW p \in Pieces, NEW r \in Pieces, d \o u = p \o r
    PROVE  \A i \in 1 .. Len(p) : i <= Len(d) => d[i] = p[i]
<1>1. Len(d) \in Nat /\ Len(u) \in Nat /\ Len(p) \in Nat /\ Len(r) \in Nat
  BY LenProperties DEF Pieces
<1>2. \A i \in 1 .. Len(d) + Len(u) : i <= Len(d) => (d \o u)[i] = d[i]
  BY ConcatProperties DEF Pieces
<1>3. \A i \in 1 .. Len(p) + Len(r) : i <= Len(p) => (p \o r)[i] = p[i]
  BY ConcatProperties DEF Pieces
<1> TAKE i \in 1 .. Len(p)
<1> HAVE i <= Len(d)
<1>4. i \in 1 .. Len(d) + Len(u) /\ i \in 1 .. Len(p) + Len(r) /\ i <= Len(p)
  BY <1>1
<1>5. (d \o u)[i] = d[i] /\ (p \o r)[i] = p[i]
  BY <1>2, <1>3, <1>4
<1> QED BY <1>5

LEMMA CancelLeft ==
    ASSUME NEW a \in Pieces, NEW b \in Pieces, NEW c \in Pieces, a \o b = a \o c
    PROVE  b = c
<1>1. Len(a) \in Nat /\ Len(b) \in Nat /\ Len(c) \in Nat
  BY LenProperties DEF Pieces
<1>2. Len(a \o b) = Len(a) + Len(b) /\ Len(a \o c) = Len(a) + Len(c)
  BY ConcatProperties DEF Pieces
<1>3. Len(b) = Len(c)
  BY <1>1, <1>2
<1>4. ASSUME NEW i \in 1 .. Len(b) PROVE b[i] = c[i]
  <2>1. PICK k \in 1 .. Len(a) + Len(b) : k = Len(a) + i /\ ~(k <= Len(a)) /\ k - Len(a) = i
    <3>1. Len(a) + i \in 1 .. Len(a) + Len(b) /\ ~(Len(a) + i <= Len(a)) /\ Len(a) + i - Len(a) = i
      BY <1>1
    <3> QED BY <3>1
  <2>2. (a \o b)[k] = b[k - Len(a)]
    BY <2>1, ConcatProperties DEF Pieces
  <2>3. k \in 1 .. Len(a) + Len(c)
    BY <2>1, <1>3
  <2>4. (a \o c)[k] = c[k - Len(a)]
    BY <2>1, <2>3, ConcatProperties DEF Pieces
  <2> QED BY <2>1, <2>2, <2>4
<1> QED BY <1>3, <1>4, SeqEqual DEF Pieces

LEMMA NothingAdded ==
    ASSUME NEW a \in Pieces
    PROVE  <<>> \in Pieces /\ a \o <<>> = a /\ <<>> \o a = a /\ Len(<<>>) = 0
BY ConcatEmptySeq, EmptySeq DEF Pieces

LEMMA LengthZero ==
    ASSUME NEW a \in Pieces
    PROVE  Len(a) \in Nat /\ (Len(a) = 0 <=> a = <<>>)
BY EmptySeq, LenProperties DEF Pieces

\* What has come begins with the whole of p.
\* What has come holds the whole of p, and r comes next.
Ahead(d, u, p, r) == d \o u = p \o r /\ Len(p) <= Len(d)
LEMMA FrontTaken ==
    ASSUME NEW d \in Pieces, NEW u \in Pieces, NEW p \in Pieces, NEW r \in Pieces, Ahead(d, u, p, r)
    PROVE  /\ SubSeq(d, 1, Len(p)) = p
           /\ SubSeq(d, Len(p) + 1, Len(d)) \in Pieces
           /\ SubSeq(d, Len(p) + 1, Len(d)) \o u = r
<1>0. d \o u = p \o r /\ Len(p) <= Len(d)
  BY DEF Ahead
<1>1. PICK k \in 0 .. Len(d) : k = Len(p)
  BY <1>0, LenProperties DEF Pieces
<1> DEFINE a == SubSeq(d, 1, k)
           b == SubSeq(d, k + 1, Len(d))
<1>2. a \in Pieces /\ b \in Pieces /\ a \o b = d /\ Len(a) = k
  BY Cut
<1> HIDE DEF a, b
<1>3. a \o (b \o u) = p \o r
  <2>1. a \in Pieces /\ b \in Pieces
    BY <1>2
  <2>2. a \o (b \o u) = (a \o b) \o u
    BY <2>1, Grouped, ZenonT(40)
  <2>3. (a \o b) \o u = p \o r
    BY <1>0, <1>2
  <2> QED BY <2>2, <2>3
<1>4. b \o u \in Pieces
  BY <1>2, Together
<1>5. \A i \in 1 .. Len(p) : i <= Len(a) => a[i] = p[i]
  BY <1>2, <1>3, <1>4, Overlap
<1>6. a = p
  <2>1. Len(p) \in Nat /\ \A i \in 1 .. Len(p) : a[i] = p[i]
    BY <1>1, <1>2, <1>5, LengthZero
  <2> QED BY <1>1, <1>2, <2>1, SeqEqual DEF Pieces
<1>7. b \o u = r
  BY <1>3, <1>4, <1>6, CancelLeft
<1> QED BY <1>1, <1>2, <1>6, <1>7 DEF a, b

-----------------------------------------------------------------------------
(* The joined packages, up to each of them.                                *)
Turn(s, g) == [i \in 1 .. Len(s) |-> IF i = 1 THEN s[i] ELSE g[i - 1] \o s[i]]
Joining(s) == CHOOSE g : g = Turn(s, g)
Upto(s, h) == IF h = 0 THEN <<>> ELSE Joining(s)[h]
Joins(s, n, g) ==
    /\ g \in [1 .. n -> Pieces]
    /\ \A i \in 1 .. n : g[i] = IF i = 1 THEN s[i] ELSE g[i - 1] \o s[i]

LEMMA JoinsExist == ASSUME NEW s \in Seq(Pieces) PROVE \E g : Joins(s, Len(s), g)
<1> DEFINE S == {n \in Nat : n <= Len(s) => \E g : Joins(s, n, g)}
<1>0. Len(s) \in Nat /\ \A i \in 1 .. Len(s) : s[i] \in Pieces
  BY LenProperties, ElementOfSeq
<1>1. 0 \in S
  <2>1. Joins(s, 0, [i \in 1 .. 0 |-> <<>>])
    BY DEF Joins
  <2> QED BY <2>1
<1>2. ASSUME NEW n \in Nat, n \in S, n + 1 <= Len(s) PROVE \E g : Joins(s, n + 1, g)
  <2>0. n <= Len(s)
    BY <1>0, <1>2
  <2>1. PICK h : Joins(s, n, h)
    BY <1>2, <2>0
  <2>2. s[n + 1] \in Pieces
    BY <1>0, <1>2
  <2> DEFINE x == IF n = 0 THEN s[n + 1] ELSE h[n] \o s[n + 1]
             g == [i \in 1 .. n + 1 |-> IF i = n + 1 THEN x ELSE h[i]]
  <2>3. x \in Pieces
    <3>1. CASE n = 0
      BY <2>2, <3>1
    <3>2. CASE n # 0
      <4>1. n \in 1 .. n
        BY <3>2
      <4>2. h[n] \in Pieces
        BY <2>1, <4>1 DEF Joins
      <4> QED BY <2>2, <3>2, <4>2, Together
    <3> QED BY <3>1, <3>2
  <2> HIDE DEF x
  <2>4. g \in [1 .. n + 1 -> Pieces]
    <3>1. \A i \in 1 .. n + 1 : i # n + 1 => i \in 1 .. n
      BY <1>2
    <3>2. \A i \in 1 .. n : h[i] \in Pieces
      BY <2>1 DEF Joins
    <3> QED BY <2>3, <3>1, <3>2
  <2>5. ASSUME NEW i \in 1 .. n + 1 PROVE g[i] = IF i = 1 THEN s[i] ELSE g[i - 1] \o s[i]
    <3>1. CASE i = n + 1
      <4>1. g[i] = x
        BY <3>1
      <4>2. CASE n = 0
        BY <3>1, <4>1, <4>2 DEF x
      <4>3. CASE n # 0
        <5>1. i - 1 = n /\ i - 1 \in 1 .. n + 1 /\ i - 1 # n + 1 /\ i # 1
          BY <3>1, <4>3
        <5>2. g[i - 1] = h[n]
          BY <5>1
        <5> QED BY <3>1, <4>1, <4>3, <5>1, <5>2 DEF x
      <4> QED BY <4>2, <4>3
    <3>2. CASE i # n + 1
      <4>1. i \in 1 .. n
        BY <3>2
      <4>2. g[i] = h[i]
        BY <3>2
      <4>3. h[i] = IF i = 1 THEN s[i] ELSE h[i - 1] \o s[i]
        BY <2>1, <4>1 DEF Joins
      <4>4. i # 1 => g[i - 1] = h[i - 1]
        <5>1. i # 1 => i - 1 \in 1 .. n + 1 /\ i - 1 # n + 1
          BY <4>1
        <5> QED BY <5>1
      <4> QED BY <4>2, <4>3, <4>4
    <3> QED BY <3>1, <3>2
  <2> HIDE DEF g
  <2>6. Joins(s, n + 1, g)
    BY <2>4, <2>5 DEF Joins
  <2> QED BY <2>6
<1>3. \A n \in Nat : n \in S => n + 1 \in S
  BY <1>2
<1> HIDE DEF S
<1>4. Len(s) \in S
  BY <1>0, <1>1, <1>3, SetInduction
<1> QED BY <1>0, <1>4 DEF S

LEMMA UptoIs ==
    ASSUME NEW s \in Seq(Pieces)
    PROVE  /\ Upto(s, 0) = <<>> /\ \A h \in 0 .. Len(s) : Upto(s, h) \in Pieces
           /\ \A h \in 1 .. Len(s) : Upto(s, h) = Upto(s, h - 1) \o s[h]
           /\ FlattenSeq(s) = Upto(s, Len(s))
<1> DEFINE R == Joining(s)
<1>0. Len(s) \in Nat /\ \A i \in 1 .. Len(s) : s[i] \in Pieces
  BY LenProperties, ElementOfSeq
<1>1. \E g : g = Turn(s, g)
  <2>1. PICK g : Joins(s, Len(s), g)
    BY JoinsExist
  <2>2. g = [i \in 1 .. Len(s) |-> g[i]]
    BY <2>1 DEF Joins
  <2>3. \A i \in 1 .. Len(s) : g[i] = Turn(s, g)[i]
    BY <2>1 DEF Joins, Turn
  <2>4. Turn(s, g) = [i \in 1 .. Len(s) |-> Turn(s, g)[i]]
    BY DEF Turn
  <2> QED BY <2>2, <2>3, <2>4
<1>2. R = Turn(s, R)
  <2> HIDE DEF R
  <2>1. R = CHOOSE g : g = Turn(s, g)
    BY DEF R, Joining
  <2> QED BY <1>1, <2>1
<1> HIDE DEF R
<1>3. \A i \in 1 .. Len(s) : R[i] = IF i = 1 THEN s[i] ELSE R[i - 1] \o s[i]
  BY <1>2 DEF Turn
<1>4. Upto(s, 0) = <<>> /\ \A h \in 1 .. Len(s) : Upto(s, h) = R[h]
  BY DEF Upto, R
<1>5. ASSUME NEW h \in 1 .. Len(s) PROVE Upto(s, h) = Upto(s, h - 1) \o s[h]
  <2>1. CASE h = 1
    <3>1. Upto(s, h - 1) = <<>> /\ Upto(s, h) = s[h]
      BY <1>3, <1>4, <2>1
    <3> QED BY <1>0, <3>1, NothingAdded
  <2>2. CASE h # 1
    <3>1. h - 1 \in 1 .. Len(s)
      BY <1>0, <2>2
    <3>2. Upto(s, h - 1) = R[h - 1] /\ Upto(s, h) = R[h] /\ R[h] = R[h - 1] \o s[h]
      BY <1>3, <1>4, <2>2, <3>1
    <3> QED BY <3>2
  <2> QED BY <2>1, <2>2
<1> DEFINE S == {n \in Nat : n <= Len(s) => Upto(s, n) \in Pieces}
<1>6. 0 \in S
  <2>1. <<>> \in Pieces
    BY EmptySeq DEF Pieces
  <2> QED BY <1>4, <2>1
<1>7. ASSUME NEW n \in Nat, n \in S, n + 1 <= Len(s) PROVE Upto(s, n + 1) \in Pieces
  <2>1. PICK h \in 1 .. Len(s) : h = n + 1 /\ h - 1 = n
    <3>1. n + 1 \in 1 .. Len(s) /\ n + 1 - 1 = n
      BY <1>0, <1>7
    <3> QED BY <3>1
  <2>2. Upto(s, n) \in Pieces
    BY <1>0, <1>7
  <2> QED BY <1>0, <1>5, <2>1, <2>2, Together
<1>8. \A n \in Nat : n \in S => n + 1 \in S
  BY <1>7
<1> HIDE DEF S
<1>9. \A h \in 0 .. Len(s) : Upto(s, h) \in Pieces
  <2> TAKE h \in 0 .. Len(s)
  <2>1. h \in Nat /\ h <= Len(s)
    BY <1>0
  <2>2. h \in S
    BY <1>6, <1>8, <2>1, SetInduction
  <2> QED BY <2>1, <2>2 DEF S
<1>10. FlattenSeq(s) = Upto(s, Len(s))
  <2>1. CASE Len(s) = 0
    <3>1. s = <<>>
      BY <2>1, EmptySeq
    <3> QED BY <2>1, <3>1 DEF FlattenSeq, Upto
  <2>2. CASE Len(s) # 0
    BY <2>2 DEF FlattenSeq, Upto, Joining, Turn
  <2> QED BY <2>1, <2>2
<1> QED BY <1>4, <1>5, <1>9, <1>10

\* As far as two sequences agree, so does what is joined of them.
LEMMA UptoSame ==
    ASSUME NEW s \in Seq(Pieces), NEW t \in Seq(Pieces), NEW k \in Nat, k <= Len(s), k <= Len(t),
           \A i \in 1 .. k : s[i] = t[i]
    PROVE  Upto(s, k) = Upto(t, k)
<1> DEFINE S == {n \in Nat : n <= k => Upto(s, n) = Upto(t, n)}
<1>0. Len(s) \in Nat /\ Len(t) \in Nat
  BY LenProperties
<1>1. 0 \in S
  BY UptoIs
<1>2. ASSUME NEW n \in Nat, n \in S, n + 1 <= k PROVE Upto(s, n + 1) = Upto(t, n + 1)
  <2>1. PICK h \in 1 .. k : h = n + 1 /\ h - 1 = n
    <3>1. n + 1 \in 1 .. k /\ n + 1 - 1 = n
      BY <1>2
    <3> QED BY <3>1
  <2>2. h \in 1 .. Len(s) /\ h \in 1 .. Len(t)
    BY <1>0, <2>1
  <2>3. Upto(s, n) = Upto(t, n)
    BY <1>2
  <2>4. Upto(s, h) = Upto(s, h - 1) \o s[h] /\ Upto(t, h) = Upto(t, h - 1) \o t[h]
    BY <2>2, UptoIs
  <2> QED BY <2>1, <2>3, <2>4
<1>3. \A n \in Nat : n \in S => n + 1 \in S
  BY <1>2
<1> HIDE DEF S
<1>4. k \in S
  BY <1>1, <1>3, SetInduction
<1> QED BY <1>4 DEF S

LEMMA FlattenAppend ==
    ASSUME NEW s \in Seq(Pieces), NEW x \in Pieces
    PROVE  FlattenSeq(Append(s, x)) = FlattenSeq(s) \o x /\ FlattenSeq(s) \in Pieces
<1> DEFINE t == Append(s, x)
<1>0. Len(s) \in Nat
  BY LenProperties
<1>1. t \in Seq(Pieces) /\ Len(t) = Len(s) + 1 /\ t[Len(s) + 1] = x /\ \A i \in 1 .. Len(s) : t[i] = s[i]
  BY AppendProperties
<1> HIDE DEF t
<1>2. PICK n \in Nat : n = Len(s)
  BY <1>0
<1>3. n + 1 \in 1 .. Len(t) /\ n + 1 - 1 = n /\ n <= Len(t) /\ n <= Len(s)
  BY <1>1, <1>2
<1>4. Upto(t, n) = Upto(s, n)
  BY <1>1, <1>2, <1>3, UptoSame
<1>5. Upto(t, n + 1) = Upto(t, n + 1 - 1) \o t[n + 1]
  <2>1. \A k \in 1 .. Len(t) : Upto(t, k) = Upto(t, k - 1) \o t[k]
    BY <1>1, UptoIs
  <2>2. PICK k \in 1 .. Len(t) : k = n + 1
    BY <1>3
  <2>3. Upto(t, k) = Upto(t, k - 1) \o t[k]
    BY <2>1
  <2> QED BY <2>2, <2>3
<1>6. FlattenSeq(t) = Upto(t, Len(t)) /\ FlattenSeq(s) = Upto(s, Len(s))
  BY <1>1, UptoIs
<1>7. FlattenSeq(s) \in Pieces
  <2>1. n \in 0 .. Len(s)
    BY <1>2
  <2> QED BY <1>2, <1>6, <2>1, UptoIs
<1> QED BY <1>1, <1>2, <1>3, <1>4, <1>5, <1>6, <1>7 DEF t

\* What follows what is joined so far.
LEMMA UptoRest ==
    ASSUME NEW s \in Seq(Pieces), NEW h \in 0 .. Len(s)
    PROVE  \E r \in Pieces : FlattenSeq(s) = Upto(s, h) \o r
<1> DEFINE S == {n \in Nat : h + n <= Len(s) => \E r \in Pieces : Upto(s, h + n) = Upto(s, h) \o r}
<1>0. Len(s) \in Nat /\ \A i \in 1 .. Len(s) : s[i] \in Pieces
  BY LenProperties, ElementOfSeq
<1>a. Upto(s, h) \in Pieces
  BY UptoIs
<1>1. 0 \in S
  <2>1. Upto(s, h) = Upto(s, h) \o <<>> /\ <<>> \in Pieces /\ h + 0 = h
    BY <1>a, NothingAdded
  <2> QED BY <2>1
<1>2. ASSUME NEW n \in Nat, n \in S, h + (n + 1) <= Len(s)
      PROVE  \E r \in Pieces : Upto(s, h + (n + 1)) = Upto(s, h) \o r
  <2>1. PICK k \in 1 .. Len(s) : k = h + (n + 1) /\ k - 1 = h + n
    <3>1. h + (n + 1) \in 1 .. Len(s) /\ h + (n + 1) - 1 = h + n
      BY <1>0, <1>2
    <3> QED BY <3>1
  <2>2. h + n <= Len(s)
    BY <1>0, <1>2
  <2>3. PICK r \in Pieces : Upto(s, h + n) = Upto(s, h) \o r
    BY <1>2, <2>2
  <2>4. Upto(s, k) = (Upto(s, h) \o r) \o s[k]
    BY <2>1, <2>3, UptoIs
  <2>5. s[k] \in Pieces
    BY <1>0
  <2>6. Upto(s, k) = Upto(s, h) \o (r \o s[k]) /\ r \o s[k] \in Pieces
    BY <1>a, <2>4, <2>5, Grouped, Together
  <2> QED BY <2>1, <2>6
<1>3. \A n \in Nat : n \in S => n + 1 \in S
  <2> TAKE n \in Nat
  <2> HAVE n \in S
  <2>1. h + (n + 1) <= Len(s) => \E r \in Pieces : Upto(s, h + (n + 1)) = Upto(s, h) \o r
    BY <1>2
  <2>2. n + 1 \in Nat
    OBVIOUS
  <2> QED BY <2>1, <2>2
<1> HIDE DEF S
<1>4. Nat \subseteq S
  BY <1>1, <1>3, SetInduction
<1>5. PICK n \in Nat : h + n = Len(s)
  <2>1. Len(s) - h \in Nat /\ h + (Len(s) - h) = Len(s)
    BY <1>0
  <2> QED BY <2>1
<1>6. n \in S /\ h + n <= Len(s)
  BY <1>4, <1>5, <1>0
<1>7. \E r \in Pieces : Upto(s, Len(s)) = Upto(s, h) \o r
  BY <1>5, <1>6 DEF S
<1> QED BY <1>7, UptoIs

-----------------------------------------------------------------------------
(* One package at the front of what has come, in part or whole.            *)
Starts(d, p) == \A i \in 1 .. Len(p) : i <= Len(d) => d[i] = p[i]

\* Two sequences one after the other, place by place.
LEMMA JoinedBytes ==
    ASSUME NEW s \in Pieces, NEW t \in Pieces
    PROVE  /\ s \o t \in Pieces /\ Len(s \o t) = Len(s) + Len(t)
           /\ \A i \in 1 .. Len(s) : (s \o t)[i] = s[i]
           /\ \A i \in 1 .. Len(t) : (s \o t)[Len(s) + i] = t[i]
<1> DEFINE u == s \o t
<1>0. Len(s) \in Nat /\ Len(t) \in Nat
  BY LenProperties DEF Pieces
<1>1. u \in Pieces /\ Len(u) = Len(s) + Len(t)
      /\ \A i \in 1 .. Len(s) + Len(t) : u[i] = IF i <= Len(s) THEN s[i] ELSE t[i - Len(s)]
  BY ConcatProperties DEF Pieces
<1> HIDE DEF u
<1>2. ASSUME NEW i \in 1 .. Len(t) PROVE u[Len(s) + i] = t[i]
  <2>1. Len(s) + i \in 1 .. Len(s) + Len(t) /\ ~(Len(s) + i <= Len(s)) /\ Len(s) + i - Len(s) = i
    BY <1>0
  <2>2. u[Len(s) + i] = t[Len(s) + i - Len(s)]
    BY <1>1, <2>1
  <2> QED BY <2>1, <2>2
<1>3. \A i \in 1 .. Len(s) : u[i] = s[i]
  BY <1>0, <1>1
<1> QED BY <1>1, <1>2, <1>3 DEF u

\* A package with a mark on either side; the length says how long it is.
LEMMA FramedFits ==
    ASSUME NEW w \in {2, 4}, NEW d \in Pieces, NEW p \in Pieces, Starts(d, p),
           Len(p) >= w + 2, p[1] = PkgHead, PkgLen(p, w) = Len(p)
    PROVE  /\ Len(d) < Len(p) => Framed(d, w) = Partial
           /\ Len(d) >= Len(p) => Framed(d, w) = IF p[Len(p)] = PkgTail THEN Whole(Len(p) - (w + 2), Len(p))
                                                 ELSE Invalid
<1>0. Len(d) \in Nat /\ Len(p) \in Nat /\ (Len(d) = 0 <=> d = <<>>)
  BY LengthZero
<1>1. d # <<>> => d[1] = PkgHead
  BY <1>0 DEF Starts
<1>2. CASE Len(d) <= w + 1
  <2>1. Framed(d, w) = Partial
    BY <1>0, <1>1, <1>2 DEF Framed
  <2>2. Len(d) < Len(p)
    BY <1>0, <1>2
  <2> QED BY <1>0, <2>1, <2>2
<1>3. CASE Len(d) > w + 1
  <2>1. PkgLen(d, w) = Len(p)
    <3>1. \A i \in 2 .. w + 1 : d[i] = p[i]
      BY <1>0, <1>3 DEF Starts
    <3>2. CASE w = 2
      <4>1. d[2] = p[2] /\ d[3] = p[3]
        BY <3>1, <3>2
      <4> QED BY <3>2, <4>1 DEF PkgLen
    <3>3. CASE w = 4
      <4>1. d[2] = p[2] /\ d[3] = p[3] /\ d[4] = p[4] /\ d[5] = p[5]
        BY <3>1, <3>3
      <4> QED BY <3>3, <4>1 DEF PkgLen
    <3> QED BY <3>2, <3>3
  <2>2. d # <<>> /\ d[1] = PkgHead /\ ~(Len(d) <= w + 1)
    BY <1>0, <1>1, <1>3
  <2>3. Framed(d, w) = IF Len(p) > Len(d) THEN Partial
                       ELSE IF d[Len(p)] = PkgTail THEN Whole(Len(p) - (w + 2), Len(p)) ELSE Invalid
    <3>1. ~(Len(p) < w + 2)
      BY <1>0
    <3> QED BY <2>1, <2>2, <3>1 DEF Framed
  <2>4. Len(d) >= Len(p) => d[Len(p)] = p[Len(p)]
    BY <1>0 DEF Starts
  <2> QED BY <1>0, <2>3, <2>4
<1> QED BY <1>0, <1>2, <1>3

\* A package without its first mark is taken for none at once.
LEMMA FramedWrongHead ==
    ASSUME NEW w \in {2, 4}, NEW d \in Pieces, NEW p \in Pieces, Starts(d, p), Len(p) >= 1, p[1] = 0
    PROVE  Framed(d, w) = IF d = <<>> THEN Partial ELSE Invalid
<1>0. Len(d) \in Nat /\ Len(p) \in Nat /\ (Len(d) = 0 <=> d = <<>>)
  BY LengthZero
<1>1. d # <<>> => d[1] = 0
  BY <1>0 DEF Starts
<1> QED BY <1>1 DEF Framed, PkgHead

\* One whose length is below that of an empty package, as soon as the length is there.
LEMMA FramedWrongLength ==
    ASSUME NEW w \in {2, 4}, NEW d \in Pieces, NEW p \in Pieces, Starts(d, p), Len(p) >= w + 2, p[1] = PkgHead,
           PkgLen(p, w) < w + 2
    PROVE  Framed(d, w) = IF Len(d) <= w + 1 THEN Partial ELSE Invalid
<1>0. Len(d) \in Nat /\ Len(p) \in Nat /\ (Len(d) = 0 <=> d = <<>>)
  BY LengthZero
<1>1. d # <<>> => d[1] = PkgHead
  BY <1>0 DEF Starts
<1>2. CASE Len(d) <= w + 1
  BY <1>0, <1>1, <1>2 DEF Framed
<1>3. CASE Len(d) > w + 1
  <2>1. \A i \in 2 .. w + 1 : d[i] = p[i]
    BY <1>0, <1>3 DEF Starts
  <2>2. PkgLen(d, w) = PkgLen(p, w)
    <3>1. CASE w = 2
      <4>1. d[2] = p[2] /\ d[3] = p[3]
        BY <2>1, <3>1
      <4> QED BY <3>1, <4>1 DEF PkgLen
    <3>2. CASE w = 4
      <4>1. d[2] = p[2] /\ d[3] = p[3] /\ d[4] = p[4] /\ d[5] = p[5]
        BY <2>1, <3>2
      <4> QED BY <3>2, <4>1 DEF PkgLen
    <3> QED BY <3>1, <3>2
  <2>3. d # <<>> /\ d[1] = PkgHead /\ ~(Len(d) <= w + 1)
    BY <1>0, <1>1, <1>3
  <2> QED BY <2>2, <2>3 DEF Framed
<1> QED BY <1>0, <1>2, <1>3

\* The bytes of a length say the length.
LEMMA LengthInBytes ==
    /\ \A n \in Nat : n <= IntMax =>
         /\ LongBytes(n) \in Pieces /\ Len(LongBytes(n)) = 4 /\ \A i \in 1 .. 4 : LongBytes(n)[i] <= 255
         /\ \A p : p[2] = LongBytes(n)[1] /\ p[3] = LongBytes(n)[2] /\ p[4] = LongBytes(n)[3] /\ p[5] = LongBytes(n)[4]
                   => PkgLen(p, 4) = n
    /\ \A n \in Nat : n <= ShortMax =>
         /\ ShortBytes(n) \in Pieces /\ Len(ShortBytes(n)) = 2
         /\ \A p : p[2] = ShortBytes(n)[1] /\ p[3] = ShortBytes(n)[2] => PkgLen(p, 2) = n
<1>1. ASSUME NEW n \in Nat, n <= IntMax
      PROVE  /\ LongBytes(n) \in Pieces /\ Len(LongBytes(n)) = 4 /\ \A i \in 1 .. 4 : LongBytes(n)[i] <= 255
             /\ \A p : p[2] = LongBytes(n)[1] /\ p[3] = LongBytes(n)[2] /\ p[4] = LongBytes(n)[3] /\ p[5] = LongBytes(n)[4]
                   => PkgLen(p, 4) = n
  <2> DEFINE a == n \div 256
             b == a \div 256
             c == b \div 256
  <2>1. a \in Nat /\ n % 256 \in Nat /\ 256 * a + (n % 256) = n /\ a <= 256 * (256 * 127 + 255) + 255
    BY <1>1, SMTT(20) DEF IntMax
  <2> HIDE DEF a
  <2>2. b \in Nat /\ a % 256 \in Nat /\ 256 * b + (a % 256) = a /\ b <= 256 * 127 + 255
    BY <2>1, SMTT(20)
  <2> HIDE DEF b
  <2>3. c \in Nat /\ b % 256 \in Nat /\ 256 * c + (b % 256) = b /\ c <= 127
    BY <2>2
  <2> HIDE DEF c
  <2>4. LongBytes(n) = <<c, b % 256, a % 256, n % 256>>
    BY DEF LongBytes, a, b, c
  <2>5. LongBytes(n) \in Pieces /\ Len(LongBytes(n)) = 4
    BY <2>1, <2>2, <2>3, <2>4 DEF Pieces
  <2>8. \A i \in 1 .. 4 : LongBytes(n)[i] <= 255
    <3>1. n % 256 <= 255 /\ a % 256 <= 255 /\ b % 256 <= 255 /\ c <= 255
      BY <2>1, <2>2, <2>3
    <3>2. \A i \in 1 .. 4 : i = 1 \/ i = 2 \/ i = 3 \/ i = 4
      OBVIOUS
    <3> QED BY <2>4, <3>1, <3>2
  <2>6. ASSUME NEW p, p[2] = c, p[3] = b % 256, p[4] = a % 256, p[5] = n % 256
        PROVE  PkgLen(p, 4) = n
    <3>1. ~(p[2] >= 128)
      BY <2>3, <2>6
    <3>2. PkgLen(p, 4) = 256 * (256 * (256 * c + (b % 256)) + (a % 256)) + (n % 256)
      BY <2>6, <3>1 DEF PkgLen
    <3> QED BY <2>1, <2>2, <2>3, <3>2
  <2>7. ASSUME NEW p, p[2] = LongBytes(n)[1], p[3] = LongBytes(n)[2], p[4] = LongBytes(n)[3], p[5] = LongBytes(n)[4]
        PROVE  PkgLen(p, 4) = n
    <3>1. p[2] = c /\ p[3] = b % 256 /\ p[4] = a % 256 /\ p[5] = n % 256
      BY <2>4, <2>7
    <3> QED BY <2>6, <3>1
  <2> QED BY <2>5, <2>7, <2>8
<1>2. ASSUME NEW n \in Nat, n <= ShortMax
      PROVE  /\ ShortBytes(n) \in Pieces /\ Len(ShortBytes(n)) = 2
             /\ \A p : p[2] = ShortBytes(n)[1] /\ p[3] = ShortBytes(n)[2] => PkgLen(p, 2) = n
  <2> DEFINE a == n \div 256
  <2>1. a \in Nat /\ n % 256 \in Nat /\ 256 * a + (n % 256) = n
    OBVIOUS
  <2> HIDE DEF a
  <2>2. ShortBytes(n) = <<a, n % 256>>
    BY DEF ShortBytes, a
  <2>3. ShortBytes(n) \in Pieces /\ Len(ShortBytes(n)) = 2
    BY <2>1, <2>2 DEF Pieces
  <2>4. ASSUME NEW p, p[2] = ShortBytes(n)[1], p[3] = ShortBytes(n)[2]
        PROVE  PkgLen(p, 2) = n
    <3>1. p[2] = a /\ p[3] = n % 256
      BY <2>2, <2>4
    <3> QED BY <2>1, <3>1 DEF PkgLen
  <2> QED BY <2>3, <2>4
<1> QED BY <1>1, <1>2

\* What is packed between marks: where each part of it lies.
Framing(p, body, w) ==
    /\ p \in Pieces /\ Len(p) = Len(body) + w + 2
    /\ p[1] = PkgHead /\ PkgLen(p, w) = Len(p) /\ p[Len(p)] = PkgTail
    /\ SubSeq(p, w + 2, w + 1 + Len(body)) = body
    /\ w = 4 => \A i \in 2 .. 5 : p[i] <= 255

LEMMA Enclosed ==
    ASSUME NEW h \in Pieces, NEW body \in Pieces, NEW w \in {2, 4}, Len(h) = w + 1, h[1] = PkgHead,
           \A p : (\A i \in 1 .. w + 1 : p[i] = h[i]) => PkgLen(p, w) = Len(body) + w + 2,
           w = 4 => \A i \in 2 .. 5 : h[i] <= 255
    PROVE  Framing((h \o body) \o <<PkgTail>>, body, w)
<1> DEFINE q == h \o body
           p == q \o <<PkgTail>>
<1>0. Len(body) \in Nat /\ <<PkgTail>> \in Pieces /\ Len(<<PkgTail>>) = 1 /\ <<PkgTail>>[1] = PkgTail /\ 1 \in 1 .. 1
  BY LengthZero DEF Pieces, PkgTail
<1>1. /\ q \in Pieces /\ Len(q) = Len(h) + Len(body)
      /\ \A i \in 1 .. Len(h) : q[i] = h[i]
      /\ \A i \in 1 .. Len(body) : q[Len(h) + i] = body[i]
  BY JoinedBytes
<1> HIDE DEF q
<1>2. /\ p \in Pieces /\ Len(p) = Len(q) + 1
      /\ \A i \in 1 .. Len(q) : p[i] = q[i]
      /\ p[Len(q) + 1] = PkgTail
  <2>1. /\ p \in Pieces /\ Len(p) = Len(q) + Len(<<PkgTail>>)
        /\ \A i \in 1 .. Len(q) : p[i] = q[i]
        /\ \A i \in 1 .. Len(<<PkgTail>>) : p[Len(q) + i] = <<PkgTail>>[i]
    BY <1>0, <1>1, JoinedBytes
  <2> HIDE DEF p
  <2> QED BY <1>0, <2>1
<1> HIDE DEF p
<1>3. Len(p) = Len(body) + w + 2 /\ p[Len(p)] = PkgTail
  BY <1>0, <1>1, <1>2
<1>4. \A i \in 1 .. w + 1 : p[i] = h[i]
  BY <1>0, <1>1, <1>2
<1>5. p[1] = PkgHead /\ PkgLen(p, w) = Len(p)
  BY <1>3, <1>4
<1>6. SubSeq(p, w + 2, w + 1 + Len(body)) = body
  <2> DEFINE m == w + 2
             n == w + 1 + Len(body)
             s == SubSeq(p, m, n)
  <2>0. m \in Int /\ n \in Int /\ 1 <= m /\ n <= Len(p) /\ n - m + 1 = Len(body) /\ (m <= n \/ Len(body) = 0)
    BY <1>0, <1>3
  <2>1. \A i \in m .. n : p[i] \in Nat
    <3>1. \A i \in 1 .. Len(p) : p[i] \in Nat
      BY <1>2, ElementOfSeq DEF Pieces
    <3>2. Len(p) \in Nat
      BY <1>0, <1>3
    <3> QED BY <2>0, <3>1, <3>2
  <2>2. \A i \in 1 .. Len(body) : p[m + i - 1] = body[i]
    <3> TAKE i \in 1 .. Len(body)
    <3>1. m + i - 1 = Len(h) + i /\ Len(h) + i \in 1 .. Len(q)
      BY <1>0, <1>1
    <3> QED BY <1>1, <1>2, <3>1
  <2> HIDE DEF s, m, n
  <2>3. s \in Seq(Nat) /\ Len(s) = (IF m <= n THEN n - m + 1 ELSE 0) /\ \A i \in 1 .. n - m + 1 : s[i] = p[m + i - 1]
    BY <2>0, <2>1, SubSeqProperties DEF s
  <2>4. Len(s) = Len(body)
    BY <1>0, <2>0, <2>3
  <2>5. \A i \in 1 .. Len(body) : s[i] = body[i]
    BY <2>0, <2>2, <2>3
  <2>6. s = body
    BY <2>3, <2>4, <2>5, SeqEqual DEF Pieces
  <2> QED BY <2>6 DEF s, m, n
<1>8. w = 4 => \A i \in 2 .. 5 : p[i] <= 255
  <2> SUFFICES ASSUME w = 4, NEW i \in 2 .. 5 PROVE p[i] <= 255
    OBVIOUS
  <2>1. p[i] = h[i]
    BY <1>4
  <2> QED BY <2>1
<1>7. Framing(p, body, w)
  BY <1>2, <1>3, <1>5, <1>6, <1>8 DEF Framing
<1> QED BY <1>7 DEF p, q

LEMMA PackedFraming ==
    ASSUME NEW body \in Bodies
    PROVE  /\ body \in Pieces
           /\ "h2t3" \in Filters => Framing(Packed("h2t3", body), body, 4)
           /\ "h2shortt3" \in Filters => Framing(Packed("h2shortt3", body), body, 2)
<1>0. body \in Pieces /\ Len(body) \in Nat
  BY PackageFiltersAssumption, LengthZero DEF Pieces
<1>a. <<PkgHead>> \in Pieces /\ Len(<<PkgHead>>) = 1 /\ <<PkgHead>>[1] = PkgHead /\ 1 \in 1 .. 1
  BY DEF Pieces, PkgHead
<1>1. ASSUME "h2t3" \in Filters PROVE Framing(Packed("h2t3", body), body, 4)
  <2>1. PICK n \in Nat : n = Len(body) + 6 /\ n <= IntMax
    BY <1>0, <1>1, PackageFiltersAssumption
  <2> DEFINE l == LongBytes(n)
             h == <<PkgHead>> \o l
  <2>2. /\ l \in Pieces /\ Len(l) = 4 /\ \A i \in 1 .. 4 : l[i] <= 255
        /\ \A p : p[2] = l[1] /\ p[3] = l[2] /\ p[4] = l[3] /\ p[5] = l[4] => PkgLen(p, 4) = n
    BY <2>1, LengthInBytes
  <2> HIDE DEF l
  <2>3. h \in Pieces /\ Len(h) = 1 + 4 /\ h[1] = PkgHead /\ \A i \in 1 .. 4 : h[1 + i] = l[i]
    <3>1. /\ h \in Pieces /\ Len(h) = Len(<<PkgHead>>) + Len(l)
          /\ \A i \in 1 .. Len(<<PkgHead>>) : h[i] = <<PkgHead>>[i]
          /\ \A i \in 1 .. Len(l) : h[Len(<<PkgHead>>) + i] = l[i]
      BY <1>a, <2>2, JoinedBytes
    <3> HIDE DEF h
    <3> QED BY <1>a, <2>2, <3>1
  <2> HIDE DEF h
  <2>4. h[2] = l[1] /\ h[3] = l[2] /\ h[4] = l[3] /\ h[5] = l[4]
    BY <2>3
  <2>5. ASSUME NEW p, \A i \in 1 .. 4 + 1 : p[i] = h[i] PROVE PkgLen(p, 4) = Len(body) + 4 + 2
    <3>1. p[2] = l[1] /\ p[3] = l[2] /\ p[4] = l[3] /\ p[5] = l[4]
      BY <2>4, <2>5
    <3> QED BY <1>0, <2>1, <2>2, <3>1
  <2>8. \A i \in 2 .. 5 : h[i] <= 255
    <3>1. \A i \in 2 .. 5 : i = 2 \/ i = 3 \/ i = 4 \/ i = 5
      OBVIOUS
    <3> QED BY <2>2, <2>4, <3>1
  <2>6. Framing((h \o body) \o <<PkgTail>>, body, 4)
    BY <1>0, <2>3, <2>5, <2>8, Enclosed
  <2>7. Packed("h2t3", body) = (h \o body) \o <<PkgTail>>
    BY <2>1 DEF Packed, h, l
  <2> QED BY <2>6, <2>7
<1>2. ASSUME "h2shortt3" \in Filters PROVE Framing(Packed("h2shortt3", body), body, 2)
  <2>1. PICK n \in Nat : n = Len(body) + 4 /\ n <= ShortMax
    BY <1>0, <1>2, PackageFiltersAssumption
  <2> DEFINE l == ShortBytes(n)
             h == <<PkgHead>> \o l
  <2>2. l \in Pieces /\ Len(l) = 2 /\ \A p : p[2] = l[1] /\ p[3] = l[2] => PkgLen(p, 2) = n
    BY <2>1, LengthInBytes
  <2> HIDE DEF l
  <2>3. h \in Pieces /\ Len(h) = 1 + 2 /\ h[1] = PkgHead /\ \A i \in 1 .. 2 : h[1 + i] = l[i]
    <3>1. /\ h \in Pieces /\ Len(h) = Len(<<PkgHead>>) + Len(l)
          /\ \A i \in 1 .. Len(<<PkgHead>>) : h[i] = <<PkgHead>>[i]
          /\ \A i \in 1 .. Len(l) : h[Len(<<PkgHead>>) + i] = l[i]
      BY <1>a, <2>2, JoinedBytes
    <3> HIDE DEF h
    <3> QED BY <1>a, <2>2, <3>1
  <2> HIDE DEF h
  <2>4. h[2] = l[1] /\ h[3] = l[2]
    BY <2>3
  <2>5. ASSUME NEW p, \A i \in 1 .. 2 + 1 : p[i] = h[i] PROVE PkgLen(p, 2) = Len(body) + 2 + 2
    <3>1. p[2] = l[1] /\ p[3] = l[2]
      BY <2>4, <2>5
    <3> QED BY <1>0, <2>1, <2>2, <3>1
  <2>6. Framing((h \o body) \o <<PkgTail>>, body, 2)
    BY <1>0, <2>3, <2>5, Enclosed
  <2>7. Packed("h2shortt3", body) = (h \o body) \o <<PkgTail>>
    BY <2>1 DEF Packed, h, l
  <2> QED BY <2>6, <2>7
<1> QED BY <1>0, <1>1, <1>2

-----------------------------------------------------------------------------
(* The search for the end of a head, in what has come and what lies behind. *)
Ends(s, i) == s[i + 1] = CR /\ s[i + 2] = LF /\ s[i + 3] = CR /\ s[i + 4] = LF
LEMMA HeadEndsAre ==
    ASSUME NEW s \in Pieces
    PROVE  HeadEnds(s) = {i \in 0 .. Len(s) - 1 : i + 4 <= Len(s) /\ Ends(s, i)}
<1> DEFINE m == <<CR, LF, CR, LF>>
<1>0. Len(s) \in Nat /\ \A i \in 1 .. Len(s) : s[i] \in Nat
  BY LenProperties, ElementOfSeq DEF Pieces
<1>m. m \in Pieces /\ Len(m) = 4 /\ m[1] = CR /\ m[2] = LF /\ m[3] = CR /\ m[4] = LF
  BY DEF Pieces, CR, LF
<1> HIDE DEF m
<1>1. SubSeq(m, 1, 4) = m
  <2>1. \A i \in 1 .. 4 : m[i] \in Nat
    BY <1>m, ElementOfSeq DEF Pieces
  <2> DEFINE n == SubSeq(m, 1, 4)
  <2>2. n \in Seq(Nat) /\ Len(n) = (IF 1 <= 4 THEN 4 - 1 + 1 ELSE 0) /\ \A i \in 1 .. 4 - 1 + 1 : n[i] = m[1 + i - 1]
    BY <2>1, SubSeqProperties
  <2> HIDE DEF n
  <2>3. Len(n) = 4 /\ \A i \in 1 .. 4 : n[i] = m[i]
    BY <2>2
  <2>4. n = m
    BY <1>m, <2>2, <2>3, SeqEqual DEF Pieces
  <2> QED BY <2>4 DEF n
<1>2. ASSUME NEW i \in 0 .. Len(s) - 1
      PROVE  IsPrefix(m, SubSeq(s, i + 1, Len(s))) <=> i + 4 <= Len(s) /\ Ends(s, i)
  <2> DEFINE t == SubSeq(s, i + 1, Len(s))
             u == SubSeq(t, 1, 4)
  <2>1. t \in Pieces /\ Len(t) = Len(s) - i /\ \A j \in 1 .. Len(s) - i : t[j] = s[i + j]
    <3>0. i + 1 \in Int /\ Len(s) \in Int /\ i + 1 <= Len(s) /\ \A j \in i + 1 .. Len(s) : s[j] \in Nat
      BY <1>0
    <3> HIDE DEF t
    <3>1. t \in Seq(Nat) /\ Len(t) = (IF i + 1 <= Len(s) THEN Len(s) - (i + 1) + 1 ELSE 0)
          /\ \A j \in 1 .. Len(s) - (i + 1) + 1 : t[j] = s[i + 1 + j - 1]
      BY <3>0, SubSeqProperties DEF t
    <3>2. Len(t) = Len(s) - i
      BY <1>0, <3>0, <3>1
    <3>3. ASSUME NEW j \in 1 .. Len(s) - i PROVE t[j] = s[i + j]
      <4>1. j \in 1 .. Len(s) - (i + 1) + 1 /\ i + 1 + j - 1 = i + j
        BY <1>0
      <4> QED BY <3>1, <4>1
    <3> QED BY <3>1, <3>2, <3>3 DEF Pieces
  <2> HIDE DEF t
  <2>2. CASE i + 4 <= Len(s)
    <3>1. 4 <= Len(t) /\ t[1] = s[i + 1] /\ t[2] = s[i + 2] /\ t[3] = s[i + 3] /\ t[4] = s[i + 4]
      BY <1>0, <2>1, <2>2
    <3>2. u \in Seq(Nat) /\ Len(u) = 4 /\ u[1] = t[1] /\ u[2] = t[2] /\ u[3] = t[3] /\ u[4] = t[4]
      <4>0. \A j \in 1 .. 4 : t[j] \in Nat
        <5>1. \A j \in 1 .. Len(t) : t[j] \in Nat
          BY <2>1, ElementOfSeq DEF Pieces
        <5> QED BY <1>0, <2>1, <3>1, <5>1
      <4>1. u \in Seq(Nat) /\ Len(u) = (IF 1 <= 4 THEN 4 - 1 + 1 ELSE 0) /\ \A j \in 1 .. 4 - 1 + 1 : u[j] = t[1 + j - 1]
        BY <4>0, SubSeqProperties
      <4> HIDE DEF u
      <4>2. \A j \in 1 .. 4 : u[j] = t[j]
        BY <4>1
      <4> QED BY <4>1, <4>2
    <3> HIDE DEF u
    <3>3. Ends(s, i) => u = m
      <4>1. Ends(s, i) => \A j \in 1 .. 4 : u[j] = m[j]
        <5>1. \A j \in 1 .. 4 : j = 1 \/ j = 2 \/ j = 3 \/ j = 4
          OBVIOUS
        <5> QED BY <1>m, <3>1, <3>2, <5>1 DEF Ends
      <4> QED BY <1>m, <3>2, <4>1, SeqEqual DEF Pieces
    <3>4. u = m => Ends(s, i)
      BY <1>m, <3>1, <3>2 DEF Ends
    <3>5. IsPrefix(m, t) <=> 4 <= Len(t) /\ m = u
      BY <1>m, <1>1 DEF IsPrefix, u
    <3>6. IsPrefix(m, t) <=> Ends(s, i)
      BY <3>1, <3>3, <3>4, <3>5
    <3> QED BY <2>2, <3>6 DEF t
  <2>3. CASE ~(i + 4 <= Len(s))
    <3>1. ~(4 <= Len(t))
      BY <1>0, <2>1, <2>3
    <3> QED BY <1>m, <2>3, <3>1 DEF IsPrefix, t
  <2> QED BY <2>2, <2>3
<1>3. HeadEnds(s) = {i \in 0 .. Len(s) - 1 : IsPrefix(m, SubSeq(s, i + 1, Len(s)))}
  BY DEF HeadEnds, m
<1> QED BY <1>2, <1>3

LEMMA BeforeIs ==
    ASSUME NEW s, NEW at \in SUBSET Nat, at # {}
    PROVE  Before(s, at) \in at /\ \A i \in at : Before(s, at) <= i
<1>1. \E i \in at : \A j \in at : i <= j
  BY Least
<1> QED BY <1>1 DEF Before

\* The head of p ends e + 4 bytes from its front and no earlier; its length is
\* that of the head, or what a field in the head adds to it.
Headed(p, e) ==
    /\ e \in Nat /\ e + 4 <= Len(p) /\ Ends(p, e)
    /\ \A i \in 0 .. e - 1 : ~Ends(p, i)
    /\ \/ Len(p) = e + 4 /\ \A i \in 1 .. e + 4 : p[i] < ContentLength
       \/ \E f \in 0 .. e + 3 :
             /\ p[f + 1] >= ContentLength /\ Len(p) = e + 4 + (p[f + 1] - ContentLength)
             /\ \A i \in 1 .. f : p[i] < ContentLength

LEMMA EndsSame ==
    ASSUME NEW d \in Pieces, NEW p \in Pieces, Starts(d, p), NEW i \in Nat, i + 4 <= Len(d), i + 4 <= Len(p)
    PROVE  Ends(d, i) <=> Ends(p, i)
<1>1. i + 1 \in 1 .. Len(p) /\ i + 2 \in 1 .. Len(p) /\ i + 3 \in 1 .. Len(p) /\ i + 4 \in 1 .. Len(p)
  BY LengthZero
<1>2. i + 1 <= Len(d) /\ i + 2 <= Len(d) /\ i + 3 <= Len(d)
  BY LengthZero
<1>3. d[i + 1] = p[i + 1] /\ d[i + 2] = p[i + 2] /\ d[i + 3] = p[i + 3] /\ d[i + 4] = p[i + 4]
  <2> DEFINE same(k) == k <= Len(d) => d[k] = p[k]
  <2>1. same(i + 1)
    BY <1>1, Zenon DEF Starts
  <2>2. same(i + 2)
    BY <1>1, Zenon DEF Starts
  <2>3. same(i + 3)
    BY <1>1, Zenon DEF Starts
  <2>4. same(i + 4)
    BY <1>1, Zenon DEF Starts
  <2> QED BY <1>2, <2>1, <2>2, <2>3, <2>4
<1> QED BY <1>3 DEF Ends

\* Until the head of p is there, no end is found within what has come; then its own is the first.
LEMMA HeadFound ==
    ASSUME NEW d \in Pieces, NEW after \in Pieces, NEW p \in Pieces, Starts(d, p), NEW e, Headed(p, e)
    PROVE  /\ Len(d) < e + 4 => \A i \in HeadEnds(d \o after) : i + 4 > Len(d)
           /\ Len(d) >= e + 4 => e \in HeadEnds(d \o after) /\ \A i \in HeadEnds(d \o after) : e <= i
<1> DEFINE mem == d \o after
           ends == HeadEnds(mem)
<1>0. Len(d) \in Nat /\ Len(after) \in Nat /\ Len(p) \in Nat /\ e \in Nat /\ e + 4 <= Len(p)
  BY LengthZero DEF Headed
<1>1. mem \in Pieces /\ Len(mem) = Len(d) + Len(after) /\ \A i \in 1 .. Len(d) : mem[i] = d[i]
  BY JoinedBytes
<1> HIDE DEF mem
<1>2. ends = {i \in 0 .. Len(mem) - 1 : i + 4 <= Len(mem) /\ Ends(mem, i)}
  BY <1>1, HeadEndsAre
<1> HIDE DEF ends
<1>3. ASSUME NEW i \in Nat, i + 4 <= Len(d) PROVE Ends(mem, i) <=> Ends(d, i)
  <2>1. i + 1 \in 1 .. Len(d) /\ i + 2 \in 1 .. Len(d) /\ i + 3 \in 1 .. Len(d) /\ i + 4 \in 1 .. Len(d)
    BY <1>0, <1>3
  <2>2. mem[i + 1] = d[i + 1] /\ mem[i + 2] = d[i + 2] /\ mem[i + 3] = d[i + 3] /\ mem[i + 4] = d[i + 4]
    BY <1>1, <2>1
  <2> QED BY <2>2 DEF Ends
<1>4. ASSUME NEW i \in ends, i < e, i + 4 <= Len(d) PROVE FALSE
  <2>1. i \in Nat /\ i \in 0 .. e - 1 /\ i + 4 <= Len(p) /\ Ends(mem, i)
    BY <1>0, <1>1, <1>2, <1>4
  <2>2. Ends(p, i)
    BY <1>3, <1>4, <2>1, EndsSame
  <2> QED BY <2>1, <2>2 DEF Headed
<1>5. \A i \in ends : i \in Nat
  BY <1>0, <1>1, <1>2
<1>6. ASSUME Len(d) < e + 4, NEW i \in ends PROVE i + 4 > Len(d)
  <2>1. CASE i + 4 <= Len(d)
    <3>1. i < e
      BY <1>0, <1>5, <1>6, <2>1
    <3> QED BY <1>4, <2>1, <3>1
  <2> QED BY <1>0, <1>5, <2>1
<1>7. ASSUME Len(d) >= e + 4 PROVE e \in ends /\ \A i \in ends : e <= i
  <2>1. Ends(p, e)
    BY DEF Headed
  <2>2. Ends(mem, e)
    BY <1>0, <1>3, <1>7, <2>1, EndsSame
  <2>3. e \in ends
    BY <1>0, <1>1, <1>2, <1>7, <2>2
  <2>4. ASSUME NEW i \in ends PROVE e <= i
    <3>1. CASE i < e
      <4>1. i + 4 <= Len(d)
        BY <1>0, <1>5, <1>7, <3>1
      <4> QED BY <1>4, <3>1, <4>1
    <3> QED BY <1>0, <1>5, <3>1
  <2> QED BY <2>3, <2>4
<1> QED BY <1>6, <1>7 DEF ends, mem

LEMMA HttpFits ==
    ASSUME NEW d \in Pieces, NEW after \in Pieces, NEW p \in Pieces, Starts(d, p), NEW e, Headed(p, e)
    PROVE  Http(d, after) = IF Len(d) < Len(p) THEN Partial ELSE Whole(Len(p), Len(p))
<1> DEFINE mem == d \o after
           ends == HeadEnds(mem)
           fields == LengthFields(mem)
           head == Before(mem, ends) + 4
           field == Before(mem, fields)
           more == IF field < head THEN mem[field + 1] - ContentLength ELSE 0
           len == head + more
<1>0. Len(d) \in Nat /\ Len(after) \in Nat /\ Len(p) \in Nat /\ e \in Nat /\ e + 4 <= Len(p)
  BY LengthZero DEF Headed
<1>1. mem \in Pieces /\ Len(mem) = Len(d) + Len(after) /\ \A i \in 1 .. Len(d) : mem[i] = d[i]
  BY JoinedBytes
<1>2. \A i \in 1 .. Len(mem) : mem[i] \in Nat
  BY <1>1, ElementOfSeq DEF Pieces
<1>3. /\ Len(d) < e + 4 => \A i \in ends : i + 4 > Len(d)
      /\ Len(d) >= e + 4 => e \in ends /\ \A i \in ends : e <= i
  BY HeadFound
<1>4. ends \in SUBSET (0 .. Len(mem) - 4)
  <2> HIDE DEF mem
  <2>1. ends = {i \in 0 .. Len(mem) - 1 : i + 4 <= Len(mem) /\ Ends(mem, i)}
    BY <1>1, HeadEndsAre
  <2> HIDE DEF ends
  <2> QED BY <1>0, <1>1, <2>1
<1>5. Http(d, after) = IF ends # {} /\ len <= Len(d) THEN Whole(len, len) ELSE Partial
  BY DEF Http
<1> HIDE DEF mem
<1>6. fields = {i \in 0 .. Len(mem) - 1 : mem[i + 1] >= ContentLength}
  BY DEF LengthFields
<1> HIDE DEF ends, fields
<1>7. ASSUME ends # {}
      PROVE  head \in Nat /\ head <= Len(mem) /\ head - 4 \in ends /\ \A i \in ends : head <= i + 4
  <2>1. ends \in SUBSET Nat
    BY <1>0, <1>1, <1>4
  <2>2. PICK b \in ends : b = Before(mem, ends) /\ \A i \in ends : b <= i
    BY <1>7, <2>1, BeforeIs
  <2>3. b \in Nat /\ b + 4 <= Len(mem) /\ \A i \in ends : i \in Nat
    BY <1>0, <1>1, <1>4, <2>2
  <2>4. head = b + 4 /\ head - 4 = b
    BY <2>2, <2>3
  <2> HIDE DEF head
  <2> QED BY <2>2, <2>3, <2>4
\* Where the first field lies, if it lies in the head.
<1>8. /\ field \in Nat
      /\ field < Len(mem) => mem[field + 1] \in Nat /\ mem[field + 1] >= ContentLength
      /\ \A i \in 0 .. Len(mem) - 1 : mem[i + 1] >= ContentLength => field <= i
  <2>1. CASE fields = {}
    <3>1. field = Len(mem)
      BY <2>1 DEF Before
    <3>2. \A i \in 0 .. Len(mem) - 1 : ~(mem[i + 1] >= ContentLength)
      BY <1>6, <2>1
    <3> HIDE DEF field
    <3> QED BY <1>0, <1>1, <3>1, <3>2
  <2>2. CASE fields # {}
    <3>0. fields \in SUBSET Nat
      BY <1>0, <1>1, <1>6
    <3>1. field \in fields /\ \A i \in fields : field <= i
      BY <2>2, <3>0, BeforeIs
    <3> HIDE DEF field
    <3>2. field \in 0 .. Len(mem) - 1 /\ mem[field + 1] >= ContentLength
      BY <1>6, <3>1
    <3>3. field + 1 \in 1 .. Len(mem)
      BY <1>0, <1>1, <3>2
    <3>4. mem[field + 1] \in Nat
      BY <1>2, <3>3
    <3> QED BY <1>6, <3>1, <3>2, <3>4
  <2> QED BY <2>1, <2>2
<1> HIDE DEF head, field
<1>9. CASE Len(d) < e + 4
  <2>1. ASSUME ends # {} PROVE ~(len <= Len(d))
    <3>1. head \in Nat /\ head <= Len(mem) /\ head - 4 \in ends
      BY <1>7, <2>1
    <3>2. head > Len(d)
      <4>1. PICK i \in ends : i = head - 4
        BY <3>1
      <4>2. i + 4 > Len(d) /\ i + 4 = head
        BY <1>3, <1>9, <3>1, <4>1
      <4> QED BY <4>2
    <3>3. more \in Nat
      BY <1>0, <1>1, <1>8, <3>1 DEF ContentLength
    <3> HIDE DEF more
    <3> QED BY <1>0, <3>1, <3>2, <3>3
  <2> HIDE DEF len
  <2> QED BY <1>0, <1>5, <1>9, <2>1
<1>10. CASE Len(d) >= e + 4
  <2>1. ends # {} /\ e \in ends
    BY <1>3, <1>10
  <2>2. head = e + 4 /\ head <= Len(mem)
    <3>1. head \in Nat /\ head <= Len(mem) /\ head - 4 \in ends /\ head <= e + 4
      BY <1>7, <2>1
    <3>2. e <= head - 4
      BY <1>3, <1>10, <3>1
    <3> QED BY <1>0, <3>1, <3>2
  <2>3. \A i \in 1 .. e + 4 : p[i] = mem[i] /\ i \in 1 .. Len(mem)
    BY <1>0, <1>1, <1>10 DEF Starts
  <2>4. \A i \in 0 .. e + 3 : i + 1 \in 1 .. e + 4 /\ i \in 0 .. Len(mem) - 1 /\ p[i + 1] = mem[i + 1]
    <3> TAKE i \in 0 .. e + 3
    <3>1. i + 1 \in 1 .. e + 4
      BY <1>0
    <3>2. p[i + 1] = mem[i + 1] /\ i + 1 \in 1 .. Len(mem)
      BY <2>3, <3>1
    <3> QED BY <1>0, <1>1, <3>1, <3>2
  <2>5. len = Len(p)
    <3>1. CASE Len(p) = e + 4 /\ \A i \in 1 .. e + 4 : p[i] < ContentLength
      <4>1. ~(field < head)
        <5> SUFFICES ASSUME field < head PROVE FALSE
          OBVIOUS
        <5>1. field \in 0 .. e + 3 /\ field < Len(mem)
          BY <1>0, <1>1, <1>8, <2>2
        <5>2. p[field + 1] < ContentLength /\ p[field + 1] = mem[field + 1]
          BY <2>4, <3>1, <5>1
        <5> QED BY <1>8, <5>1, <5>2 DEF ContentLength
      <4>2. more = 0
        BY <4>1
      <4> HIDE DEF more
      <4> QED BY <1>0, <2>2, <3>1, <4>2
    <3>2. CASE \E f \in 0 .. e + 3 :
                 /\ p[f + 1] >= ContentLength /\ Len(p) = e + 4 + (p[f + 1] - ContentLength)
                 /\ \A i \in 1 .. f : p[i] < ContentLength
      <4>1. PICK f \in 0 .. e + 3 :
                 /\ p[f + 1] >= ContentLength /\ Len(p) = e + 4 + (p[f + 1] - ContentLength)
                 /\ \A i \in 1 .. f : p[i] < ContentLength
        BY <3>2
      <4>2. p[f + 1] = mem[f + 1] /\ f \in 0 .. Len(mem) - 1
        BY <2>4
      <4>3. field <= f
        BY <1>8, <4>1, <4>2
      <4>4. ~(field < f)
        <5> SUFFICES ASSUME field < f PROVE FALSE
          OBVIOUS
        <5>1. field \in 0 .. e + 3 /\ field < Len(mem) /\ field + 1 \in 1 .. f
          BY <1>0, <1>1, <1>8, <2>2, <4>1
        <5>2. p[field + 1] < ContentLength /\ p[field + 1] = mem[field + 1]
          BY <2>4, <4>1, <5>1
        <5> QED BY <1>8, <5>1, <5>2 DEF ContentLength
      <4>5. field = f
        BY <1>8, <4>1, <4>3, <4>4
      <4>6. more = p[f + 1] - ContentLength
        BY <1>0, <2>2, <4>1, <4>2, <4>5
      <4> HIDE DEF more
      <4> QED BY <2>2, <4>1, <4>6
    <3> QED BY <3>1, <3>2 DEF Headed
  <2> HIDE DEF len
  <2> QED BY <1>0, <1>5, <1>10, <2>1, <2>5
<1> QED BY <1>0, <1>9, <1>10

\* A request without a body, and a response with one.
LEMMA PackedHeaded ==
    ASSUME NEW body \in Bodies
    PROVE  Packed("http", body) \in Pieces /\ \E e : Headed(Packed("http", body), e)
<1>0. body \in Pieces /\ Len(body) \in Nat /\ (Len(body) = 0 <=> body = <<>>)
  BY PackageFiltersAssumption, LengthZero DEF Pieces
<1>z. <<CR, LF>> \in Pieces /\ Len(<<CR, LF>>) = 2 /\ <<CR, LF>>[1] = CR /\ <<CR, LF>>[2] = LF
  BY DEF Pieces, CR, LF
<1> DEFINE z == <<CR, LF>>
<1>1. ASSUME body = <<>> PROVE Packed("http", body) \in Pieces /\ \E e : Headed(Packed("http", body), e)
  <2> DEFINE x == <<GET, CR, LF>>
             p == x \o z
  <2>1. x \in Pieces /\ Len(x) = 3 /\ x[1] = GET /\ x[2] = CR /\ x[3] = LF
    BY DEF Pieces, GET, CR, LF
  <2>2. Packed("http", body) = ((x \o <<>>) \o z) \o <<>>
    BY <1>1 DEF Packed
  <2> HIDE DEF x, z
  <2>3. /\ p \in Pieces /\ Len(p) = Len(x) + Len(z)
        /\ \A i \in 1 .. Len(x) : p[i] = x[i]
        /\ \A i \in 1 .. Len(z) : p[Len(x) + i] = z[i]
    BY <1>z, <2>1, JoinedBytes DEF z
  <2>4. Packed("http", body) = p
    BY <2>1, <2>2, <2>3, NothingAdded
  <2> HIDE DEF p
  <2>5. Len(p) = 5 /\ p[1] = GET /\ p[2] = CR /\ p[3] = LF /\ p[4] = CR /\ p[5] = LF
    <3>1. p[1] = x[1] /\ p[2] = x[2] /\ p[3] = x[3]
      BY <2>1, <2>3
    <3>2. p[3 + 1] = z[1] /\ p[3 + 2] = z[2]
      BY <1>z, <2>1, <2>3 DEF z
    <3> QED BY <1>z, <2>1, <2>3, <3>1, <3>2 DEF z
  <2>6. Headed(p, 1)
    <3>1. \A i \in 0 .. 1 - 1 : i = 0
      OBVIOUS
    <3>2. ~Ends(p, 0) /\ Ends(p, 1)
      BY <2>5 DEF Ends, GET, CR
    <3>3. \A i \in 1 .. 5 : i = 1 \/ i = 2 \/ i = 3 \/ i = 4 \/ i = 5
      OBVIOUS
    <3>4. \A i \in 1 .. 1 + 4 : p[i] < ContentLength
      BY <2>5, <3>3 DEF ContentLength, GET, CR, LF
    <3> QED BY <2>5, <3>1, <3>2, <3>4 DEF Headed
  <2> QED BY <2>3, <2>4, <2>6
<1>2. ASSUME body # <<>> PROVE Packed("http", body) \in Pieces /\ \E e : Headed(Packed("http", body), e)
  <2> DEFINE x == <<HTTP, CR, LF>>
             y == <<ContentLength + Len(body), CR, LF>>
             a == x \o y
             b == a \o z
             p == b \o body
  <2>1. x \in Pieces /\ Len(x) = 3 /\ x[1] = HTTP /\ x[2] = CR /\ x[3] = LF
    BY DEF Pieces, HTTP, CR, LF
  <2>2. y \in Pieces /\ Len(y) = 3 /\ y[1] = ContentLength + Len(body) /\ y[2] = CR /\ y[3] = LF
    BY <1>0 DEF Pieces, ContentLength, CR, LF
  <2>3. Packed("http", body) = p
    BY <1>2 DEF Packed
  <2> HIDE DEF x, y, z
  <2>4. /\ a \in Pieces /\ Len(a) = Len(x) + Len(y)
        /\ \A i \in 1 .. Len(x) : a[i] = x[i]
        /\ \A i \in 1 .. Len(y) : a[Len(x) + i] = y[i]
    BY <2>1, <2>2, JoinedBytes
  <2> HIDE DEF a
  <2>5. /\ b \in Pieces /\ Len(b) = Len(a) + Len(z)
        /\ \A i \in 1 .. Len(a) : b[i] = a[i]
        /\ \A i \in 1 .. Len(z) : b[Len(a) + i] = z[i]
    BY <1>z, <2>4, JoinedBytes DEF z
  <2> HIDE DEF b
  <2>6. p \in Pieces /\ Len(p) = Len(b) + Len(body) /\ \A i \in 1 .. Len(b) : p[i] = b[i]
    BY <1>0, <2>5, JoinedBytes
  <2> HIDE DEF p
  <2>7. Len(a) = 6 /\ a[1] = x[1] /\ a[2] = x[2] /\ a[3] = x[3] /\ a[3 + 1] = y[1] /\ a[3 + 2] = y[2] /\ a[3 + 3] = y[3]
    BY <2>1, <2>2, <2>4
  <2>8. Len(b) = 8 /\ \A i \in 1 .. 6 : b[i] = a[i]
    BY <1>z, <2>5, <2>7 DEF z
  <2>9. b[6 + 1] = z[1] /\ b[6 + 2] = z[2]
    BY <1>z, <2>5, <2>7 DEF z
  <2>10. /\ b[1] = HTTP /\ b[2] = CR /\ b[3] = LF /\ b[4] = ContentLength + Len(body)
         /\ b[5] = CR /\ b[6] = LF /\ b[7] = CR /\ b[8] = LF
    BY <1>z, <2>1, <2>2, <2>7, <2>8, <2>9 DEF z
  <2>11. \A i \in 1 .. 8 : p[i] = b[i]
    BY <2>6, <2>8
  <2>12. /\ p[1] = HTTP /\ p[2] = CR /\ p[3] = LF /\ p[4] = ContentLength + Len(body)
         /\ p[5] = CR /\ p[6] = LF /\ p[7] = CR /\ p[8] = LF
    BY <2>10, <2>11
  <2>13. Headed(p, 4)
    <3>1. \A i \in 0 .. 4 - 1 : i = 0 \/ i = 1 \/ i = 2 \/ i = 3
      OBVIOUS
    <3>2. ~Ends(p, 0) /\ ~Ends(p, 1) /\ ~Ends(p, 2) /\ ~Ends(p, 3) /\ Ends(p, 4)
      <4>1. p[4] # CR /\ p[4] # LF
        BY <1>0, <2>12 DEF ContentLength, CR, LF
      <4>2. ~Ends(p, 0)
        BY <2>12 DEF Ends, HTTP, CR
      <4>3. ~Ends(p, 1)
        BY <4>1 DEF Ends
      <4>4. ~Ends(p, 2)
        BY <2>12 DEF Ends, CR, LF
      <4>5. ~Ends(p, 3)
        BY <4>1 DEF Ends
      <4> QED BY <2>12, <4>2, <4>3, <4>4, <4>5 DEF Ends
    <3>3. \A i \in 1 .. 3 : i = 1 \/ i = 2 \/ i = 3
      OBVIOUS
    <3>4. \A i \in 1 .. 3 : p[i] < ContentLength
      BY <2>12, <3>3 DEF ContentLength, HTTP, CR, LF
    <3>5. Len(p) = 8 + Len(body)
      BY <1>0, <2>6, <2>8
    <3>6. p[3 + 1] >= ContentLength /\ Len(p) = 4 + 4 + (p[3 + 1] - ContentLength) /\ 3 \in 0 .. 4 + 3
      BY <1>0, <2>12, <3>5 DEF ContentLength
    <3>7. 4 \in Nat /\ 4 + 4 <= Len(p)
      BY <1>0, <3>5
    <3>8. \E f \in 0 .. 4 + 3 :
             /\ p[f + 1] >= ContentLength /\ Len(p) = 4 + 4 + (p[f + 1] - ContentLength)
             /\ \A i \in 1 .. f : p[i] < ContentLength
      BY <3>4, <3>6
    <3> QED BY <3>1, <3>2, <3>7, <3>8 DEF Headed
  <2> QED BY <2>3, <2>6, <2>13
<1> QED BY <1>1, <1>2

-----------------------------------------------------------------------------
(* The invariant: what was handed out, what has come and what is still on  *)
(* its way are, joined, what was sent.                                     *)
PackageTypes ==
    /\ filter \in Filters
    /\ packages \in Seq(Bodies) /\ Len(packages) >= 1
    /\ garbled \in (0 .. Len(packages)) \X {"head", "length", "tail"}
    /\ garbled[1] # 0 => filter \in {"h2t3", "h2shortt3"}
    /\ wire \in Pieces /\ recvBuf \in Pieces /\ behind \in Pieces
    /\ handed \in Seq(Pieces) /\ invalid \in BOOLEAN
StillToCome ==
    IF filter = "raw" THEN FlattenSeq(handed) \o (recvBuf \o wire) = FlattenSeq(packages)
    ELSE /\ Len(handed) <= Ungarbled /\ \A i \in 1 .. Len(handed) : handed[i] = Expected[i]
         /\ Upto(Sent, Len(handed)) \o (recvBuf \o wire) = FlattenSeq(Sent)
PackageInv == PackageTypes /\ StillToCome /\ (invalid => IsWholePkg.flag = -2)

LEMMA PackedIs ==
    ASSUME NEW f \in Filters, NEW body \in Bodies
    PROVE  /\ body \in Pieces /\ Packed(f, body) \in Pieces
           /\ f = "raw" => Packed(f, body) = body
           /\ f = "h2t3" => Framing(Packed(f, body), body, 4)
           /\ f = "h2shortt3" => Framing(Packed(f, body), body, 2)
           /\ f = "http" => \E e : Headed(Packed(f, body), e)
<1>1. f \in {"raw", "h2t3", "h2shortt3", "http"}
  BY PackageFiltersAssumption
<1>2. CASE f = "raw"
  BY <1>2, PackedFraming DEF Packed
<1>3. CASE f = "h2t3"
  BY <1>3, PackedFraming DEF Framing
<1>4. CASE f = "h2shortt3"
  BY <1>4, PackedFraming DEF Framing
<1>5. CASE f = "http"
  BY <1>5, PackedFraming, PackedHeaded
<1> QED BY <1>1, <1>2, <1>3, <1>4, <1>5

LEMMA Replaced ==
    ASSUME NEW p \in Pieces, NEW k \in 1 .. Len(p), NEW v \in Nat
    PROVE  /\ ReplaceAt(p, k, v) \in Pieces /\ Len(ReplaceAt(p, k, v)) = Len(p)
           /\ ReplaceAt(p, k, v)[k] = v
           /\ \A i \in 1 .. Len(p) : i # k => ReplaceAt(p, k, v)[i] = p[i]
<1>1. Len(p) \in Nat /\ p \in [1 .. Len(p) -> Nat]
  BY LenProperties, SeqDef, ElementOfSeq DEF Pieces
<1>2. ReplaceAt(p, k, v) = [p EXCEPT ![k] = v]
  BY DEF ReplaceAt
<1>3. ReplaceAt(p, k, v) \in [1 .. Len(p) -> Nat]
  BY <1>1, <1>2
<1>4. ReplaceAt(p, k, v) \in Pieces /\ Len(ReplaceAt(p, k, v)) = Len(p)
  <2>1. PICK n \in Nat : n = Len(p)
    BY <1>1
  <2>2. PICK q \in [1 .. n -> Nat] : q = ReplaceAt(p, k, v)
    BY <1>3, <2>1
  <2>3. q \in Seq(Nat) /\ Len(q) = n
    BY LenProperties, SeqDef
  <2> QED BY <2>1, <2>2, <2>3 DEF Pieces
<1>5. ReplaceAt(p, k, v)[k] = v /\ \A i \in 1 .. Len(p) : i # k => ReplaceAt(p, k, v)[i] = p[i]
  BY <1>1, <1>2
<1> QED BY <1>4, <1>5

\* What is left of a package that was garbled, and what is wrong with it.
LEMMA GarbledIs ==
    ASSUME NEW p \in Pieces, Len(p) >= 4, garbled[2] \in {"head", "length", "tail"}
    PROVE  /\ Garbled(p) \in Pieces /\ Len(Garbled(p)) = Len(p)
           /\ garbled[2] = "head" => Garbled(p)[1] = 0
           /\ garbled[2] = "tail" => Garbled(p)[Len(p)] = 0 /\ \A i \in 1 .. Len(p) - 1 : Garbled(p)[i] = p[i]
           /\ garbled[2] = "length" =>
                 /\ Garbled(p)[1] = p[1]
                 /\ filter = "h2t3" => Garbled(p)[2] = 255 /\ \A i \in 3 .. Len(p) : Garbled(p)[i] = p[i]
                 /\ filter # "h2t3" => Garbled(p)[2] = 0 /\ Garbled(p)[3] = 0
<1>0. Len(p) \in Nat
  BY LengthZero
<1>1. 1 \in 1 .. Len(p) /\ 2 \in 1 .. Len(p) /\ 3 \in 1 .. Len(p) /\ Len(p) \in 1 .. Len(p)
  BY <1>0
<1>2. CASE garbled[2] = "head"
  <2>1. Garbled(p) = ReplaceAt(p, 1, 0)
    BY <1>2 DEF Garbled
  <2> QED BY <1>1, <1>2, <2>1, Replaced
<1>3. CASE garbled[2] = "tail"
  <2>1. Garbled(p) = ReplaceAt(p, Len(p), 0)
    BY <1>3 DEF Garbled
  <2>2. /\ Garbled(p) \in Pieces /\ Len(Garbled(p)) = Len(p) /\ Garbled(p)[Len(p)] = 0
        /\ \A i \in 1 .. Len(p) : i # Len(p) => Garbled(p)[i] = p[i]
    BY <1>1, <2>1, Replaced
  <2>3. \A i \in 1 .. Len(p) - 1 : i \in 1 .. Len(p) /\ i # Len(p)
    BY <1>0
  <2> QED BY <1>3, <2>2, <2>3
<1>4. CASE garbled[2] = "length" /\ filter = "h2t3"
  <2>1. Garbled(p) = ReplaceAt(p, 2, 255)
    BY <1>4 DEF Garbled, WrongLength
  <2>2. /\ Garbled(p) \in Pieces /\ Len(Garbled(p)) = Len(p) /\ Garbled(p)[2] = 255
        /\ \A i \in 1 .. Len(p) : i # 2 => Garbled(p)[i] = p[i]
    BY <1>1, <2>1, Replaced
  <2>3. \A i \in 3 .. Len(p) : i \in 1 .. Len(p) /\ i # 2
    BY <1>0
  <2> QED BY <1>1, <1>4, <2>2, <2>3
<1>5. CASE garbled[2] = "length" /\ filter # "h2t3"
  <2>1. PICK q : q = ReplaceAt(p, 2, 0)
    OBVIOUS
  <2>2. /\ q \in Pieces /\ Len(q) = Len(p) /\ q[2] = 0
        /\ \A i \in 1 .. Len(p) : i # 2 => q[i] = p[i]
    BY <1>1, <2>1, Replaced
  <2>3. Garbled(p) = ReplaceAt(q, 3, 0)
    BY <1>5, <2>1 DEF Garbled, WrongLength
  <2>4. /\ Garbled(p) \in Pieces /\ Len(Garbled(p)) = Len(p) /\ Garbled(p)[3] = 0
        /\ \A i \in 1 .. Len(p) : i # 3 => Garbled(p)[i] = q[i]
    BY <1>1, <2>2, <2>3, Replaced
  <2> QED BY <1>1, <1>5, <2>2, <2>4
<1> QED BY <1>2, <1>3, <1>4, <1>5

LEMMA SentAre ==
    ASSUME filter \in Filters, packages \in Seq(Bodies), Len(packages) >= 1,
           garbled \in (0 .. Len(packages)) \X {"head", "length", "tail"}, garbled[1] # 0 => filter \in {"h2t3", "h2shortt3"}
    PROVE  /\ Sent \in Seq(Pieces) /\ Len(Sent) = Len(packages) /\ Len(packages) \in Nat
           /\ \A i \in 1 .. Len(packages) :
                /\ packages[i] \in Bodies /\ Packed(filter, packages[i]) \in Pieces
                /\ Sent[i] = IF i = garbled[1] THEN Garbled(Packed(filter, packages[i])) ELSE Packed(filter, packages[i])
                /\ Sent[i] \in Pieces
<1>1. Len(packages) \in Nat /\ DOMAIN packages = 1 .. Len(packages) /\ \A i \in 1 .. Len(packages) : packages[i] \in Bodies
  BY LenProperties, ElementOfSeq
<1>2. \A i \in 1 .. Len(packages) : Packed(filter, packages[i]) \in Pieces
  BY <1>1, PackedIs
<1>3. \A i \in 1 .. Len(packages) :
        Sent[i] = IF i = garbled[1] THEN Garbled(Packed(filter, packages[i])) ELSE Packed(filter, packages[i])
  BY <1>1 DEF Sent
<1>4. ASSUME NEW i \in 1 .. Len(packages) PROVE Sent[i] \in Pieces
  <2>1. CASE i = garbled[1]
    <3>1. filter \in {"h2t3", "h2shortt3"} /\ garbled[2] \in {"head", "length", "tail"}
      BY <1>1, <2>1
    <3>2. PICK p \in Pieces : p = Packed(filter, packages[i])
      BY <1>2
    <3>3. Framing(p, packages[i], 4) \/ Framing(p, packages[i], 2)
      BY <1>1, <3>1, <3>2, PackedIs
    <3>4. packages[i] \in Pieces
      BY <1>1, PackedIs
    <3>5. Len(p) >= 4
      BY <3>3, <3>4, LengthZero DEF Framing
    <3> QED BY <1>3, <2>1, <3>1, <3>2, <3>5, GarbledIs
  <2>2. CASE i # garbled[1]
    BY <1>2, <1>3, <2>2
  <2> QED BY <2>1, <2>2
<1>5. Sent \in [1 .. Len(packages) -> Pieces]
  BY <1>1, <1>4 DEF Sent
<1>6. Sent \in Seq(Pieces) /\ Len(Sent) = Len(packages)
  BY <1>1, <1>5, LenProperties, SeqDef
<1> QED BY <1>1, <1>2, <1>3, <1>4, <1>6

LEMMA SentIs ==
    ASSUME PackageTypes
    PROVE  /\ Sent \in Seq(Pieces) /\ Len(Sent) = Len(packages) /\ Len(packages) \in Nat
           /\ \A i \in 1 .. Len(packages) :
                /\ packages[i] \in Bodies /\ Packed(filter, packages[i]) \in Pieces
                /\ Sent[i] = IF i = garbled[1] THEN Garbled(Packed(filter, packages[i])) ELSE Packed(filter, packages[i])
                /\ Sent[i] \in Pieces
BY SentAre DEF PackageTypes

LEMMA UngarbledIs ==
    ASSUME PackageTypes
    PROVE  /\ Ungarbled \in 0 .. Len(packages) /\ (garbled[1] = 0 => Ungarbled = Len(packages))
           /\ garbled[1] # 0 => garbled[1] = Ungarbled + 1 /\ Ungarbled + 1 \in 1 .. Len(packages)
           /\ \A i \in 1 .. Ungarbled : i # garbled[1] /\ i \in 1 .. Len(packages)
BY LenProperties DEF PackageTypes, Ungarbled

\* What comes next begins with the next package.
LEMMA Coming ==
    ASSUME PackageTypes, StillToCome, filter # "raw", NEW h \in 1 .. Len(packages), h = Len(handed) + 1
    PROVE  \E r \in Pieces : recvBuf \o wire = Sent[h] \o r /\ Upto(Sent, h) \o r = FlattenSeq(Sent)
<1>0. /\ Sent \in Seq(Pieces) /\ Len(Sent) = Len(packages) /\ Len(packages) \in Nat /\ Sent[h] \in Pieces
      /\ Len(handed) \in Nat /\ h - 1 = Len(handed)
  BY SentIs, LenProperties DEF PackageTypes
<1>1. h \in 1 .. Len(Sent) /\ h \in 0 .. Len(Sent) /\ h - 1 \in 0 .. Len(Sent)
  BY <1>0
<1>2. PICK r \in Pieces : FlattenSeq(Sent) = Upto(Sent, h) \o r
  BY <1>0, <1>1, UptoRest
<1>3. PICK a \in Pieces : a = Upto(Sent, h - 1)
  BY <1>0, <1>1, UptoIs
<1>4. Upto(Sent, h) = a \o Sent[h]
  BY <1>0, <1>1, <1>3, UptoIs
<1>5. PICK b \in Pieces : b = Sent[h]
  BY <1>0
<1>6. PICK c \in Pieces : c = recvBuf \o wire
  BY Together DEF PackageTypes
<1>7. a \o c = FlattenSeq(Sent)
  BY <1>0, <1>3, <1>6 DEF StillToCome
<1>8. a \o c = a \o (b \o r)
  <2>1. a \o (b \o r) = (a \o b) \o r
    BY Grouped, Zenon
  <2> QED BY <1>2, <1>4, <1>5, <1>7, <2>1
<1>9. c = b \o r
  BY <1>8, CancelLeft, Together
<1> QED BY <1>2, <1>5, <1>6, <1>9

LEMMA AllCame ==
    ASSUME PackageTypes, StillToCome, filter # "raw", Len(handed) = Len(packages)
    PROVE  recvBuf = <<>> /\ wire = <<>>
<1>0. Sent \in Seq(Pieces) /\ Len(Sent) = Len(packages) /\ Len(packages) \in Nat
  BY SentIs
<1>1. PICK a \in Pieces : a = Upto(Sent, Len(packages)) /\ FlattenSeq(Sent) = a
  <2>1. Len(packages) \in 0 .. Len(Sent)
    BY <1>0
  <2>2. Upto(Sent, Len(packages)) \in Pieces /\ FlattenSeq(Sent) = Upto(Sent, Len(packages))
    BY <1>0, <2>1, UptoIs
  <2> QED BY <2>2
<1>2. PICK c \in Pieces : c = recvBuf \o wire
  BY Together DEF PackageTypes
<1>3. a \o c = a \o <<>> /\ <<>> \in Pieces
  <2>1. a \o c = a
    BY <1>1, <1>2 DEF StillToCome
  <2>2. a \o <<>> = a /\ <<>> \in Pieces
    BY NothingAdded
  <2> QED BY <2>1, <2>2
<1>4. c = <<>>
  BY <1>3, CancelLeft
<1>5. Len(recvBuf) + Len(wire) = 0
  <2>1. Len(c) = Len(recvBuf) + Len(wire)
    BY <1>2, JoinedBytes DEF PackageTypes
  <2> QED BY <1>3, <1>4, <2>1, LengthZero
<1> QED BY <1>5, LengthZero DEF PackageTypes

-----------------------------------------------------------------------------
(* What isWholePkg answers.                                                *)
LEMMA Recognised ==
    ASSUME PackageTypes, StillToCome, filter # "raw", NEW h \in 1 .. Ungarbled, h = Len(handed) + 1,
           NEW p, p = Packed(filter, packages[h])
    PROVE  /\ p \in Pieces /\ Len(p) >= 1
           /\ Len(recvBuf) < Len(p) => IsWholePkg.flag = -1
           /\ Len(recvBuf) >= Len(p) => IsWholePkg.flag = 0 /\ IsWholePkg.pkg = Len(p) /\ RealPkgData(p) = Expected[h]
<1>0. h \in 1 .. Len(packages) /\ h # garbled[1] /\ packages[h] \in Bodies /\ Sent[h] = p /\ p \in Pieces
  BY SentIs, UngarbledIs
<1>1. PICK r \in Pieces : recvBuf \o wire = p \o r
  BY <1>0, Coming
<1>2. Starts(recvBuf, p)
  BY <1>0, <1>1, Overlap DEF Starts, PackageTypes
<1>3. packages[h] \in Pieces /\ Len(packages[h]) \in Nat /\ Len(p) \in Nat /\ Len(recvBuf) \in Nat
  BY <1>0, PackedIs, LengthZero DEF PackageTypes
<1>4. filter \in {"raw", "h2t3", "h2shortt3", "http"}
  BY PackageFiltersAssumption DEF PackageTypes
<1>5. DOMAIN packages = 1 .. Len(packages)
  BY LenProperties DEF PackageTypes
<1>6. CASE filter = "h2t3"
  <2>1. Framing(p, packages[h], 4)
    BY <1>0, <1>6, PackedIs DEF PackageTypes
  <2>2. IsWholePkg = Framed(recvBuf, 4)
    BY <1>6 DEF IsWholePkg, H2T3
  <2>3. /\ Len(recvBuf) < Len(p) => Framed(recvBuf, 4) = Partial
        /\ Len(recvBuf) >= Len(p) => Framed(recvBuf, 4) = Whole(Len(p) - (4 + 2), Len(p))
    <3>1. /\ Len(recvBuf) < Len(p) => Framed(recvBuf, 4) = Partial
          /\ Len(recvBuf) >= Len(p) => Framed(recvBuf, 4) = IF p[Len(p)] = PkgTail THEN Whole(Len(p) - (4 + 2), Len(p))
                                                             ELSE Invalid
      <4>1. PICK w \in {2, 4} : w = 4
        OBVIOUS
      <4>2. /\ Len(p) >= w + 2 /\ p[1] = PkgHead /\ PkgLen(p, w) = Len(p)
        BY <1>3, <2>1, <4>1 DEF Framing
      <4> QED BY <1>0, <1>2, <4>1, <4>2, FramedFits DEF PackageTypes
    <3> QED BY <2>1, <3>1 DEF Framing
  <2>4. Len(recvBuf) < Len(p) => IsWholePkg.flag = -1
    BY <2>2, <2>3 DEF Partial
  <2>5. Len(recvBuf) >= Len(p) => IsWholePkg.flag = 0 /\ IsWholePkg.pkg = Len(p) /\ IsWholePkg.real = Len(packages[h])
    BY <1>3, <2>1, <2>2, <2>3 DEF Whole, Framing
  <2>6. Len(recvBuf) >= Len(p) => RealPkgData(p) = packages[h]
    <3>1. SubSeq(p, 6, 5 + Len(packages[h])) = packages[h]
      BY <2>1 DEF Framing
    <3> QED BY <1>6, <2>5, <3>1 DEF RealPkgData
  <2>7. Expected[h] = packages[h]
    BY <1>6 DEF Expected
  <2>8. Len(p) >= 1
    BY <1>3, <2>1 DEF Framing
  <2> QED BY <1>0, <2>4, <2>5, <2>6, <2>7, <2>8
<1>7. CASE filter = "h2shortt3"
  <2>1. Framing(p, packages[h], 2)
    BY <1>0, <1>7, PackedIs DEF PackageTypes
  <2>2. IsWholePkg = Framed(recvBuf, 2)
    BY <1>7 DEF IsWholePkg, H2ShortT3
  <2>3. /\ Len(recvBuf) < Len(p) => Framed(recvBuf, 2) = Partial
        /\ Len(recvBuf) >= Len(p) => Framed(recvBuf, 2) = Whole(Len(p) - (2 + 2), Len(p))
    <3>1. /\ Len(recvBuf) < Len(p) => Framed(recvBuf, 2) = Partial
          /\ Len(recvBuf) >= Len(p) => Framed(recvBuf, 2) = IF p[Len(p)] = PkgTail THEN Whole(Len(p) - (2 + 2), Len(p))
                                                             ELSE Invalid
      <4>1. PICK w \in {2, 4} : w = 2
        OBVIOUS
      <4>2. /\ Len(p) >= w + 2 /\ p[1] = PkgHead /\ PkgLen(p, w) = Len(p)
        BY <1>3, <2>1, <4>1 DEF Framing
      <4> QED BY <1>0, <1>2, <4>1, <4>2, FramedFits DEF PackageTypes
    <3> QED BY <2>1, <3>1 DEF Framing
  <2>4. Len(recvBuf) < Len(p) => IsWholePkg.flag = -1
    BY <2>2, <2>3 DEF Partial
  <2>5. Len(recvBuf) >= Len(p) => IsWholePkg.flag = 0 /\ IsWholePkg.pkg = Len(p) /\ IsWholePkg.real = Len(packages[h])
    BY <1>3, <2>1, <2>2, <2>3 DEF Whole, Framing
  <2>6. Len(recvBuf) >= Len(p) => RealPkgData(p) = packages[h]
    <3>1. SubSeq(p, 4, 3 + Len(packages[h])) = packages[h]
      BY <2>1 DEF Framing
    <3> QED BY <1>7, <2>5, <3>1 DEF RealPkgData
  <2>7. Expected[h] = packages[h]
    BY <1>7 DEF Expected
  <2>8. Len(p) >= 1
    BY <1>3, <2>1 DEF Framing
  <2> QED BY <1>0, <2>4, <2>5, <2>6, <2>7, <2>8
<1>8. CASE filter = "http"
  <2>1. PICK e : Headed(p, e)
    BY <1>0, <1>8, PackedIs DEF PackageTypes
  <2>2. Http(recvBuf, behind) = IF Len(recvBuf) < Len(p) THEN Partial ELSE Whole(Len(p), Len(p))
    BY <1>0, <1>2, <2>1, HttpFits DEF PackageTypes
  <2>3. IsWholePkg = Http(recvBuf, behind)
    BY <1>8 DEF IsWholePkg
  <2>4. /\ Len(recvBuf) < Len(p) => IsWholePkg.flag = -1
        /\ Len(recvBuf) >= Len(p) => IsWholePkg.flag = 0 /\ IsWholePkg.pkg = Len(p)
    BY <1>3, <2>2, <2>3 DEF Whole, Partial
  <2>5. RealPkgData(p) = p /\ Expected[h] = p
    BY <1>0, <1>5, <1>8 DEF RealPkgData, Expected
  <2>6. Len(p) >= 1
    BY <1>3, <2>1 DEF Headed
  <2> QED BY <1>0, <2>4, <2>5, <2>6
<1> QED BY <1>4, <1>6, <1>7, <1>8

\* A length whose leading byte has the sign.
LEMMA SignedBelowZero ==
    ASSUME NEW q, q[2] = 255, q[3] \in Nat, q[4] \in Nat, q[5] \in Nat, q[3] <= 255, q[4] <= 255, q[5] <= 255
    PROVE  PkgLen(q, 4) \in Int /\ PkgLen(q, 4) < 0
<1>1. PkgLen(q, 4) = 256 * (256 * (256 * (255 - 256) + q[3]) + q[4]) + q[5]
  BY DEF PkgLen
<1>2. \A a, b, e \in Nat : a <= 255 /\ b <= 255 /\ e <= 255 =>
         /\ 256 * (256 * (256 * (255 - 256) + a) + b) + e \in Int
         /\ 256 * (256 * (256 * (255 - 256) + a) + b) + e < 0
  OBVIOUS
<1> QED BY <1>1, <1>2

LEMMA Rejected ==
    ASSUME PackageTypes, StillToCome, filter # "raw", Len(handed) = Ungarbled, garbled[1] # 0
    PROVE  /\ IsWholePkg.flag \in {-1, -2}
           /\ wire = <<>> => IsWholePkg.flag = -2
<1>0. PICK h \in 1 .. Len(packages) : h = Len(handed) + 1 /\ h = garbled[1]
  BY UngarbledIs
<1>1. PICK p \in Pieces : p = Packed(filter, packages[h])
  BY SentIs
<1>2. packages[h] \in Bodies /\ packages[h] \in Pieces /\ Len(packages[h]) \in Nat /\ Len(p) \in Nat
  BY SentIs, PackedIs, LengthZero DEF PackageTypes
<1>3. PICK w \in {2, 4} : /\ Framing(p, packages[h], w) /\ IsWholePkg = Framed(recvBuf, w)
                          /\ w = 4 <=> filter = "h2t3"
  <2>1. CASE filter = "h2t3"
    BY <1>1, <1>2, <2>1, PackedIs DEF IsWholePkg, H2T3, PackageTypes
  <2>2. CASE filter = "h2shortt3"
    BY <1>1, <1>2, <2>2, PackedIs DEF IsWholePkg, H2ShortT3, PackageTypes
  <2> QED BY <2>1, <2>2 DEF PackageTypes
<1>4. Len(p) >= w + 2
  BY <1>2, <1>3 DEF Framing
<1>5. PICK q \in Pieces : q = Garbled(p) /\ q = Sent[h]
  BY <1>0, <1>1, SentIs
<1>6. PICK r \in Pieces : recvBuf \o wire = q \o r
  BY <1>0, <1>5, Coming
<1>7. Starts(recvBuf, q)
  BY <1>6, Overlap DEF Starts, PackageTypes
<1>8. /\ Len(q) = Len(p) /\ garbled[2] \in {"head", "length", "tail"}
      /\ garbled[2] = "head" => q[1] = 0
      /\ garbled[2] = "tail" => q[Len(p)] = 0 /\ \A i \in 1 .. Len(p) - 1 : q[i] = p[i]
      /\ garbled[2] = "length" =>
            /\ q[1] = p[1]
            /\ filter = "h2t3" => q[2] = 255 /\ \A i \in 3 .. Len(p) : q[i] = p[i]
            /\ filter # "h2t3" => q[2] = 0 /\ q[3] = 0
  <2>1. garbled[2] \in {"head", "length", "tail"} /\ Len(p) >= 4
    BY <1>2, <1>4 DEF PackageTypes
  <2>2. /\ Len(Garbled(p)) = Len(p) /\ (garbled[2] = "head" => Garbled(p)[1] = 0)
        /\ (garbled[2] = "tail" => Garbled(p)[Len(p)] = 0 /\ \A i \in 1 .. Len(p) - 1 : Garbled(p)[i] = p[i])
        /\ garbled[2] = "length" =>
              /\ Garbled(p)[1] = p[1]
              /\ filter = "h2t3" => Garbled(p)[2] = 255 /\ \A i \in 3 .. Len(p) : Garbled(p)[i] = p[i]
              /\ filter # "h2t3" => Garbled(p)[2] = 0 /\ Garbled(p)[3] = 0
    BY <2>1, GarbledIs
  <2>3. q = Garbled(p)
    BY <1>5
  <2> QED BY <2>1, <2>2, <2>3
<1>9. wire = <<>> => Len(recvBuf) >= Len(p)
  <2>1. Len(recvBuf \o wire) = Len(recvBuf) + Len(wire) /\ Len(q \o r) = Len(q) + Len(r)
    BY JoinedBytes DEF PackageTypes
  <2>2. Len(recvBuf) \in Nat /\ Len(r) \in Nat /\ (wire = <<>> => Len(wire) = 0)
    BY LengthZero DEF PackageTypes
  <2> QED BY <1>2, <1>6, <1>8, <2>1, <2>2
<1>10. recvBuf \in Pieces /\ Len(recvBuf) \in Nat /\ (recvBuf = <<>> => Len(recvBuf) = 0)
  BY LengthZero DEF PackageTypes
<1>11. CASE garbled[2] = "head"
  <2>1. Framed(recvBuf, w) = IF recvBuf = <<>> THEN Partial ELSE Invalid
    BY <1>2, <1>4, <1>7, <1>8, <1>10, <1>11, FramedWrongHead
  <2>2. Framed(recvBuf, w).flag \in {-1, -2} /\ (recvBuf # <<>> => Framed(recvBuf, w).flag = -2)
    BY <2>1 DEF Partial, Invalid
  <2> QED BY <1>2, <1>3, <1>4, <1>9, <1>10, <2>2
<1>12. CASE garbled[2] = "tail"
  <2>1. q[1] = PkgHead
    BY <1>2, <1>3, <1>4, <1>8, <1>12 DEF Framing
  <2>2. PkgLen(q, w) = Len(q)
    <3>1. \A i \in 2 .. w + 1 : q[i] = p[i]
      BY <1>2, <1>4, <1>8, <1>12
    <3>2. PkgLen(q, w) = PkgLen(p, w)
      <4>1. CASE w = 2
        <5>1. q[2] = p[2] /\ q[3] = p[3]
          BY <3>1, <4>1
        <5> QED BY <4>1, <5>1 DEF PkgLen
      <4>2. CASE w = 4
        <5>1. q[2] = p[2] /\ q[3] = p[3] /\ q[4] = p[4] /\ q[5] = p[5]
          BY <3>1, <4>2
        <5> QED BY <4>2, <5>1 DEF PkgLen
      <4> QED BY <4>1, <4>2
    <3> QED BY <1>3, <1>8, <3>2 DEF Framing
  <2>3. /\ Len(recvBuf) < Len(q) => Framed(recvBuf, w) = Partial
        /\ Len(recvBuf) >= Len(q) => Framed(recvBuf, w) = IF q[Len(q)] = PkgTail THEN Whole(Len(q) - (w + 2), Len(q))
                                                          ELSE Invalid
    BY <1>4, <1>7, <1>8, <1>10, <2>1, <2>2, FramedFits
  <2>4. q[Len(q)] # PkgTail
    BY <1>8, <1>12 DEF PkgTail
  <2>5. /\ Len(recvBuf) < Len(q) => Framed(recvBuf, w).flag = -1
        /\ Len(recvBuf) >= Len(q) => Framed(recvBuf, w).flag = -2
    BY <2>3, <2>4 DEF Partial, Invalid
  <2> QED BY <1>2, <1>3, <1>8, <1>9, <1>10, <2>5
<1>13. CASE garbled[2] = "length"
  <2>1. q[1] = PkgHead
    BY <1>3, <1>8, <1>13 DEF Framing
  <2>2. PkgLen(q, w) < w + 2
    <3>1. CASE w = 4
      <4>1. q[2] = 255 /\ q[3] = p[3] /\ q[4] = p[4] /\ q[5] = p[5]
        BY <1>2, <1>3, <1>4, <1>8, <1>13, <3>1
      <4>2. /\ p[3] \in Nat /\ p[4] \in Nat /\ p[5] \in Nat
            /\ p[3] <= 255 /\ p[4] <= 255 /\ p[5] <= 255
        <5>1. p[3] <= 255 /\ p[4] <= 255 /\ p[5] <= 255
          BY <1>3, <3>1 DEF Framing
        <5>2. \A i \in 1 .. Len(p) : p[i] \in Nat
          BY ElementOfSeq DEF Pieces
        <5>3. p[3] \in Nat /\ p[4] \in Nat /\ p[5] \in Nat
          BY <1>2, <1>4, <3>1, <5>2
        <5> QED BY <5>1, <5>3
      <4>3. PkgLen(q, 4) \in Int /\ PkgLen(q, 4) < 0
        BY <4>1, <4>2, SignedBelowZero
      <4> QED BY <3>1, <4>3
    <3>2. CASE w = 2
      <4>1. q[2] = 0 /\ q[3] = 0
        BY <1>3, <1>8, <1>13, <3>2
      <4> QED BY <3>2, <4>1 DEF PkgLen
    <3> QED BY <3>1, <3>2
  <2>3. Framed(recvBuf, w) = IF Len(recvBuf) <= w + 1 THEN Partial ELSE Invalid
    BY <1>4, <1>7, <1>8, <1>10, <2>1, <2>2, FramedWrongLength
  <2>4. Framed(recvBuf, w).flag \in {-1, -2} /\ (Len(recvBuf) >= w + 2 => Framed(recvBuf, w).flag = -2)
    BY <1>10, <2>3 DEF Partial, Invalid
  <2> QED BY <1>2, <1>3, <1>4, <1>9, <1>10, <2>4
<1> QED BY <1>8, <1>11, <1>12, <1>13

LEMMA NothingToFind ==
    ASSUME PackageTypes, filter # "raw", recvBuf = <<>>
    PROVE  IsWholePkg.flag = -1
<1>1. filter \in {"raw", "h2t3", "h2shortt3", "http"}
  BY PackageFiltersAssumption DEF PackageTypes
<1>2. CASE filter = "h2t3"
  <2>1. Framed(recvBuf, 4) = Partial
    BY DEF Framed
  <2> QED BY <1>2, <2>1 DEF IsWholePkg, H2T3, Partial
<1>3. CASE filter = "h2shortt3"
  <2>1. Framed(recvBuf, 2) = Partial
    BY DEF Framed
  <2> QED BY <1>3, <2>1 DEF IsWholePkg, H2ShortT3, Partial
<1>4. CASE filter = "http"
  <2>0. 1 \in 1 .. Len(packages)
    BY LenProperties DEF PackageTypes
  <2>1. PICK p \in Pieces : \E e : Headed(p, e)
    BY <1>4, <2>0, SentIs, PackedIs DEF PackageTypes
  <2>2. PICK e : Headed(p, e)
    BY <2>1
  <2>3. Starts(recvBuf, p) /\ Len(recvBuf) = 0
    BY NothingAdded DEF Starts
  <2>4. Len(p) \in Nat /\ 0 < Len(p)
    BY <2>2, LengthZero DEF Headed
  <2>5. Http(recvBuf, behind) = Partial
    <3>1. Http(recvBuf, behind) = IF Len(recvBuf) < Len(p) THEN Partial ELSE Whole(Len(p), Len(p))
      BY <2>2, <2>3, HttpFits DEF PackageTypes
    <3> QED BY <2>3, <2>4, <3>1
  <2> QED BY <1>4, <2>5 DEF IsWholePkg, Partial
<1> QED BY <1>1, <1>2, <1>3, <1>4

-----------------------------------------------------------------------------
(* The steps.                                                              *)
LEMMA PrefixIs ==
    ASSUME NEW S, NEW s \in Seq(S), NEW t \in Seq(S), Len(s) <= Len(t), \A i \in 1 .. Len(s) : s[i] = t[i]
    PROVE  IsPrefix(s, t)
<1>1. Len(s) \in Nat /\ Len(t) \in Nat
  BY LenProperties
<1>2. SubSeq(s, 1, Len(s)) = SubSeq(t, 1, Len(s))
  BY <1>1
<1> QED BY <1>2 DEF IsPrefix

LEMMA JoinedIsPrefix ==
    ASSUME NEW a \in Pieces, NEW b \in Pieces, NEW u, u = a \o b
    PROVE  IsPrefix(a, u)
<1>1. u \in Pieces
  BY Together
<1>2. a = SubSeq(u, 1, Len(a)) /\ Len(a) <= Len(u)
  BY <1>1, FirstPart
<1>3. Len(a) \in Nat /\ Len(u) \in Nat
  BY <1>1, LengthZero
<1>4. SubSeq(a, 1, Len(a)) = a
  BY <1>3 DEF Pieces
<1> QED BY <1>2, <1>4 DEF IsPrefix

\* What the raw filter and the loop see of a raw stream.
LEMMA RawIs ==
    ASSUME PackageTypes, filter = "raw"
    PROVE  /\ recvBuf = <<>> => IsWholePkg.flag = -1
           /\ recvBuf # <<>> => IsWholePkg.flag = 0 /\ IsWholePkg.pkg = Len(recvBuf)
           /\ garbled[1] = 0 /\ Sent = packages
           /\ \A p : RealPkgData(p) = p
<1>1. IsWholePkg = Raw(recvBuf)
  BY DEF IsWholePkg
<1>2. /\ recvBuf = <<>> => IsWholePkg.flag = -1
      /\ recvBuf # <<>> => IsWholePkg.flag = 0 /\ IsWholePkg.pkg = Len(recvBuf)
  BY <1>1 DEF Raw, Partial, Whole
<1>3. garbled[1] = 0
  BY DEF PackageTypes
<1>4. \A i \in 1 .. Len(packages) : Sent[i] = packages[i]
  BY <1>3, SentIs, PackedIs DEF PackageTypes
<1>5. DOMAIN packages = 1 .. Len(packages) /\ packages = [i \in DOMAIN packages |-> packages[i]]
  BY LenProperties DEF PackageTypes
<1>6. Sent = [i \in DOMAIN packages |-> packages[i]]
  BY <1>4, <1>5 DEF Sent
<1>7. \A p : RealPkgData(p) = p
  BY DEF RealPkgData
<1> QED BY <1>2, <1>3, <1>5, <1>6, <1>7

LEMMA InitPackageInv == PackagesInit => PackageInv
<1> SUFFICES ASSUME PackagesInit PROVE PackageInv
  OBVIOUS
<1>1. PICK n \in 1 .. MaxPackages : packages \in [1 .. n -> Bodies]
  BY DEF PackagesInit
<1>2. packages \in Seq(Bodies) /\ Len(packages) = n /\ n >= 1
  <2>1. n \in Nat /\ n >= 1
    BY PackageFiltersAssumption
  <2> QED BY <1>1, <2>1, SeqDef, LenProperties
<1>3. garbled \in (0 .. Len(packages)) \X {"head", "length", "tail"} /\ (garbled[1] # 0 => filter \in {"h2t3", "h2shortt3"})
  <2>1. CASE garbled = <<0, "head">>
    BY <1>2, <2>1
  <2>2. CASE garbled # <<0, "head">>
    <3>1. filter \in {"h2t3", "h2shortt3"} /\ garbled \in (1 .. Len(packages)) \X {"head", "length", "tail"}
      BY <2>2 DEF PackagesInit
    <3> QED BY <1>2, <3>1
  <2> QED BY <2>1, <2>2
<1>4. filter \in Filters /\ wire = FlattenSeq(Sent) /\ recvBuf = <<>> /\ behind = <<>> /\ handed = <<>> /\ invalid = FALSE
  BY DEF PackagesInit
<1>5. Sent \in Seq(Pieces)
  BY <1>2, <1>3, <1>4, SentAre
<1>6. wire \in Pieces
  <2>1. FlattenSeq(Sent) \in Pieces
    <3>1. Len(Sent) \in 0 .. Len(Sent)
      BY <1>5, LenProperties
    <3>2. FlattenSeq(Sent) = Upto(Sent, Len(Sent)) /\ \A h \in 0 .. Len(Sent) : Upto(Sent, h) \in Pieces
      BY <1>5, UptoIs
    <3> QED BY <3>1, <3>2
  <2> QED BY <1>4, <2>1
<1>7. <<>> \in Pieces /\ handed \in Seq(Pieces) /\ Len(handed) = 0
  BY <1>4, EmptySeq DEF Pieces
<1>8. PackageTypes
  BY <1>2, <1>3, <1>4, <1>6, <1>7 DEF PackageTypes
<1>9. StillToCome
  <2>1. recvBuf \o wire = wire /\ <<>> \o wire = wire
    BY <1>4, <1>6, NothingAdded
  <2>2. Upto(Sent, 0) = <<>>
    BY <1>5, UptoIs
  <2>3. CASE filter = "raw"
    <3>1. Sent = packages
      BY <1>8, <2>3, RawIs
    <3>2. FlattenSeq(handed) = <<>>
      BY <1>4, <1>7, UptoIs
    <3> QED BY <1>4, <2>1, <2>3, <3>1, <3>2 DEF StillToCome
  <2>4. CASE filter # "raw"
    <3>1. Len(handed) <= Ungarbled
      BY <1>7, <1>8, UngarbledIs
    <3>2. \A i \in 1 .. Len(handed) : handed[i] = Expected[i]
      BY <1>7
    <3>3. Upto(Sent, Len(handed)) \o (recvBuf \o wire) = FlattenSeq(Sent)
      BY <1>4, <1>7, <2>1, <2>2
    <3> QED BY <2>4, <3>1, <3>2, <3>3 DEF StillToCome
  <2> QED BY <2>3, <2>4
<1> QED BY <1>4, <1>8, <1>9 DEF PackageInv

\* What stays when a step leaves what is sent alone.
LEMMA SentStays ==
    ASSUME UNCHANGED <<filter, packages, garbled>>
    PROVE  Sent' = Sent /\ Ungarbled' = Ungarbled /\ Expected' = Expected
BY DEF Sent, Garbled, WrongLength, Ungarbled, Expected

LEMMA ReceivePackages ==
    ASSUME PackageInv, NEW n \in 1 .. Len(wire), ReceivePart(n)
    PROVE  PackageInv'
<1>0. PackageTypes /\ StillToCome
  BY DEF PackageInv
<1>1. /\ recvBuf' = recvBuf \o SubSeq(wire, 1, n) /\ wire' = SubSeq(wire, n + 1, Len(wire))
      /\ behind' \in Leftovers /\ invalid = FALSE /\ invalid' = FALSE
      /\ UNCHANGED <<filter, packages, garbled, handed>>
  BY <1>0 DEF ReceivePart, PackageTypes
<1>2. wire \in Pieces /\ recvBuf \in Pieces /\ n \in 0 .. Len(wire)
  BY <1>0, LengthZero DEF PackageTypes
<1>3. PICK a \in Pieces : a = SubSeq(wire, 1, n)
  BY <1>2, Cut
<1>4. PICK b \in Pieces : b = wire'
  BY <1>1, <1>2, Cut
<1>5. a \o b = wire
  BY <1>1, <1>2, <1>3, <1>4, Cut
<1>6. recvBuf' \in Pieces /\ recvBuf' \o wire' = recvBuf \o wire
  <2>1. recvBuf \o (a \o b) = (recvBuf \o a) \o b
    BY <1>2, Grouped, Zenon
  <2>2. recvBuf \o a \in Pieces
    BY <1>2, Together
  <2> QED BY <1>1, <1>3, <1>4, <1>5, <2>1, <2>2
<1>7. behind' \in Pieces
  BY <1>1, PackageFiltersAssumption DEF Pieces
<1>8. PackageTypes'
  BY <1>0, <1>1, <1>4, <1>6, <1>7 DEF PackageTypes
<1>9. StillToCome'
  BY <1>0, <1>1, <1>6, SentStays DEF StillToCome
<1> QED BY <1>1, <1>8, <1>9 DEF PackageInv

LEMMA HandOutRaw ==
    ASSUME PackageTypes, StillToCome, HandOut, filter = "raw"
    PROVE  /\ handed' \in Seq(Pieces) /\ recvBuf' \in Pieces
           /\ FlattenSeq(handed') \o (recvBuf' \o wire) = FlattenSeq(packages)
<1>1. IsWholePkg.pkg = Len(recvBuf) /\ \A p : RealPkgData(p) = p
  BY RawIs DEF HandOut
<1>2. recvBuf \in Pieces /\ wire \in Pieces /\ handed \in Seq(Pieces) /\ Len(recvBuf) \in 0 .. Len(recvBuf)
  BY LengthZero DEF PackageTypes
<1>3. /\ handed' = Append(handed, SubSeq(recvBuf, 1, Len(recvBuf)))
      /\ recvBuf' = SubSeq(recvBuf, Len(recvBuf) + 1, Len(recvBuf))
  BY <1>1 DEF HandOut
<1>4. SubSeq(recvBuf, 1, Len(recvBuf)) = recvBuf
  BY <1>2 DEF Pieces
<1>5. recvBuf' \in Pieces /\ Len(recvBuf') = 0
  <2>1. PICK k \in 0 .. Len(recvBuf) : k = Len(recvBuf)
    BY <1>2
  <2>2. SubSeq(recvBuf, k + 1, Len(recvBuf)) \in Pieces /\ Len(SubSeq(recvBuf, k + 1, Len(recvBuf))) = Len(recvBuf) - k
    BY <1>2, Cut
  <2> QED BY <1>2, <1>3, <2>1, <2>2
<1>6. recvBuf' = <<>> /\ recvBuf' \o wire = wire
  BY <1>2, <1>5, LengthZero, NothingAdded
<1>7. handed' = Append(handed, recvBuf) /\ handed' \in Seq(Pieces)
  BY <1>2, <1>3, <1>4, AppendProperties
<1>8. PICK f \in Pieces : f = FlattenSeq(handed)
  BY <1>2, FlattenAppend
<1>9. FlattenSeq(handed') = f \o recvBuf
  BY <1>2, <1>7, <1>8, FlattenAppend
<1>10. f \o (recvBuf \o wire) = (f \o recvBuf) \o wire
  BY <1>2, Grouped, Zenon
<1> QED BY <1>5, <1>6, <1>7, <1>8, <1>9, <1>10 DEF StillToCome

LEMMA HandOutPackage ==
    ASSUME PackageTypes, StillToCome, HandOut, filter # "raw"
    PROVE  /\ handed' \in Seq(Pieces) /\ recvBuf' \in Pieces
           /\ Len(handed') <= Ungarbled /\ \A i \in 1 .. Len(handed') : handed'[i] = Expected[i]
           /\ Upto(Sent, Len(handed')) \o (recvBuf' \o wire) = FlattenSeq(Sent)
<1>0. IsWholePkg.flag = 0 /\ Len(handed) \in Nat /\ handed \in Seq(Pieces)
  BY LenProperties DEF HandOut, PackageTypes
<1>1. Len(handed) # Ungarbled
  <2> SUFFICES ASSUME Len(handed) = Ungarbled PROVE FALSE
    OBVIOUS
  <2>1. CASE garbled[1] # 0
    BY <1>0, <2>1, Rejected
  <2>2. CASE garbled[1] = 0
    BY <1>0, <2>2, UngarbledIs, AllCame, NothingToFind
  <2> QED BY <2>1, <2>2
<1>2. PICK h \in 1 .. Ungarbled : h = Len(handed) + 1
  <2>1. Len(handed) <= Ungarbled /\ Ungarbled \in Nat
    BY UngarbledIs, SentIs DEF StillToCome
  <2> QED BY <1>0, <1>1, <2>1
<1>3. PICK p : p = Packed(filter, packages[h])
  OBVIOUS
<1>4. p \in Pieces /\ Len(p) >= 1 /\ IsWholePkg.pkg = Len(p) /\ RealPkgData(p) = Expected[h] /\ Len(recvBuf) >= Len(p)
  <2>1. Len(recvBuf) \in Nat
    BY LengthZero DEF PackageTypes
  <2>2. p \in Pieces /\ Len(p) \in Nat
    BY <1>2, <1>3, Recognised, LengthZero
  <2>3. Len(recvBuf) >= Len(p)
    BY <1>0, <1>2, <1>3, <2>1, <2>2, Recognised
  <2> QED BY <1>2, <1>3, <2>2, <2>3, Recognised
<1>5. h \in 1 .. Len(packages) /\ h # garbled[1] /\ Sent[h] = p
  BY <1>2, <1>3, SentIs, UngarbledIs
<1>6. PICK r \in Pieces : recvBuf \o wire = p \o r /\ Upto(Sent, h) \o r = FlattenSeq(Sent)
  BY <1>2, <1>5, Coming
<1>7. /\ handed' = Append(handed, RealPkgData(SubSeq(recvBuf, 1, Len(p))))
      /\ recvBuf' = SubSeq(recvBuf, Len(p) + 1, Len(recvBuf))
  BY <1>4 DEF HandOut
<1>8. SubSeq(recvBuf, 1, Len(p)) = p /\ recvBuf' \in Pieces /\ recvBuf' \o wire = r
  <2>1. recvBuf \in Pieces /\ wire \in Pieces /\ p \in Pieces /\ Len(p) <= Len(recvBuf)
    <3>1. Len(p) \in Nat /\ Len(recvBuf) \in Nat
      BY <1>4, LengthZero DEF PackageTypes
    <3> QED BY <1>4, <3>1 DEF PackageTypes
  <2>2. /\ SubSeq(recvBuf, 1, Len(p)) = p /\ SubSeq(recvBuf, Len(p) + 1, Len(recvBuf)) \in Pieces
        /\ SubSeq(recvBuf, Len(p) + 1, Len(recvBuf)) \o wire = r
    <3>1. recvBuf \o wire = p \o r
      BY <1>6
    <3>2. r \in Pieces
      BY <1>6
    <3>3. Ahead(recvBuf, wire, p, r)
      BY <2>1, <3>1 DEF Ahead
    <3> QED BY <2>1, <3>2, <3>3, FrontTaken
  <2> QED BY <1>7, <2>2
<1>9. handed' = Append(handed, Expected[h])
  BY <1>4, <1>7, <1>8
<1>10. Expected[h] \in Pieces
  <2>1. packages[h] \in Pieces /\ DOMAIN packages = 1 .. Len(packages)
    BY <1>5, SentIs, PackedIs, LenProperties DEF PackageTypes
  <2>2. CASE filter = "http"
    BY <1>3, <1>4, <1>5, <2>1, <2>2 DEF Expected
  <2>3. CASE filter # "http"
    BY <2>1, <2>3 DEF Expected
  <2> QED BY <2>2, <2>3
<1>11. /\ handed' \in Seq(Pieces) /\ Len(handed') = h
       /\ handed'[h] = Expected[h] /\ \A i \in 1 .. Len(handed) : handed'[i] = handed[i]
  BY <1>0, <1>2, <1>9, <1>10, AppendProperties
<1>12. h <= Ungarbled
  BY <1>2, UngarbledIs, SentIs
<1>13. ASSUME NEW i \in 1 .. h PROVE handed'[i] = Expected[i]
  <2>1. CASE i = h
    BY <1>11, <2>1
  <2>2. CASE i # h
    <3>1. i \in 1 .. Len(handed)
      BY <1>0, <1>2, <2>2
    <3> QED BY <1>11, <3>1 DEF StillToCome
  <2> QED BY <2>1, <2>2
<1> QED BY <1>6, <1>8, <1>11, <1>12, <1>13

LEMMA HandOutPackages == ASSUME PackageInv, HandOut PROVE PackageInv'
<1>0. PackageTypes /\ StillToCome
  BY DEF PackageInv
<1>1. UNCHANGED <<filter, packages, garbled, wire, behind, invalid>> /\ IsWholePkg.flag = 0
  BY DEF HandOut
<1>2. invalid = FALSE
  BY <1>0, <1>1 DEF PackageInv, PackageTypes
<1>3. handed' \in Seq(Pieces) /\ recvBuf' \in Pieces
  BY <1>0, HandOutRaw, HandOutPackage
<1>4. PackageTypes'
  BY <1>0, <1>1, <1>3 DEF PackageTypes
<1>5. StillToCome'
  <2>1. CASE filter = "raw"
    BY <1>0, <1>1, <2>1, HandOutRaw DEF StillToCome
  <2>2. CASE filter # "raw"
    <3>1. /\ Len(handed') <= Ungarbled /\ \A i \in 1 .. Len(handed') : handed'[i] = Expected[i]
          /\ Upto(Sent, Len(handed')) \o (recvBuf' \o wire) = FlattenSeq(Sent)
      BY <1>0, <2>2, HandOutPackage
    <3>2. Sent' = Sent /\ Ungarbled' = Ungarbled /\ Expected' = Expected
      BY <1>1, SentStays
    <3> QED BY <1>1, <2>2, <3>1, <3>2 DEF StillToCome
  <2> QED BY <2>1, <2>2
<1> QED BY <1>1, <1>2, <1>4, <1>5 DEF PackageInv

LEMMA PackageInvKept == PackageInv /\ [PackagesNext]_packageVars => PackageInv'
<1> SUFFICES ASSUME PackageInv, [PackagesNext]_packageVars PROVE PackageInv'
  OBVIOUS
<1>1. CASE \E n \in 1 .. Len(wire) : ReceivePart(n)
  BY <1>1, ReceivePackages
<1>2. CASE HandOut
  BY <1>2, HandOutPackages
<1>3. ASSUME UNCHANGED <<filter, packages, garbled, wire, recvBuf, behind, handed>>
      PROVE  IsWholePkg' = IsWholePkg /\ StillToCome' /\ (invalid' \in BOOLEAN => PackageTypes')
  <2>1. IsWholePkg' = IsWholePkg
    BY <1>3 DEF IsWholePkg
  <2>2. StillToCome'
    BY <1>3, SentStays DEF StillToCome, PackageInv
  <2>3. invalid' \in BOOLEAN => PackageTypes'
    BY <1>3 DEF PackageTypes, PackageInv
  <2> QED BY <2>1, <2>2, <2>3
<1>4. CASE CloseInvalid
  BY <1>3, <1>4 DEF CloseInvalid, PackageInv
<1>5. CASE UNCHANGED packageVars
  <2>1. invalid' = invalid /\ UNCHANGED <<filter, packages, garbled, wire, recvBuf, behind, handed>>
    BY <1>5 DEF packageVars
  <2> QED BY <1>3, <2>1 DEF PackageInv, PackageTypes
<1> QED BY <1>1, <1>2, <1>4, <1>5 DEF PackagesNext

LEMMA PackageInvImplies == PackageInv => PackagesAsSent
<1> SUFFICES ASSUME PackageInv PROVE PackagesAsSent
  OBVIOUS
<1>0. PackageTypes /\ StillToCome /\ (invalid => IsWholePkg.flag = -2)
  BY DEF PackageInv
<1>1. CASE filter = "raw"
  <2>1. /\ recvBuf = <<>> => IsWholePkg.flag = -1
        /\ recvBuf # <<>> => IsWholePkg.flag = 0
    BY <1>0, <1>1, RawIs
  <2>2. ~invalid
    BY <1>0, <2>1
  <2>3. IsPrefix(FlattenSeq(handed), FlattenSeq(packages))
    <3>1. PICK f \in Pieces : f = FlattenSeq(handed)
      BY <1>0, FlattenAppend DEF PackageTypes
    <3>2. PICK c \in Pieces : c = recvBuf \o wire
      BY <1>0, Together DEF PackageTypes
    <3>3. f \o c = FlattenSeq(packages)
      BY <1>0, <1>1, <3>1, <3>2 DEF StillToCome
    <3> QED BY <3>1, <3>3, JoinedIsPrefix
  <2> QED BY <1>1, <2>1, <2>2, <2>3 DEF PackagesAsSent
<1>2. CASE filter # "raw"
  <2>0. Len(handed) \in Nat /\ Ungarbled \in 0 .. Len(packages) /\ Len(packages) \in Nat /\ Len(handed) <= Ungarbled
    BY <1>0, <1>2, UngarbledIs, SentIs, LenProperties DEF PackageTypes, StillToCome
  <2>1. IsPrefix(handed, SubSeq(Expected, 1, Ungarbled))
    <3>1. PICK u : u = Ungarbled
      OBVIOUS
    <3>2. Expected \in [1 .. Len(packages) -> Pieces]
      <4>1. DOMAIN packages = 1 .. Len(packages) /\ packages = [i \in 1 .. Len(packages) |-> packages[i]]
        BY <1>0, LenProperties DEF PackageTypes
      <4>2. \A i \in 1 .. Len(packages) : packages[i] \in Pieces /\ Packed(filter, packages[i]) \in Pieces
        BY <1>0, SentIs, PackedIs DEF PackageTypes
      <4>3. CASE filter = "http"
        BY <4>1, <4>2, <4>3 DEF Expected
      <4>4. CASE filter # "http"
        BY <4>1, <4>2, <4>4 DEF Expected
      <4> QED BY <4>3, <4>4
    <3>3. Expected \in Seq(Pieces) /\ Len(Expected) = Len(packages)
      BY <2>0, <3>2, SeqDef, LenProperties
    <3>4. PICK e \in Seq(Pieces) : e = SubSeq(Expected, 1, u) /\ Len(e) = u /\ \A i \in 1 .. u : e[i] = Expected[i]
      <4>1. u \in Nat /\ 1 \in Int /\ u \in Int /\ \A i \in 1 .. u : Expected[i] \in Pieces
        BY <2>0, <3>1, <3>2
      <4>2. SubSeq(Expected, 1, u) \in Seq(Pieces) /\ Len(SubSeq(Expected, 1, u)) = (IF 1 <= u THEN u - 1 + 1 ELSE 0)
            /\ \A i \in 1 .. u - 1 + 1 : SubSeq(Expected, 1, u)[i] = Expected[1 + i - 1]
        BY <4>1, SubSeqProperties
      <4>3. Len(SubSeq(Expected, 1, u)) = u /\ \A i \in 1 .. u : SubSeq(Expected, 1, u)[i] = Expected[i]
        BY <4>1, <4>2
      <4> QED BY <4>2, <4>3
    <3>5. handed \in Seq(Pieces) /\ Len(handed) <= Len(e)
      BY <1>0, <2>0, <3>1, <3>4 DEF PackageTypes
    <3>6. \A i \in 1 .. Len(handed) : handed[i] = e[i]
      <4>1. \A i \in 1 .. Len(handed) : i \in 1 .. u
        BY <2>0, <3>1
      <4> QED BY <1>0, <1>2, <3>4, <4>1 DEF StillToCome
    <3>7. IsPrefix(handed, e)
      BY <3>5, <3>6, PrefixIs
    <3> QED BY <3>1, <3>4, <3>7
  <2>2. CASE Len(handed) < Ungarbled
    <3>1. PICK h \in 1 .. Ungarbled : h = Len(handed) + 1
      BY <2>0, <2>2
    <3>2. PICK p : p = Packed(filter, packages[h])
      OBVIOUS
    <3>3. /\ p \in Pieces /\ (Len(recvBuf) < Len(p) => IsWholePkg.flag = -1)
          /\ (Len(recvBuf) >= Len(p) => IsWholePkg.flag = 0)
      BY <1>0, <1>2, <3>1, <3>2, Recognised
    <3>4. Len(recvBuf) \in Nat /\ Len(p) \in Nat
      BY <1>0, <3>3, LengthZero DEF PackageTypes
    <3>5. IsWholePkg.flag = -1 => Len(recvBuf) < Len(p)
      BY <3>3, <3>4
    <3>6. ~invalid
      BY <1>0, <3>3, <3>4
    <3>7. wire = <<>> => IsWholePkg.flag # -1
      <4>1. h \in 1 .. Len(packages) /\ Sent[h] = p
        BY <1>0, <3>1, <3>2, UngarbledIs, SentIs
      <4>2. PICK r \in Pieces : recvBuf \o wire = p \o r
        BY <1>0, <1>2, <3>1, <4>1, Coming
      <4>3. Len(recvBuf) + Len(wire) = Len(p) + Len(r) /\ Len(r) \in Nat
        <5>1. Len(recvBuf \o wire) = Len(recvBuf) + Len(wire) /\ Len(p \o r) = Len(p) + Len(r)
          BY <1>0, <3>3, JoinedBytes DEF PackageTypes
        <5> QED BY <4>2, <5>1, LengthZero
      <4>4. wire = <<>> => Len(wire) = 0
        OBVIOUS
      <4> QED BY <3>4, <3>5, <4>3, <4>4
    <3> QED BY <1>2, <2>1, <3>1, <3>2, <3>5, <3>6, <3>7 DEF PackagesAsSent
  <2>3. CASE Len(handed) = Ungarbled
    <3>1. CASE garbled[1] # 0
      <4>1. wire = <<>> => IsWholePkg.flag = -2
        BY <1>0, <1>2, <2>3, <3>1, Rejected
      <4> QED BY <1>2, <2>1, <2>3, <2>0, <3>1, <4>1 DEF PackagesAsSent
    <3>2. CASE garbled[1] = 0
      <4>1. recvBuf = <<>> /\ IsWholePkg.flag = -1
        BY <1>0, <1>2, <2>3, <3>2, UngarbledIs, AllCame, NothingToFind
      <4>2. ~invalid
        BY <1>0, <4>1
      <4> QED BY <1>2, <2>1, <2>3, <2>0, <4>1, <4>2 DEF PackagesAsSent
    <3> QED BY <3>1, <3>2
  <2> QED BY <2>0, <2>2, <2>3
<1> QED BY <1>1, <1>2

(* However the stream is cut and whatever lies behind it, isWholePkg lets  *)
(* the loop hand out the packages that were sent, whole and in order, up   *)
(* to the first with a wrong mark; it alone is refused, none is held back. *)
THEOREM PackagesComeAsSent == PackagesSpec => []PackagesAsSent
<1> QED BY InitPackageInv, PackageInvKept, PackageInvImplies, PTL DEF PackagesSpec

-----------------------------------------------------------------------------
(* HttpExchange.  Tables filled one entry after the other.                 *)
IsSequence(s) == Len(s) \in Nat /\ s = [i \in 1 .. Len(s) |-> s[i]]

LEMMA AnySequence == ASSUME NEW S, NEW s \in Seq(S) PROVE IsSequence(s) /\ DOMAIN s = 1 .. Len(s)
<1>1. Len(s) \in Nat /\ DOMAIN s = 1 .. Len(s) /\ s \in [1 .. Len(s) -> S]
  BY LenProperties
<1> QED BY <1>1 DEF IsSequence

LEMMA Listed == ASSUME NEW n \in Nat, NEW s, s = [i \in 1 .. n |-> s[i]] PROVE IsSequence(s) /\ Len(s) = n
<1> DEFINE S == {s[i] : i \in 1 .. n}
<1>1. s \in [1 .. n -> S]
  OBVIOUS
<1> HIDE DEF S
<1>2. s \in Seq(S)
  BY <1>1
<1>3. Len(s) \in Nat /\ DOMAIN s = 1 .. Len(s)
  BY <1>2, LenProperties
<1>4. DOMAIN s = 1 .. n
  BY <1>1
<1>5. Len(s) = n
  BY <1>3, <1>4
<1> QED BY <1>5 DEF IsSequence

Filling(t, s, g) ==
    [n \in 0 .. Len(s) |->
        IF n = 0 THEN t ELSE IF s[n] = <<>> THEN g[n - 1] ELSE With(g[n - 1], s[n][1], s[n][2])]
UpToEntry(t, s) == CHOOSE g : g = Filling(t, s, g)
Fills(t, s, n, g) ==
    /\ g = [m \in 0 .. n |-> g[m]]
    /\ \A m \in 0 .. n :
           g[m] = IF m = 0 THEN t ELSE IF s[m] = <<>> THEN g[m - 1] ELSE With(g[m - 1], s[m][1], s[m][2])

LEMMA FillsExist == ASSUME NEW t, NEW s, Len(s) \in Nat PROVE \E g : Fills(t, s, Len(s), g)
<1> DEFINE S == {n \in Nat : \E g : Fills(t, s, n, g)}
<1>1. 0 \in S
  <2> DEFINE g == [m \in 0 .. 0 |-> t]
  <2>1. g = [m \in 0 .. 0 |-> g[m]]
    OBVIOUS
  <2>2. \A m \in 0 .. 0 : m = 0 /\ g[m] = t
    OBVIOUS
  <2> HIDE DEF g
  <2>3. Fills(t, s, 0, g)
    BY <2>1, <2>2 DEF Fills
  <2> QED BY <2>3
<1>2. ASSUME NEW n \in Nat, n \in S PROVE n + 1 \in S
  <2>1. PICK h : Fills(t, s, n, h)
    BY <1>2
  <2> DEFINE x == IF s[n + 1] = <<>> THEN h[n] ELSE With(h[n], s[n + 1][1], s[n + 1][2])
  <2> HIDE DEF x
  <2> DEFINE g == [m \in 0 .. n + 1 |-> IF m = n + 1 THEN x ELSE h[m]]
  <2>2. g = [m \in 0 .. n + 1 |-> g[m]] /\ g[n + 1] = x /\ \A m \in 0 .. n : g[m] = h[m]
    OBVIOUS
  <2> HIDE DEF g
  <2>3. ASSUME NEW m \in 0 .. n + 1
        PROVE  g[m] = IF m = 0 THEN t ELSE IF s[m] = <<>> THEN g[m - 1] ELSE With(g[m - 1], s[m][1], s[m][2])
    <3>1. CASE m = n + 1
      <4>1. m # 0 /\ m - 1 = n /\ n \in 0 .. n
        BY <3>1
      <4>2. g[m - 1] = h[n] /\ g[m] = x
        BY <2>2, <3>1, <4>1
      <4> QED BY <3>1, <4>1, <4>2 DEF x
    <3>2. CASE m # n + 1
      <4>1. m \in 0 .. n /\ (m # 0 => m - 1 \in 0 .. n)
        BY <3>2
      <4>2. g[m] = h[m] /\ (m # 0 => g[m - 1] = h[m - 1])
        BY <2>2, <4>1
      <4>3. h[m] = IF m = 0 THEN t ELSE IF s[m] = <<>> THEN h[m - 1] ELSE With(h[m - 1], s[m][1], s[m][2])
        BY <2>1, <4>1 DEF Fills
      <4> QED BY <4>2, <4>3
    <3> QED BY <3>1, <3>2
  <2>4. Fills(t, s, n + 1, g)
    BY <2>2, <2>3 DEF Fills
  <2> QED BY <2>4
<1>3. \A n \in Nat : n \in S => n + 1 \in S
  BY <1>2
<1> HIDE DEF S
<1>4. Len(s) \in S
  BY <1>1, <1>3, SetInduction
<1> QED BY <1>4 DEF S

\* The step by step account of Entered.
LEMMA EnteredSteps ==
    ASSUME NEW t, NEW s, Len(s) \in Nat
    PROVE  \E g : Fills(t, s, Len(s), g) /\ Entered(t, s) = g[Len(s)]
<1> DEFINE R == UpToEntry(t, s)
<1>1. \E g : g = Filling(t, s, g)
  <2>1. PICK g : Fills(t, s, Len(s), g)
    BY FillsExist
  <2>2. g = [m \in 0 .. Len(s) |-> g[m]]
    BY <2>1 DEF Fills
  <2>3. \A m \in 0 .. Len(s) : g[m] = Filling(t, s, g)[m]
    BY <2>1 DEF Fills, Filling
  <2>4. Filling(t, s, g) = [m \in 0 .. Len(s) |-> Filling(t, s, g)[m]]
    BY DEF Filling
  <2> QED BY <2>2, <2>3, <2>4
<1>2. R = Filling(t, s, R)
  <2> HIDE DEF R
  <2>1. R = CHOOSE g : g = Filling(t, s, g)
    BY DEF R, UpToEntry
  <2> QED BY <1>1, <2>1
<1>3. Entered(t, s) = R[Len(s)]
  BY DEF Entered, UpToEntry, Filling
<1> HIDE DEF R
<1>4. Fills(t, s, Len(s), R)
  BY <1>2 DEF Filling, Fills
<1> QED BY <1>3, <1>4

Enters(s, j, x) == s[j] # <<>> /\ s[j][1] = x
Latest(s, n, i, x) == i \in 1 .. n /\ Enters(s, i, x) /\ \A j \in i + 1 .. n : ~Enters(s, j, x)
Untouched(s, n, x) == \A j \in 1 .. n : ~Enters(s, j, x)
\* A name has what its last entry gave it, or what it had.
After(t, s, n, g) ==
    /\ \A x : x \in DOMAIN g <=> x \in DOMAIN t \/ \E j \in 1 .. n : Enters(s, j, x)
    /\ \A x \in DOMAIN g : \/ \E i \in 1 .. n : Latest(s, n, i, x) /\ g[x] = s[i][2]
                           \/ x \in DOMAIN t /\ g[x] = t[x] /\ Untouched(s, n, x)

LEMMA WithSays ==
    ASSUME NEW t, NEW n, NEW e
    PROVE  /\ \A x : x \in DOMAIN With(t, n, e) <=> x \in DOMAIN t \/ x = n
           /\ With(t, n, e)[n] = e
           /\ \A x \in DOMAIN t : x # n => With(t, n, e)[x] = t[x]
BY DEF With

LEMMA NothingEntered == ASSUME NEW t, NEW s PROVE After(t, s, 0, t)
BY DEF After, Untouched

LEMMA EntryPassed ==
    ASSUME NEW t, NEW s, NEW n \in Nat, NEW g, After(t, s, n, g), s[n + 1] = <<>>
    PROVE  After(t, s, n + 1, g)
<1>1. \A x : ~Enters(s, n + 1, x)
  BY DEF Enters
<1>2. \A j : j \in 1 .. n + 1 <=> j \in 1 .. n \/ j = n + 1
  OBVIOUS
<1>3. \A x : \A i \in 1 .. n : Latest(s, n, i, x) => Latest(s, n + 1, i, x)
  BY <1>1, <1>2 DEF Latest
<1>4. \A x : Untouched(s, n, x) => Untouched(s, n + 1, x)
  BY <1>1, <1>2 DEF Untouched
<1>5. ASSUME NEW x PROVE x \in DOMAIN g <=> x \in DOMAIN t \/ \E j \in 1 .. n + 1 : Enters(s, j, x)
  BY <1>1, <1>2 DEF After
<1>6. ASSUME NEW x \in DOMAIN g
      PROVE  \/ \E i \in 1 .. n + 1 : Latest(s, n + 1, i, x) /\ g[x] = s[i][2]
             \/ x \in DOMAIN t /\ g[x] = t[x] /\ Untouched(s, n + 1, x)
  BY <1>2, <1>3, <1>4 DEF After
<1> QED BY <1>5, <1>6 DEF After

LEMMA EntryMade ==
    ASSUME NEW t, NEW s, NEW n \in Nat, NEW g, After(t, s, n, g), s[n + 1] # <<>>
    PROVE  After(t, s, n + 1, With(g, s[n + 1][1], s[n + 1][2]))
<1> DEFINE name == s[n + 1][1]
           h == With(g, name, s[n + 1][2])
<1>0. /\ \A x : x \in DOMAIN h <=> x \in DOMAIN g \/ x = name
      /\ h[name] = s[n + 1][2]
      /\ \A x \in DOMAIN g : x # name => h[x] = g[x]
  BY WithSays
<1> HIDE DEF h
<1>1. \A x : Enters(s, n + 1, x) <=> x = name
  BY DEF Enters
<1>2. \A j : j \in 1 .. n + 1 <=> j \in 1 .. n \/ j = n + 1
  OBVIOUS
<1> HIDE DEF name
<1>3. ASSUME NEW x, x # name PROVE \A i \in 1 .. n : Latest(s, n, i, x) => Latest(s, n + 1, i, x)
  BY <1>1, <1>2, <1>3 DEF Latest
<1>4. ASSUME NEW x, x # name PROVE Untouched(s, n, x) => Untouched(s, n + 1, x)
  BY <1>1, <1>2, <1>4 DEF Untouched
<1>5. ASSUME NEW x PROVE x \in DOMAIN h <=> x \in DOMAIN t \/ \E j \in 1 .. n + 1 : Enters(s, j, x)
  BY <1>0, <1>1, <1>2 DEF After
<1>6. ASSUME NEW x \in DOMAIN h
      PROVE  \/ \E i \in 1 .. n + 1 : Latest(s, n + 1, i, x) /\ h[x] = s[i][2]
             \/ x \in DOMAIN t /\ h[x] = t[x] /\ Untouched(s, n + 1, x)
  <2>1. CASE x = name
    <3>1. Latest(s, n + 1, n + 1, x)
      BY <1>1, <2>1 DEF Latest
    <3> QED BY <1>0, <2>1, <3>1
  <2>2. CASE x # name
    <3>1. x \in DOMAIN g /\ h[x] = g[x]
      BY <1>0, <2>2
    <3>2. \/ \E i \in 1 .. n : Latest(s, n, i, x) /\ g[x] = s[i][2]
          \/ x \in DOMAIN t /\ g[x] = t[x] /\ Untouched(s, n, x)
      BY <3>1 DEF After
    <3> QED BY <1>2, <1>3, <1>4, <2>2, <3>1, <3>2
  <2> QED BY <2>1, <2>2
<1>7. After(t, s, n + 1, h)
  BY <1>5, <1>6 DEF After
<1> QED BY <1>7 DEF h, name

LEMMA EnteredSays ==
    ASSUME NEW t, NEW s, Len(s) \in Nat
    PROVE  After(t, s, Len(s), Entered(t, s))
<1>1. PICK g : Fills(t, s, Len(s), g) /\ Entered(t, s) = g[Len(s)]
  BY EnteredSteps
<1>0. \A m \in 0 .. Len(s) :
          g[m] = IF m = 0 THEN t ELSE IF s[m] = <<>> THEN g[m - 1] ELSE With(g[m - 1], s[m][1], s[m][2])
  BY <1>1, Zenon DEF Fills
<1> DEFINE S == {n \in Nat : n <= Len(s) => After(t, s, n, g[n])}
<1>2. 0 \in S
  <2>1. 0 \in 0 .. Len(s)
    OBVIOUS
  <2>2. g[0] = t
    BY <1>0, <2>1
  <2> QED BY <2>2, NothingEntered
<1>3. ASSUME NEW n \in Nat, n \in S, n + 1 <= Len(s) PROVE After(t, s, n + 1, g[n + 1])
  <2>1. n + 1 \in 0 .. Len(s) /\ n + 1 # 0 /\ n + 1 - 1 = n
    BY <1>3
  <2>2. g[n + 1] = IF s[n + 1] = <<>> THEN g[n] ELSE With(g[n], s[n + 1][1], s[n + 1][2])
    BY <1>0, <2>1
  <2>3. After(t, s, n, g[n])
    BY <1>3
  <2>4. CASE s[n + 1] = <<>>
    BY <2>2, <2>3, <2>4, EntryPassed
  <2>5. CASE s[n + 1] # <<>>
    BY <2>2, <2>3, <2>5, EntryMade
  <2> QED BY <2>4, <2>5
<1>4. \A n \in Nat : n \in S => n + 1 \in S
  BY <1>3
<1> HIDE DEF S
<1>5. Len(s) \in S
  BY <1>2, <1>4, SetInduction
<1>6. After(t, s, Len(s), g[Len(s)])
  BY <1>5 DEF S
<1> QED BY <1>1, <1>6

-----------------------------------------------------------------------------
(* HttpExchange.  Tables of values and cookies.                            *)
LastIs(items, i, x) == i \in DOMAIN items /\ IsFor(items[i], x) /\ \A j \in i + 1 .. Len(items) : ~IsFor(items[j], x)
\* Each name has the value of its last item.
Holds(table, items, k) ==
    /\ \A x : x \in DOMAIN table <=> \E i \in DOMAIN items : IsFor(items[i], x)
    /\ \A x \in DOMAIN table : \E i \in DOMAIN items :
           LastIs(items, i, x) /\ table[x] = <<k, FormUrlDecode(items[i][2])>>

LEMMA ItemsAre ==
    ASSUME NEW items, AreItems(items)
    PROVE  /\ IsSequence(items) /\ DOMAIN items = 1 .. Len(items)
           /\ \A i \in DOMAIN items : Len(items[i]) \in {1, 2} /\ (Len(items[i]) = 2 => items[i][2] \in Nat)
<1> DEFINE S == {items[i] : i \in DOMAIN items}
<1>1. items \in Seq(S)
  BY Zenon DEF AreItems
<1> HIDE DEF S
<1>2. IsSequence(items) /\ DOMAIN items = 1 .. Len(items)
  BY <1>1, AnySequence
<1> QED BY <1>2, Zenon DEF AreItems

LEMMA TableHolds ==
    ASSUME NEW items, NEW k, AreItems(items)
    PROVE  Holds(Table(items, k), items, k)
<1>0. /\ Len(items) \in Nat /\ DOMAIN items = 1 .. Len(items)
      /\ \A i \in DOMAIN items : Len(items[i]) \in {1, 2}
  BY ItemsAre DEF IsSequence
<1> DEFINE s == [i \in DOMAIN items |->
                    IF Len(items[i]) = 1 THEN <<>> ELSE <<items[i][1], <<k, FormUrlDecode(items[i][2])>>>>]
<1>1. Table(items, k) = Entered(Empty, s)
  BY Zenon DEF Table
<1>2. \A i \in DOMAIN items :
          s[i] = IF Len(items[i]) = 1 THEN <<>> ELSE <<items[i][1], <<k, FormUrlDecode(items[i][2])>>>>
  BY Zenon
<1>3. s = [i \in 1 .. Len(items) |-> s[i]]
  BY <1>0
<1> HIDE DEF s
<1>4. Len(s) = Len(items)
  BY <1>0, <1>3, Listed
<1>5. ASSUME NEW i \in DOMAIN items
      PROVE  /\ \A x : Enters(s, i, x) <=> IsFor(items[i], x)
             /\ Len(items[i]) = 2 => s[i][2] = <<k, FormUrlDecode(items[i][2])>>
  <2>1. CASE Len(items[i]) = 1
    <3>1. s[i] = <<>>
      BY <1>2, <2>1, Zenon
    <3>2. ~(Len(items[i]) = 2)
      BY <2>1
    <3> QED BY <3>1, <3>2, Zenon DEF Enters, IsFor
  <2>2. CASE Len(items[i]) # 1
    <3> DEFINE a == items[i][1]
               b == <<k, FormUrlDecode(items[i][2])>>
    <3>1. s[i] = <<a, b>> /\ Len(items[i]) = 2
      BY <1>0, <1>2, <2>2
    <3> HIDE DEF a, b
    <3>2. s[i] # <<>> /\ s[i][1] = a /\ s[i][2] = b
      BY <3>1
    <3>3. \A x : Enters(s, i, x) <=> IsFor(items[i], x)
      BY <3>1, <3>2, Zenon DEF Enters, IsFor, a
    <3> QED BY <3>2, <3>3 DEF b
  <2> QED BY <2>1, <2>2
<1>6. After(Empty, s, Len(items), Table(items, k))
  BY <1>0, <1>1, <1>4, EnteredSays
<1> DEFINE t == Table(items, k)
<1> HIDE DEF t
<1>7. After(Empty, s, Len(items), t) /\ \A x : x \notin DOMAIN Empty
  BY <1>6 DEF t, Empty
<1>8. ASSUME NEW x PROVE x \in DOMAIN t <=> \E i \in DOMAIN items : IsFor(items[i], x)
  BY <1>0, <1>5, <1>7 DEF After
<1>9. ASSUME NEW x \in DOMAIN t
      PROVE  \E i \in DOMAIN items : LastIs(items, i, x) /\ t[x] = <<k, FormUrlDecode(items[i][2])>>
  <2>1. PICK i \in 1 .. Len(items) : Latest(s, Len(items), i, x) /\ t[x] = s[i][2]
    BY <1>7, Zenon DEF After
  <2>2. Enters(s, i, x) /\ \A j \in i + 1 .. Len(items) : ~Enters(s, j, x)
    BY <2>1, Zenon DEF Latest
  <2>3. i \in DOMAIN items /\ IsFor(items[i], x)
    BY <1>0, <1>5, <2>1, <2>2
  <2>4. \A j \in i + 1 .. Len(items) : ~IsFor(items[j], x)
    <3>1. \A j \in i + 1 .. Len(items) : j \in DOMAIN items
      BY <1>0, <2>1
    <3> QED BY <1>5, <2>2, <3>1
  <2>5. t[x] = <<k, FormUrlDecode(items[i][2])>>
    <3>1. Len(items[i]) = 2
      BY <2>3, Zenon DEF IsFor
    <3> QED BY <1>5, <2>1, <2>3, <3>1, Zenon
  <2> QED BY <2>3, <2>4, <2>5 DEF LastIs
<1>10. Holds(t, items, k)
  BY <1>8, <1>9 DEF Holds
<1> QED BY <1>10 DEF t

LEMMA OneLast ==
    ASSUME NEW items, NEW x, DOMAIN items = 1 .. Len(items), Len(items) \in Nat,
           NEW i, NEW j, LastIs(items, i, x), LastIs(items, j, x)
    PROVE  i = j
<1>1. i \in 1 .. Len(items) /\ j \in 1 .. Len(items) /\ IsFor(items[i], x) /\ IsFor(items[j], x)
      /\ (\A h \in i + 1 .. Len(items) : ~IsFor(items[h], x))
      /\ (\A h \in j + 1 .. Len(items) : ~IsFor(items[h], x))
  BY Zenon DEF LastIs
<1>2. ~(i < j)
  <2>1. i < j => j \in i + 1 .. Len(items)
    BY <1>1
  <2> QED BY <1>1, <2>1, Zenon
<1>3. ~(j < i)
  <2>1. j < i => i \in j + 1 .. Len(items)
    BY <1>1
  <2> QED BY <1>1, <2>1, Zenon
<1> QED BY <1>1, <1>2, <1>3

\* What Holds says, as the property asks it.
LEMMA HoldsGives ==
    ASSUME NEW table, NEW items, NEW k, DOMAIN items = 1 .. Len(items), Len(items) \in Nat, Holds(table, items, k),
           \A i \in DOMAIN items : Len(items[i]) = 2 => items[i][2] \in Nat
    PROVE  /\ DOMAIN table = NamesIn(items)
           /\ \A n \in DOMAIN table : /\ table[n][1] = k /\ table[n][2] \in Int
                                      /\ table[n][2] = FormUrlDecode(LastFor(items, n))
<1>1. ASSUME NEW x PROVE x \in NamesIn(items) <=> \E i \in DOMAIN items : IsFor(items[i], x)
  BY DEF NamesIn, IsFor
<1>2. DOMAIN table = NamesIn(items)
  <2>1. \A x : x \in DOMAIN table <=> x \in NamesIn(items)
    BY <1>1, Zenon DEF Holds
  <2> QED BY <2>1
<1>3. ASSUME NEW n \in DOMAIN table
      PROVE  /\ table[n][1] = k /\ table[n][2] \in Int
             /\ table[n][2] = FormUrlDecode(LastFor(items, n))
  <2>1. PICK i \in DOMAIN items : LastIs(items, i, n) /\ table[n] = <<k, FormUrlDecode(items[i][2])>>
    BY Zenon DEF Holds
  <2>2. LastFor(items, n) = items[i][2]
    <3> DEFINE P(h) == IsFor(items[h], n) /\ \A j \in h + 1 .. Len(items) : ~IsFor(items[j], n)
               c == CHOOSE h \in DOMAIN items : P(h)
    <3>1. P(i)
      BY <2>1, Zenon DEF LastIs
    <3>2. c \in DOMAIN items /\ P(c)
      BY <3>1
    <3>3. LastFor(items, n) = items[c][2]
      BY Zenon DEF LastFor
    <3> HIDE DEF c
    <3>4. LastIs(items, c, n)
      BY <3>2, Zenon DEF LastIs
    <3>5. c = i
      BY <2>1, <3>4, OneLast
    <3> QED BY <3>3, <3>5
  <2>3. items[i][2] \in Nat
    BY <2>1, Zenon DEF LastIs, IsFor
  <2> DEFINE v == items[i][2]
             d == FormUrlDecode(v)
  <2>4. d \in Int
    <3> HIDE DEF v
    <3>1. v \in Nat
      BY <2>3 DEF v
    <3>2. EncodedAs \in Nat /\ EncodedAs > 0
      BY DEF EncodedAs
    <3> QED BY <3>1, <3>2 DEF FormUrlDecode
  <2>5. table[n] = <<k, d>> /\ d = FormUrlDecode(LastFor(items, n))
    BY <2>1, <2>2, Zenon
  <2> HIDE DEF d
  <2>6. table[n][1] = k /\ table[n][2] = d
    BY <2>5
  <2> QED BY <2>4, <2>5, <2>6
<1> QED BY <1>2, <1>3

LEMMA OfItsElements ==
    ASSUME NEW s, IsSequence(s), NEW T, {s[i] : i \in 1 .. Len(s)} \subseteq T
    PROVE  s \in Seq(T)
<1>1. PICK n \in Nat : n = Len(s)
  BY DEF IsSequence
<1>2. s = [i \in 1 .. n |-> s[i]]
  BY <1>1 DEF IsSequence
<1>3. \A i \in 1 .. n : s[i] \in T
  BY <1>1
<1>4. s \in [1 .. n -> T]
  BY <1>2, <1>3
<1> QED BY <1>4

LEMMA BothParts ==
    ASSUME NEW b, NEW d, IsSequence(b), IsSequence(d)
    PROVE  /\ Len(b \o d) = Len(b) + Len(d) /\ Len(b \o d) \in Nat /\ DOMAIN (b \o d) = 1 .. Len(b \o d)
           /\ \A i \in 1 .. Len(b) : (b \o d)[i] = b[i]
           /\ \A i \in 1 .. Len(d) : (b \o d)[Len(b) + i] = d[i]
<1> DEFINE T == {b[i] : i \in 1 .. Len(b)} \cup {d[i] : i \in 1 .. Len(d)}
<1>1. {b[i] : i \in 1 .. Len(b)} \subseteq T /\ {d[i] : i \in 1 .. Len(d)} \subseteq T
  OBVIOUS
<1> HIDE DEF T
<1>2. b \in Seq(T) /\ d \in Seq(T)
  BY <1>1, OfItsElements
<1>3. /\ b \o d \in Seq(T) /\ Len(b \o d) = Len(b) + Len(d)
      /\ \A i \in 1 .. Len(b) + Len(d) : (b \o d)[i] = IF i <= Len(b) THEN b[i] ELSE d[i - Len(b)]
  BY <1>2, ConcatProperties
<1>4. Len(b) \in Nat /\ Len(d) \in Nat
  BY DEF IsSequence
<1>5. \A i \in 1 .. Len(b) : i \in 1 .. Len(b) + Len(d) /\ i <= Len(b)
  BY <1>4
<1>6. \A i \in 1 .. Len(d) : Len(b) + i \in 1 .. Len(b) + Len(d) /\ ~(Len(b) + i <= Len(b)) /\ Len(b) + i - Len(b) = i
  BY <1>4
<1>7. Len(b \o d) \in Nat
  BY <1>3, <1>4
<1>8. DOMAIN (b \o d) = 1 .. Len(b \o d)
  BY <1>3, LenProperties
<1>9. \A i \in 1 .. Len(b) : (b \o d)[i] = b[i]
  BY <1>3, <1>5
<1>10. ASSUME NEW i \in 1 .. Len(d) PROVE (b \o d)[Len(b) + i] = d[i]
  <2>1. PICK h \in 1 .. Len(b) + Len(d) : h = Len(b) + i
    BY <1>6
  <2>2. ~(h <= Len(b)) /\ h - Len(b) = i
    BY <1>6, <2>1
  <2>3. (b \o d)[h] = d[h - Len(b)]
    BY <1>3, <2>1, <2>2
  <2> QED BY <2>1, <2>2, <2>3
<1> QED BY <1>3, <1>7, <1>8, <1>9, <1>10

\* Items entered after others.
Pairs(d) == \A i \in 1 .. Len(d) : Len(d[i]) = 2
EntriesOf(s, d, k) == Len(s) = Len(d) /\ \A i \in 1 .. Len(d) : s[i] = <<d[i][1], <<k, FormUrlDecode(d[i][2])>>>>
LEMMA MoreHolds ==
    ASSUME NEW t, NEW b, NEW d, NEW s, NEW k, IsSequence(b), IsSequence(d), DOMAIN b = 1 .. Len(b),
           Holds(t, b, k), Pairs(d), EntriesOf(s, d, k)
    PROVE  Holds(Entered(t, s), b \o d, k)
<1> DEFINE g == b \o d
           u == Entered(t, s)
           m == Len(b)
           n == Len(d)
<1>1. /\ Len(g) = m + n /\ DOMAIN g = 1 .. m + n
      /\ \A i \in 1 .. m : g[i] = b[i]
      /\ \A i \in 1 .. n : g[m + i] = d[i]
  BY BothParts
<1>2. m \in Nat /\ n \in Nat
  BY DEF IsSequence
<1>3. After(t, s, n, u)
  <2>1. Len(s) = n
    BY DEF EntriesOf
  <2> QED BY <1>2, <2>1, EnteredSays
<1>4. ASSUME NEW i \in 1 .. n
      PROVE  /\ \A x : Enters(s, i, x) <=> IsFor(d[i], x)
             /\ s[i][2] = <<k, FormUrlDecode(d[i][2])>>
  <2> DEFINE a == d[i][1]
             e == <<k, FormUrlDecode(d[i][2])>>
  <2>1. s[i] = <<a, e>> /\ Len(d[i]) = 2
    BY DEF EntriesOf, Pairs
  <2> HIDE DEF a, e
  <2>2. s[i] # <<>> /\ s[i][1] = a /\ s[i][2] = e
    BY <2>1
  <2>3. \A x : Enters(s, i, x) <=> IsFor(d[i], x)
    BY <2>1, <2>2, Zenon DEF Enters, IsFor, a
  <2> QED BY <2>2, <2>3 DEF e
<1> HIDE DEF g, u, m, n
<1>5. \A i \in 1 .. n : m + i \in 1 .. m + n
  BY <1>2
<1>6. \A i \in 1 .. m : i \in 1 .. m + n
  BY <1>2
<1>7. \A i \in 1 .. m + n : i \in 1 .. m \/ \E h \in 1 .. n : i = m + h
  <2> TAKE i \in 1 .. m + n
  <2>1. CASE i <= m
    BY <1>2, <2>1
  <2>2. CASE ~(i <= m)
    <3>1. i - m \in 1 .. n /\ i = m + (i - m)
      BY <1>2, <2>2
    <3> QED BY <3>1
  <2> QED BY <2>1, <2>2
<1>8. DOMAIN b = 1 .. m
  BY DEF m
<1>9. ASSUME NEW x
      PROVE  (\E i \in DOMAIN g : IsFor(g[i], x)) <=> (\E i \in 1 .. m : IsFor(b[i], x)) \/ (\E i \in 1 .. n : Enters(s, i, x))
  BY <1>1, <1>4, <1>5, <1>6, <1>7
<1>10. ASSUME NEW x PROVE x \in DOMAIN u <=> \E i \in DOMAIN g : IsFor(g[i], x)
  <2>1. x \in DOMAIN u <=> x \in DOMAIN t \/ \E j \in 1 .. n : Enters(s, j, x)
    BY <1>3, Zenon DEF After
  <2>2. x \in DOMAIN t <=> \E i \in 1 .. m : IsFor(b[i], x)
    BY <1>8, Zenon DEF Holds
  <2> QED BY <1>9, <2>1, <2>2, Zenon
<1>11. ASSUME NEW x \in DOMAIN u
       PROVE  \E i \in DOMAIN g : LastIs(g, i, x) /\ u[x] = <<k, FormUrlDecode(g[i][2])>>
  <2>1. CASE \E i \in 1 .. n : Latest(s, n, i, x) /\ u[x] = s[i][2]
    <3>1. PICK i \in 1 .. n : Latest(s, n, i, x) /\ u[x] = s[i][2]
      BY <2>1
    <3>2. Enters(s, i, x) /\ \A j \in i + 1 .. n : ~Enters(s, j, x)
      BY <3>1, Zenon DEF Latest
    <3>3. m + i \in DOMAIN g /\ g[m + i] = d[i]
      BY <1>1, <1>5
    <3>4. IsFor(g[m + i], x) /\ u[x] = <<k, FormUrlDecode(g[m + i][2])>>
      BY <1>4, <3>1, <3>2, <3>3, Zenon
    <3>5. ASSUME NEW j \in m + i + 1 .. Len(g) PROVE ~IsFor(g[j], x)
      <4>1. PICK h \in i + 1 .. n : j = m + h
        <5>1. j - m \in i + 1 .. n /\ j = m + (j - m)
          BY <1>1, <1>2
        <5> QED BY <5>1
      <4>2. h \in 1 .. n
        BY <1>2, <4>1
      <4>3. g[j] = d[h] /\ ~IsFor(d[h], x)
        BY <1>1, <1>4, <3>2, <4>1, <4>2
      <4> QED BY <4>3
    <3>6. LastIs(g, m + i, x)
      BY <3>3, <3>4, <3>5, Zenon DEF LastIs
    <3> QED BY <3>3, <3>4, <3>6
  <2>2. CASE x \in DOMAIN t /\ u[x] = t[x] /\ Untouched(s, n, x)
    <3>1. PICK i \in DOMAIN b : LastIs(b, i, x) /\ t[x] = <<k, FormUrlDecode(b[i][2])>>
      BY <2>2, Zenon DEF Holds
    <3>2. IsFor(b[i], x) /\ \A j \in i + 1 .. m : ~IsFor(b[j], x)
      BY <3>1, Zenon DEF LastIs, m
    <3>3. i \in 1 .. m
      BY <1>8
    <3>4. i \in DOMAIN g /\ g[i] = b[i]
      BY <1>1, <1>6, <3>3
    <3>5. ASSUME NEW j \in i + 1 .. Len(g) PROVE ~IsFor(g[j], x)
      <4>1. j \in 1 .. m + n
        BY <1>1, <1>2, <3>3
      <4>2. CASE j \in 1 .. m
        <5>1. j \in i + 1 .. m
          BY <1>2, <3>3, <4>2
        <5>2. g[j] = b[j]
          BY <1>1, <4>2
        <5> QED BY <3>2, <5>1, <5>2
      <4>3. CASE j \notin 1 .. m
        <5>1. PICK h \in 1 .. n : j = m + h
          BY <1>7, <4>1, <4>3
        <5>2. g[j] = d[h] /\ ~Enters(s, h, x)
          BY <1>1, <2>2, <5>1 DEF Untouched
        <5> QED BY <1>4, <5>1, <5>2, Zenon
      <4> QED BY <4>2, <4>3
    <3>6. LastIs(g, i, x)
      BY <3>2, <3>4, <3>5, Zenon DEF LastIs
    <3>7. u[x] = <<k, FormUrlDecode(g[i][2])>>
      BY <2>2, <3>1, <3>4, Zenon
    <3> QED BY <3>4, <3>6, <3>7
  <2> QED BY <1>3, <2>1, <2>2, Zenon DEF After
<1>12. Holds(u, g, k)
  BY <1>10, <1>11, Zenon DEF Holds
<1> QED BY <1>12 DEF u, g

LEMMA EarliestOf ==
    ASSUME NEW n \in Nat, NEW T, T \subseteq 1 .. n
    PROVE  (IF T = {} THEN n + 1 ELSE CHOOSE i \in T : \A j \in T : i <= j) \in 1 .. n + 1
<1>1. CASE T = {}
  BY <1>1
<1>2. CASE T # {}
  <2>1. T \subseteq Nat
    OBVIOUS
  <2>2. \E i \in T : \A j \in T : i <= j
    BY <1>2, <2>1, Least
  <2> DEFINE c == CHOOSE i \in T : \A j \in T : i <= j
  <2>3. c \in T
    BY <2>2
  <2> HIDE DEF c
  <2>4. c \in 1 .. n + 1
    BY <2>3
  <2> QED BY <1>2, <2>4 DEF c
<1> QED BY <1>1, <1>2

\* What the assumption says of one request.
IsSent(q) ==
    /\ AreItems(q.query) /\ AreItems(q.body)
    /\ q.heads \in Seq({q.heads[i] : i \in DOMAIN q.heads})
    /\ \A i \in DOMAIN q.heads : AreItems(q.heads[i][2])
    /\ q.parts \in Seq({q.parts[i] : i \in DOMAIN q.parts})
    /\ \A i \in DOMAIN q.parts : q.parts[i].value \in Nat
LEMMA RequestsAreSent == ASSUME NEW q \in Requests PROVE IsSent(q)
BY HttpExchangeAssumption, Zenon DEF IsSent

LEMMA NoItems == AreItems(<<>>)
<1>1. DOMAIN <<>> = {}
  OBVIOUS
<1>2. <<>> \in Seq({<<>>[i] : i \in DOMAIN <<>>})
  OBVIOUS
<1> QED BY <1>1, <1>2, Zenon DEF AreItems

LEMMA HeadEntries ==
    ASSUME NEW q, NEW k, IsSent(q)
    PROVE  \A n \in DOMAIN HeadTable(q, k) : \E i \in DOMAIN q.heads : HeadTable(q, k)[n] = <<k, q.heads[i][2]>>
<1> DEFINE h == q.heads
           S == {h[i] : i \in DOMAIN h}
<1>1. h \in Seq(S)
  BY Zenon DEF IsSent
<1> HIDE DEF S
<1>2. Len(h) \in Nat /\ DOMAIN h = 1 .. Len(h)
  BY <1>1, AnySequence DEF IsSequence
<1> DEFINE f == FirstIn(h, Nameless)
           T == {i \in DOMAIN h : Nameless(h[i])}
<1>3. f = IF T = {} THEN Len(h) + 1 ELSE CHOOSE i \in T : \A j \in T : i <= j
  BY Zenon DEF FirstIn
<1>4. f \in 1 .. Len(h) + 1
  <2>1. T \subseteq 1 .. Len(h)
    BY <1>2
  <2> HIDE DEF T, f
  <2>2. PICK n \in Nat : n = Len(h)
    BY <1>2
  <2> QED BY <1>3, <2>1, <2>2, EarliestOf
<1> DEFINE n == f - 1
           s == [i \in 1 .. n |->
                    IF i = Boundary(q) THEN <<>> ELSE <<ToLower(q.heads[i][1]), <<k, q.heads[i][2]>>>>]
<1>5. HeadTable(q, k) = Entered(Empty, s)
  BY Zenon DEF HeadTable
<1>6. \A i \in 1 .. n : s[i] = IF i = Boundary(q) THEN <<>> ELSE <<ToLower(h[i][1]), <<k, h[i][2]>>>>
  BY Zenon
<1>7. s = [i \in 1 .. n |-> s[i]]
  OBVIOUS
<1> HIDE DEF s
<1>8. n \in Nat /\ \A i \in 1 .. n : i \in DOMAIN h
  BY <1>2, <1>4
<1> HIDE DEF f, n
<1>9. Len(s) = n
  BY <1>7, <1>8, Listed
<1> DEFINE t == HeadTable(q, k)
<1>10. After(Empty, s, n, t)
  BY <1>5, <1>8, <1>9, EnteredSays
<1> HIDE DEF t
<1>11. ASSUME NEW x \in DOMAIN t PROVE \E i \in DOMAIN h : t[x] = <<k, h[i][2]>>
  <2>1. x \notin DOMAIN Empty
    BY DEF Empty
  <2>2. PICK i \in 1 .. n : Latest(s, n, i, x) /\ t[x] = s[i][2]
    BY <1>10, <2>1, Zenon DEF After
  <2>3. s[i] # <<>>
    BY <2>2, Zenon DEF Latest, Enters
  <2> DEFINE a == ToLower(h[i][1])
             b == <<k, h[i][2]>>
  <2>4. s[i] = <<a, b>>
    BY <1>6, <2>3, Zenon
  <2> HIDE DEF a, b
  <2>5. s[i][2] = b
    BY <2>4
  <2> QED BY <1>8, <2>2, <2>5 DEF b
<1> QED BY <1>11 DEF t

LEMMA CookiesAre ==
    ASSUME NEW q, NEW k, IsSent(q)
    PROVE  \A n \in DOMAIN Cookies(HeadTable(q, k), k) : Cookies(HeadTable(q, k), k)[n][1] = k
<1> DEFINE heads == HeadTable(q, k)
           items == IF "cookie" \in DOMAIN heads THEN heads["cookie"][2] ELSE <<>>
           t == Table(items, k)
<1>1. Cookies(heads, k) = t
  BY Zenon DEF Cookies
<1>2. \A n \in DOMAIN heads : \E i \in DOMAIN q.heads : heads[n] = <<k, q.heads[i][2]>>
  BY HeadEntries
<1> HIDE DEF heads
<1>3. AreItems(items)
  <2>1. CASE "cookie" \in DOMAIN heads
    <3>1. PICK i \in DOMAIN q.heads : heads["cookie"] = <<k, q.heads[i][2]>>
      BY <1>2, <2>1
    <3> DEFINE v == q.heads[i][2]
    <3>2. heads["cookie"] = <<k, v>>
      BY <3>1
    <3>3. AreItems(v)
      BY Zenon DEF IsSent
    <3> HIDE DEF v
    <3>4. heads["cookie"][2] = v
      BY <3>2
    <3> QED BY <2>1, <3>3, <3>4
  <2>2. CASE "cookie" \notin DOMAIN heads
    BY <2>2, NoItems
  <2> QED BY <2>1, <2>2
<1> HIDE DEF items
<1>4. Holds(t, items, k)
  BY <1>3, TableHolds
<1>5. /\ Len(items) \in Nat /\ DOMAIN items = 1 .. Len(items)
      /\ \A i \in DOMAIN items : Len(items[i]) = 2 => items[i][2] \in Nat
  BY <1>3, ItemsAre DEF IsSequence
<1> HIDE DEF t
<1>6. \A n \in DOMAIN t : t[n][1] = k
  BY <1>4, <1>5, HoldsGives
<1>7. \A n \in DOMAIN Cookies(heads, k) : Cookies(heads, k)[n][1] = k
  BY <1>1, <1>6
<1> QED BY <1>7 DEF heads

-----------------------------------------------------------------------------
(* The parts of a multipart body.                                          *)
LEMMA PartsAre ==
    ASSUME NEW q, IsSent(q)
    PROVE  /\ IsSequence(PartsRead(q)) /\ DOMAIN PartsRead(q) = 1 .. Len(PartsRead(q))
           /\ \A i \in DOMAIN PartsRead(q) : i \in DOMAIN q.parts /\ PartsRead(q)[i] = q.parts[i]
<1> DEFINE h == q.parts
           S == {h[i] : i \in DOMAIN h}
<1>1. h \in Seq(S)
  BY Zenon DEF IsSent
<1> HIDE DEF S
<1>2. Len(h) \in Nat /\ DOMAIN h = 1 .. Len(h)
  BY <1>1, AnySequence DEF IsSequence
<1> DEFINE f == FirstIn(h, Breaks)
           T == {i \in DOMAIN h : Breaks(h[i])}
<1>3. f = IF T = {} THEN Len(h) + 1 ELSE CHOOSE i \in T : \A j \in T : i <= j
  BY Zenon DEF FirstIn
<1>4. f \in 1 .. Len(h) + 1
  <2>1. T \subseteq 1 .. Len(h)
    BY <1>2
  <2> HIDE DEF T, f
  <2>2. PICK n \in Nat : n = Len(h)
    BY <1>2
  <2> QED BY <1>3, <2>1, <2>2, EarliestOf
<1> DEFINE n == f - 1
           p == SubSeq(h, 1, n)
<1>5. PartsRead(q) = p
  BY Zenon DEF PartsRead
<1> HIDE DEF f
<1>6. n \in Nat /\ n \in Int /\ 1 \in Int /\ \A i \in 1 .. n : i \in 1 .. Len(h)
  BY <1>2, <1>4
<1> HIDE DEF n
<1>7. \A i \in 1 .. n : h[i] \in S
  BY <1>2, <1>6 DEF S
<1>8. /\ SubSeq(h, 1, n) \in Seq(S) /\ Len(SubSeq(h, 1, n)) = (IF 1 <= n THEN n - 1 + 1 ELSE 0)
      /\ \A i \in 1 .. n - 1 + 1 : SubSeq(h, 1, n)[i] = h[1 + i - 1]
  BY <1>6, <1>7, SubSeqProperties
<1> HIDE DEF p
<1>9. p \in Seq(S) /\ Len(p) = n /\ \A i \in 1 .. n : p[i] = h[i]
  BY <1>6, <1>8 DEF p
<1>10. IsSequence(p) /\ DOMAIN p = 1 .. Len(p)
  BY <1>9, AnySequence
<1>11. \A i \in DOMAIN p : i \in DOMAIN h /\ p[i] = h[i]
  BY <1>2, <1>6, <1>9, <1>10
<1> QED BY <1>5, <1>10, <1>11

-----------------------------------------------------------------------------
(* HttpExchange.  The values of a form and its files.                      *)
PartPairs(q) == [i \in DOMAIN PartsRead(q) |-> <<q.parts[i].name, q.parts[i].value>>]
LEMMA PairsAre ==
    ASSUME NEW q, IsSent(q)
    PROVE  /\ IsSequence(PartPairs(q)) /\ Len(PartPairs(q)) = Len(PartsRead(q)) /\ Pairs(PartPairs(q))
           /\ \A i \in 1 .. Len(PartPairs(q)) : PartPairs(q)[i][2] \in Nat
<1>1. /\ Len(PartsRead(q)) \in Nat /\ DOMAIN PartsRead(q) = 1 .. Len(PartsRead(q))
      /\ \A i \in DOMAIN PartsRead(q) : i \in DOMAIN q.parts
  BY PartsAre DEF IsSequence
<1>2. \A i \in DOMAIN q.parts : q.parts[i].value \in Nat
  BY Zenon DEF IsSent
<1> DEFINE d == PartPairs(q)
           n == Len(PartsRead(q))
<1>3. d = [i \in 1 .. n |-> d[i]] /\ \A i \in 1 .. n : d[i] = <<q.parts[i].name, q.parts[i].value>>
  BY <1>1, Zenon DEF PartPairs
<1> HIDE DEF d
<1>4. IsSequence(d) /\ Len(d) = n
  BY <1>1, <1>3, Listed
<1>5. ASSUME NEW i \in 1 .. n PROVE Len(d[i]) = 2 /\ d[i][2] \in Nat
  <2> DEFINE a == q.parts[i].name
             b == q.parts[i].value
  <2>1. d[i] = <<a, b>> /\ b \in Nat
    BY <1>1, <1>2, <1>3
  <2> HIDE DEF a, b
  <2> QED BY <2>1
<1> QED BY <1>4, <1>5 DEF d, Pairs

LEMMA TextIs == ASSUME NEW q, IsSent(q) PROVE AreItems(ValuesText(q))
BY NoItems DEF ValuesText, IsSent

LEMMA PlainGiven ==
    ASSUME NEW q, IsSent(q), ~IsForm(q)
    PROVE  Given(q) = ValuesText(q)
<1> DEFINE v == ValuesText(q)
           S == {v[i] : i \in DOMAIN v}
<1>1. v \in Seq(S)
  <2>1. AreItems(v)
    BY TextIs
  <2> HIDE DEF v
  <2> QED BY <2>1, Zenon DEF AreItems
<1>2. Given(q) = v \o <<>>
  BY Zenon DEF Given
<1> HIDE DEF v, S
<1>3. v \o <<>> = v
  BY <1>1, ConcatEmptySeq
<1> QED BY <1>2, <1>3 DEF v

LEMMA FormGiven ==
    ASSUME NEW q, IsSent(q), IsForm(q)
    PROVE  Given(q) = ValuesText(q) \o PartPairs(q)
BY Zenon DEF Given, PartPairs

LEMMA GivenIs ==
    ASSUME NEW q, IsSent(q)
    PROVE  /\ Len(Given(q)) \in Nat /\ DOMAIN Given(q) = 1 .. Len(Given(q))
           /\ \A i \in DOMAIN Given(q) : Len(Given(q)[i]) = 2 => Given(q)[i][2] \in Nat
<1> DEFINE v == ValuesText(q)
           d == PartPairs(q)
           g == Given(q)
<1>1. /\ IsSequence(v) /\ Len(v) \in Nat /\ DOMAIN v = 1 .. Len(v)
      /\ \A i \in DOMAIN v : Len(v[i]) = 2 => v[i][2] \in Nat
  BY TextIs, ItemsAre DEF IsSequence
<1>2. CASE ~IsForm(q)
  <2>1. g = v
    BY <1>2, PlainGiven
  <2> HIDE DEF g, v
  <2>2. Len(g) \in Nat /\ DOMAIN g = 1 .. Len(g) /\ \A i \in DOMAIN g : Len(g[i]) = 2 => g[i][2] \in Nat
    BY <1>1, <2>1
  <2> QED BY <2>2 DEF g
<1>3. CASE IsForm(q)
  <2>1. g = v \o d
    BY <1>3, FormGiven
  <2>2. IsSequence(d) /\ \A i \in 1 .. Len(d) : d[i][2] \in Nat
    BY PairsAre
  <2> HIDE DEF g, v, d
  <2>3. /\ Len(g) = Len(v) + Len(d) /\ Len(g) \in Nat /\ DOMAIN g = 1 .. Len(g)
        /\ \A i \in 1 .. Len(v) : g[i] = v[i]
        /\ \A i \in 1 .. Len(d) : g[Len(v) + i] = d[i]
    BY <1>1, <2>1, <2>2, BothParts
  <2>4. ASSUME NEW i \in DOMAIN g, Len(g[i]) = 2 PROVE g[i][2] \in Nat
    <3>0. i \in 1 .. Len(g) /\ Len(d) \in Nat
      BY <2>2, <2>3 DEF IsSequence
    <3>1. CASE i <= Len(v)
      <4>1. i \in 1 .. Len(v) /\ g[i] = v[i]
        BY <1>1, <2>3, <3>0, <3>1
      <4> QED BY <1>1, <2>4, <4>1
    <3>2. CASE ~(i <= Len(v))
      <4>1. PICK h \in 1 .. Len(d) : i = Len(v) + h
        <5>1. i - Len(v) \in 1 .. Len(d) /\ i = Len(v) + (i - Len(v))
          BY <1>1, <2>3, <3>0, <3>2
        <5> QED BY <5>1
      <4>2. g[i] = d[h]
        BY <2>3, <4>1
      <4> QED BY <2>2, <4>1, <4>2
    <3> QED BY <3>1, <3>2
  <2>5. Len(g) \in Nat /\ DOMAIN g = 1 .. Len(g) /\ \A i \in DOMAIN g : Len(g[i]) = 2 => g[i][2] \in Nat
    BY <2>3, <2>4
  <2> QED BY <2>5 DEF g
<1> QED BY <1>2, <1>3

LEMMA FormHolds ==
    ASSUME NEW q, NEW k, IsSent(q), IsForm(q)
    PROVE  Holds(Entered(Table(ValuesText(q), k), PartValues(q, k)), Given(q), k)
<1> DEFINE v == ValuesText(q)
           d == PartPairs(q)
           t == Table(v, k)
           s == PartValues(q, k)
<1>1. AreItems(v)
  BY TextIs
<1>2. Holds(t, v, k)
  <2> HIDE DEF v
  <2> QED BY <1>1, TableHolds
<1>3. IsSequence(v) /\ DOMAIN v = 1 .. Len(v)
  <2> HIDE DEF v
  <2> QED BY <1>1, ItemsAre
<1>4. IsSequence(d) /\ Pairs(d) /\ Len(d) = Len(PartsRead(q))
  BY PairsAre
<1>5. EntriesOf(s, d, k)
  <2>1. Len(PartsRead(q)) \in Nat /\ DOMAIN PartsRead(q) = 1 .. Len(PartsRead(q))
    BY PartsAre DEF IsSequence
  <2> DEFINE n == Len(PartsRead(q))
  <2>2. s = [i \in 1 .. n |-> s[i]]
        /\ \A i \in 1 .. n : s[i] = <<q.parts[i].name, <<k, FormUrlDecode(q.parts[i].value)>>>>
    BY <2>1, Zenon DEF PartValues
  <2>3. \A i \in 1 .. n : d[i] = <<q.parts[i].name, q.parts[i].value>>
    BY <2>1, Zenon DEF PartPairs
  <2> HIDE DEF s, d
  <2>4. Len(s) = n
    BY <2>1, <2>2, Listed
  <2>5. ASSUME NEW i \in 1 .. n PROVE s[i] = <<d[i][1], <<k, FormUrlDecode(d[i][2])>>>>
    <3> DEFINE a == q.parts[i].name
               b == q.parts[i].value
    <3>1. s[i] = <<a, <<k, FormUrlDecode(b)>>>> /\ d[i] = <<a, b>>
      BY <2>2, <2>3
    <3> HIDE DEF a, b
    <3>2. d[i][1] = a /\ d[i][2] = b
      BY <3>1
    <3> QED BY <3>1, <3>2, Zenon
  <2> QED BY <1>4, <2>4, <2>5 DEF EntriesOf
<1>6. Given(q) = v \o d
  BY FormGiven
<1> HIDE DEF v, d, t, s
<1>7. Holds(Entered(t, s), v \o d, k)
  BY <1>2, <1>3, <1>4, <1>5, MoreHolds
<1> QED BY <1>6, <1>7 DEF v, t, s

\* A file part replaces the file of its name, and no other.
NamesFile(q, n) == \E i \in DOMAIN PartsRead(q) : q.parts[i].name = n /\ IsFile(q.parts[i])
LEMMA FilesEntered ==
    ASSUME NEW q, NEW k, IsSent(q), NEW files, \A n \in DOMAIN files : files[n][1] # k
    PROVE  LET E == Entered(files, PartFiles(q, k))
           IN \A n \in DOMAIN E : /\ E[n][1] = k <=> NamesFile(q, n)
                                  /\ E[n][1] = k \/ (n \in DOMAIN files /\ E[n] = files[n])
<1> DEFINE s == PartFiles(q, k)
           m == Len(PartsRead(q))
           E == Entered(files, s)
<1>1. m \in Nat /\ DOMAIN PartsRead(q) = 1 .. m
  BY PartsAre DEF IsSequence
<1>2. /\ s = [i \in 1 .. m |-> s[i]]
      /\ \A i \in 1 .. m : s[i] = IF IsFile(q.parts[i])
             THEN <<q.parts[i].name, <<k, q.parts[i].value, q.parts[i].fileName, q.parts[i].type>>>> ELSE <<>>
  BY <1>1, Zenon DEF PartFiles
<1>3. ASSUME NEW i \in 1 .. m
      PROVE  /\ \A x : Enters(s, i, x) <=> IsFile(q.parts[i]) /\ q.parts[i].name = x
             /\ IsFile(q.parts[i]) => s[i][2][1] = k
  <2> DEFINE a == q.parts[i].name
             v == q.parts[i].value
             u == q.parts[i].fileName
             w == q.parts[i].type
             b == <<k, v, u, w>>
  <2>1. s[i] = IF IsFile(q.parts[i]) THEN <<a, b>> ELSE <<>>
    BY <1>2
  <2> HIDE DEF s
  <2>2. b[1] = k
    <3> HIDE DEF v, u, w
    <3> QED OBVIOUS
  <2> HIDE DEF b
  <2>3. CASE IsFile(q.parts[i])
    <3>1. s[i] = <<a, b>>
      BY <2>1, <2>3
    <3>2. s[i] # <<>> /\ s[i][1] = a /\ s[i][2] = b
      <4> HIDE DEF a
      <4> QED BY <3>1
    <3> QED BY <2>2, <2>3, <3>2, Zenon DEF Enters
  <2>4. CASE ~IsFile(q.parts[i])
    <3>1. s[i] = <<>>
      BY <2>1, <2>4
    <3> QED BY <2>4, <3>1, Zenon DEF Enters
  <2> QED BY <2>3, <2>4
<1> HIDE DEF s
<1>4. Len(s) = m
  BY <1>1, <1>2, Listed
<1>5. After(files, s, m, E)
  BY <1>1, <1>4, EnteredSays
<1> HIDE DEF E
<1>6. \A n : NamesFile(q, n) <=> \E i \in 1 .. m : Enters(s, i, n)
  BY <1>1, <1>3, Zenon DEF NamesFile
<1>7. ASSUME NEW n \in DOMAIN E
      PROVE  /\ E[n][1] = k <=> NamesFile(q, n)
             /\ E[n][1] = k \/ (n \in DOMAIN files /\ E[n] = files[n])
  <2>1. CASE \E i \in 1 .. m : Latest(s, m, i, n) /\ E[n] = s[i][2]
    <3>1. PICK i \in 1 .. m : Latest(s, m, i, n) /\ E[n] = s[i][2]
      BY <2>1
    <3>2. Enters(s, i, n)
      BY <3>1, Zenon DEF Latest
    <3>3. s[i][2][1] = k
      BY <1>3, <3>2, Zenon
    <3> QED BY <1>6, <3>1, <3>2, <3>3, Zenon
  <2>2. CASE n \in DOMAIN files /\ E[n] = files[n] /\ Untouched(s, m, n)
    <3>1. ~NamesFile(q, n)
      BY <1>6, <2>2, Zenon DEF Untouched
    <3> QED BY <2>2, <3>1
  <2> QED BY <1>5, <2>1, <2>2, Zenon DEF After
<1> QED BY <1>7 DEF E, s

-----------------------------------------------------------------------------
(* HttpExchange.  What setData leaves.                                     *)
Reader(command, uri, heads, cookies, values, files, fileName) ==
    [command |-> command, uri |-> uri, heads |-> heads, cookies |-> cookies, values |-> values,
     files |-> files, fileName |-> fileName]
\* What setData leaves in the fields that tell requests apart.
FilledTo(f, r, q, k) ==
    LET H == HeadTable(q, k)
        V == Table(ValuesText(q), k)
    IN /\ ~WellFormed(q) => f.values = Empty /\ f.cookies = Empty /\ f.files = r.files /\ f.heads \in {Empty, H}
       /\ WellFormed(q) => f.heads = H /\ f.cookies = Cookies(H, k)
       /\ WellFormed(q) /\ ~IsForm(q) => f.values = V /\ f.files = r.files
       /\ WellFormed(q) /\ IsForm(q) =>
              f.values = Entered(V, PartValues(q, k)) /\ f.files = Entered(r.files, PartFiles(q, k))

LEMMA FilledFields == ASSUME NEW r, NEW q, NEW k PROVE FilledTo(Filled(r, q, k), r, q, k)
<1> DEFINE f == Filled(r, q, k)
           H == HeadTable(q, k)
           V == Table(ValuesText(q), k)
           uri == <<k, q.uri, IF q.command = "HEAD" THEN q.query ELSE <<>> >>
           commanded == IF q.command \in Commands THEN [ResetReader(r) EXCEPT !.command = q.command] ELSE ResetReader(r)
           named == [commanded EXCEPT !.uri = uri]
           headed == [named EXCEPT !.heads = H]
           parsed == [headed EXCEPT !.cookies = Cookies(headed.heads, k), !.values = V]
<1>1. f = CASE q.command \notin Commands \/ q.uri = "" -> commanded
            [] q.command \in Commands /\ q.uri # "" /\ q.version = "" -> named
            [] q.command \in Commands /\ q.uri # "" /\ q.version # "" ->
                   IF ~WellFormed(q) THEN headed
                   ELSE IF IsForm(q) THEN FormData(parsed, q, k)
                   ELSE parsed
  BY Zenon DEF Filled
<1>2. ~WellFormed(q) => f \in {commanded, named, headed}
  <2> HIDE DEF commanded, named, headed, parsed, f
  <2> QED BY <1>1 DEF WellFormed
<1>3. WellFormed(q) => f = IF IsForm(q) THEN FormData(parsed, q, k) ELSE parsed
  <2> HIDE DEF commanded, named, headed, parsed, f
  <2> QED BY <1>1 DEF WellFormed
<1> DEFINE z == r.files
<1> HIDE DEF H, V, uri, f
<1>0. PICK text : text = ""
  OBVIOUS
<1>4. \E a : commanded = Reader(a, Empty, Empty, Empty, Empty, z, text)
  <2> DEFINE reset == ResetReader(r)
             x == q.command
             y == r.command
  <2>1. reset = Reader(y, Empty, Empty, Empty, Empty, z, text)
    <3> DEFINE new == [command |-> text, uri |-> Empty, heads |-> Empty, cookies |-> Empty, values |-> Empty,
                       files |-> Empty, fileName |-> text]
               partly == [new EXCEPT !.command = y]
    <3>1. reset = [partly EXCEPT !.files = z]
      BY <1>0, Zenon DEF ResetReader, NewReader
    <3> HIDE DEF y, z, reset
    <3>2. partly = Reader(y, Empty, Empty, Empty, Empty, Empty, text)
      BY DEF Reader
    <3> HIDE DEF partly
    <3>3. [partly EXCEPT !.files = z] = Reader(y, Empty, Empty, Empty, Empty, z, text)
      BY <3>2 DEF Reader
    <3> QED BY <3>1, <3>3, Zenon
  <2> HIDE DEF reset, x, y, z
  <2>2. [reset EXCEPT !.command = x] = Reader(x, Empty, Empty, Empty, Empty, z, text)
    BY <2>1 DEF Reader
  <2>3. commanded = reset \/ commanded = [reset EXCEPT !.command = x]
    BY Zenon DEF reset, x
  <2> HIDE DEF commanded
  <2> QED BY <2>1, <2>2, <2>3, Zenon
<1> HIDE DEF commanded, z
<1>4a. PICK a : commanded = Reader(a, Empty, Empty, Empty, Empty, z, text)
  BY <1>4
<1>5. named = Reader(a, uri, Empty, Empty, Empty, z, text)
  BY <1>4a DEF Reader
<1> HIDE DEF named
<1>6. headed = Reader(a, uri, H, Empty, Empty, z, text)
  BY <1>5 DEF Reader
<1> HIDE DEF headed
<1> DEFINE C == Cookies(H, k)
           cookied == [headed EXCEPT !.cookies = C]
<1>7. headed.heads = H
  BY <1>6 DEF Reader
<1>8. parsed = [cookied EXCEPT !.values = V]
  BY <1>7, Zenon
<1> HIDE DEF C, parsed
<1>8a. cookied = Reader(a, uri, H, C, Empty, z, text)
  BY <1>6 DEF Reader
<1> HIDE DEF cookied
<1>9. parsed = Reader(a, uri, H, C, V, z, text)
  <2>1. [cookied EXCEPT !.values = V] = Reader(a, uri, H, C, V, z, text)
    BY <1>8a DEF Reader
  <2> QED BY <1>8, <2>1, Zenon
<1>10. ~WellFormed(q) => f.values = Empty /\ f.cookies = Empty /\ f.files = z /\ f.heads \in {Empty, H}
  <2>1. ASSUME NEW g \in {commanded, named, headed}
        PROVE  g.values = Empty /\ g.cookies = Empty /\ g.files = z /\ g.heads \in {Empty, H}
    <3>1. CASE g = commanded
      BY <1>4a, <3>1 DEF Reader
    <3>2. CASE g = named
      BY <1>5, <3>2 DEF Reader
    <3>3. CASE g = headed
      BY <1>6, <3>3 DEF Reader
    <3> QED BY <2>1, <3>1, <3>2, <3>3
  <2> QED BY <1>2, <2>1, Zenon
<1>11. parsed.values = V /\ parsed.files = z /\ parsed.heads = H /\ parsed.cookies = C
  BY <1>9 DEF Reader
<1> DEFINE A == Entered(V, PartValues(q, k))
           B == Entered(z, PartFiles(q, k))
           g == FormData(parsed, q, k)
<1>12. g.values = A /\ g.files = B /\ g.heads = H /\ g.cookies = C
  <2> DEFINE name == IF PartsRead(q) = <<>> THEN parsed.fileName ELSE q.parts[Len(PartsRead(q))].fileName
             valued == [parsed EXCEPT !.values = A]
             filed == [valued EXCEPT !.files = B]
  <2>1. g = [filed EXCEPT !.fileName = name]
    BY <1>11, Zenon DEF FormData
  <2> HIDE DEF name, A, B, g
  <2>2. valued = Reader(a, uri, H, C, A, z, text)
    BY <1>9 DEF Reader
  <2> HIDE DEF valued
  <2>3. filed = Reader(a, uri, H, C, A, B, text)
    BY <2>2 DEF Reader
  <2> HIDE DEF filed
  <2>4. [filed EXCEPT !.fileName = name] = Reader(a, uri, H, C, A, B, name)
    BY <2>3 DEF Reader
  <2>5. g = Reader(a, uri, H, C, A, B, name)
    BY <2>1, <2>4, Zenon
  <2> QED BY <2>5 DEF Reader
<1> HIDE DEF A, B, g
<1>13. WellFormed(q) /\ ~IsForm(q) => f = parsed
  BY <1>3
<1>14. WellFormed(q) /\ IsForm(q) => f = g
  BY <1>3 DEF g
<1>15. WellFormed(q) => f.heads = H /\ f.cookies = C
  BY <1>11, <1>12, <1>13, <1>14, Zenon
<1>16. WellFormed(q) /\ ~IsForm(q) => f.values = V /\ f.files = z
  BY <1>11, <1>13, Zenon
<1>17. WellFormed(q) /\ IsForm(q) => f.values = A /\ f.files = B
  BY <1>12, <1>14, Zenon
<1> QED BY <1>10, <1>15, <1>16, <1>17, Zenon DEF f, H, C, V, A, B, z, FilledTo

LEMMA NothingInEmpty == \A n : n \notin DOMAIN Empty
BY DEF Empty

LEMMA InWidth ==
    ASSUME NEW v \in Int
    PROVE  As("unsigned char", v) \in 0 .. 255 /\ As("unsigned short", v) \in 0 .. 256 * 256 - 1
<1>1. As("unsigned char", v) = v % 256 /\ As("unsigned short", v) = v % (256 * 256)
  BY DEF As
<1>2. v % 256 \in 0 .. 255
  OBVIOUS
<1>3. \A w \in Nat \ {0} : v % w \in 0 .. w - 1
  OBVIOUS
<1>4. PICK w \in Nat \ {0} : w = 256 * 256
  OBVIOUS
<1>5. v % w \in 0 .. w - 1
  BY <1>3
<1> QED BY <1>1, <1>2, <1>4, <1>5

\* What setData leaves: the reader of the k-th request q, after the earlier files.
Alone(r, q, k, ok) ==
    /\ \A n \in DOMAIN r.heads : r.heads[n][1] = k
    /\ \A n \in DOMAIN r.cookies : r.cookies[n][1] = k
    /\ \A n \in DOMAIN r.values : r.values[n][1] = k /\ r.values[n][2] \in Int
    /\ DOMAIN r.values = IF ok THEN NamesIn(Given(q)) ELSE {}
    /\ \A n \in DOMAIN r.values : r.values[n][2] = FormUrlDecode(LastFor(Given(q), n))
    /\ ~ok => r.cookies = Empty
    /\ \A n \in DOMAIN r.files : r.files[n][1] = k <=> ok /\ IsForm(q) /\ NamesFile(q, n)
Earlier(files, k) == \A n \in DOMAIN files : files[n][1] \in 1 .. k

LEMMA FilledIs ==
    ASSUME NEW r, NEW q, NEW k \in Nat, IsSent(q), Earlier(r.files, k)
    PROVE  Alone(Filled(r, q, k + 1), q, k + 1, WellFormed(q)) /\ Earlier(Filled(r, q, k + 1).files, k + 1)
<1> DEFINE m == k + 1
           f == Filled(r, q, m)
           H == HeadTable(q, m)
           C == Cookies(H, m)
           V == Table(ValuesText(q), m)
           G == Given(q)
<1>1. \A n \in DOMAIN H : H[n][1] = m
  <2>1. \A n \in DOMAIN H : \E i \in DOMAIN q.heads : H[n] = <<m, q.heads[i][2]>>
    <3> HIDE DEF m
    <3> QED BY HeadEntries
  <2> HIDE DEF H, m
  <2> QED BY <2>1
<1>2. \A n \in DOMAIN C : C[n][1] = m
  <2> HIDE DEF m
  <2> QED BY CookiesAre
<1>3. /\ ~WellFormed(q) => f.values = Empty /\ f.cookies = Empty /\ f.files = r.files /\ f.heads \in {Empty, H}
      /\ WellFormed(q) => f.heads = H /\ f.cookies = C
      /\ WellFormed(q) /\ ~IsForm(q) => f.values = V /\ f.files = r.files
      /\ WellFormed(q) /\ IsForm(q) =>
             f.values = Entered(V, PartValues(q, m)) /\ f.files = Entered(r.files, PartFiles(q, m))
  <2> HIDE DEF m
  <2>1. FilledTo(f, r, q, m)
    BY FilledFields
  <2> QED BY <2>1, Zenon DEF FilledTo
<1>4. ASSUME WellFormed(q) PROVE Holds(f.values, G, m)
  <2>1. CASE IsForm(q)
    <3>1. Holds(Entered(V, PartValues(q, m)), G, m)
      <4> HIDE DEF m
      <4> QED BY <2>1, FormHolds
    <3> QED BY <1>3, <1>4, <2>1, <3>1, Zenon
  <2>2. CASE ~IsForm(q)
    <3>1. G = ValuesText(q) /\ AreItems(ValuesText(q))
      BY <2>2, PlainGiven, TextIs
    <3>2. Holds(V, ValuesText(q), m)
      <4> HIDE DEF m
      <4> QED BY <3>1, TableHolds
    <3> QED BY <1>3, <1>4, <2>2, <3>1, <3>2, Zenon
  <2> QED BY <2>1, <2>2
<1>5. /\ Len(G) \in Nat /\ DOMAIN G = 1 .. Len(G)
      /\ \A i \in DOMAIN G : Len(G[i]) = 2 => G[i][2] \in Nat
  BY GivenIs
<1>6. \A n \in DOMAIN r.files : r.files[n][1] # m /\ r.files[n][1] \in 1 .. m
  BY DEF Earlier
<1>7. LET E == Entered(r.files, PartFiles(q, m))
      IN \A n \in DOMAIN E : /\ E[n][1] = m <=> NamesFile(q, n)
                             /\ E[n][1] = m \/ (n \in DOMAIN r.files /\ E[n] = r.files[n])
  <2> DEFINE o == r.files
  <2>1. \A n \in DOMAIN o : o[n][1] # m
    BY <1>6
  <2> HIDE DEF m, o
  <2>2. LET E == Entered(o, PartFiles(q, m))
        IN \A n \in DOMAIN E : /\ E[n][1] = m <=> NamesFile(q, n)
                               /\ E[n][1] = m \/ (n \in DOMAIN o /\ E[n] = o[n])
    BY <2>1, FilesEntered
  <2> QED BY <2>2 DEF o
<1>0. m \in 1 .. m
  OBVIOUS
<1> HIDE DEF m, f, H, C, V, G
<1>8. \A n \in DOMAIN f.heads : f.heads[n][1] = m
  BY <1>1, <1>3, NothingInEmpty
<1>9. (~WellFormed(q) => f.cookies = Empty) /\ \A n \in DOMAIN f.cookies : f.cookies[n][1] = m
  BY <1>2, <1>3, NothingInEmpty
<1>10. /\ \A n \in DOMAIN f.values : f.values[n][1] = m /\ f.values[n][2] \in Int
       /\ DOMAIN f.values = IF WellFormed(q) THEN NamesIn(G) ELSE {}
       /\ \A n \in DOMAIN f.values : f.values[n][2] = FormUrlDecode(LastFor(G, n))
  <2>1. CASE WellFormed(q)
    <3> DEFINE T == f.values
    <3>1. Holds(T, G, m)
      BY <1>4, <2>1
    <3> HIDE DEF T
    <3>2. /\ DOMAIN T = NamesIn(G)
          /\ \A n \in DOMAIN T : T[n][1] = m /\ T[n][2] \in Int /\ T[n][2] = FormUrlDecode(LastFor(G, n))
      BY <1>5, <3>1, HoldsGives
    <3>3. /\ \A n \in DOMAIN T : T[n][1] = m /\ T[n][2] \in Int
          /\ DOMAIN T = IF WellFormed(q) THEN NamesIn(G) ELSE {}
          /\ \A n \in DOMAIN T : T[n][2] = FormUrlDecode(LastFor(G, n))
      BY <2>1, <3>2, Zenon
    <3> QED BY <3>3 DEF T
  <2>2. CASE ~WellFormed(q)
    BY <1>3, <2>2, NothingInEmpty
  <2> QED BY <2>1, <2>2
<1>11. CASE WellFormed(q) /\ IsForm(q)
  <2>1. f.files = Entered(r.files, PartFiles(q, m))
    BY <1>3, <1>11
  <2>2. \A n \in DOMAIN f.files : /\ f.files[n][1] = m <=> NamesFile(q, n)
                                  /\ f.files[n][1] = m \/ (n \in DOMAIN r.files /\ f.files[n] = r.files[n])
    BY <1>7, <2>1, Zenon
  <2>3. \A n \in DOMAIN f.files : f.files[n][1] \in 1 .. m
    BY <1>0, <1>6, <2>2
  <2>4. \A n \in DOMAIN f.files : f.files[n][1] = m <=> WellFormed(q) /\ IsForm(q) /\ NamesFile(q, n)
    BY <1>11, <2>2, Zenon
  <2>5. Alone(f, q, m, WellFormed(q)) /\ Earlier(f.files, m)
    BY <1>8, <1>9, <1>10, <2>3, <2>4, Zenon DEF Alone, Earlier, G
  <2> QED BY <2>5 DEF f, m
<1>12. CASE ~(WellFormed(q) /\ IsForm(q))
  <2>1. f.files = r.files
    BY <1>3, <1>12
  <2>2. \A n \in DOMAIN f.files : f.files[n][1] \in 1 .. m
    BY <1>6, <2>1
  <2>3. \A n \in DOMAIN f.files : f.files[n][1] = m <=> WellFormed(q) /\ IsForm(q) /\ NamesFile(q, n)
    BY <1>6, <1>12, <2>1
  <2>4. Alone(f, q, m, WellFormed(q)) /\ Earlier(f.files, m)
    BY <1>8, <1>9, <1>10, <2>2, <2>3, Zenon DEF Alone, Earlier, G
  <2> QED BY <2>4 DEF f, m
<1> QED BY <1>11, <1>12

-----------------------------------------------------------------------------
(* HttpExchange.  The inductive invariant.                                 *)
Writer(heads, cookies, body, bodyLen) == [heads |-> heads, cookies |-> cookies, body |-> body, bodyLen |-> bodyLen]
\* What was put together is for this request.
OfThisResponse ==
    /\ \A n \in DOMAIN writer.cookies : writer.cookies[n][1] = served
    /\ writer.body \in Seq(Nat \X Nat)
    /\ \A i \in DOMAIN writer.body : writer.body[i][1] = served
    /\ writer.bodyLen \in BodyLens \cup {0}
HttpInv ==
    /\ served \in Nat /\ sets \in Nat /\ request \in Requests
    /\ Alone(reader, request, served, bOk) /\ Earlier(reader.files, served)
    /\ writer = Writer(writer.heads, writer.cookies, writer.body, writer.bodyLen)
    /\ stage = "begun" => OfThisResponse
    /\ ResponseStandsAlone

LEMMA InitHttpInv == HttpInit => HttpInv
<1> SUFFICES ASSUME HttpInit PROVE HttpInv
  OBVIOUS
<1>1. served = 0 /\ reader = NewReader /\ bOk = FALSE /\ writer = NewWriter /\ stage = "idle" /\ sets = 0
  BY Zenon DEF HttpInit
<1>2. request \in Requests
  BY HttpExchangeAssumption DEF HttpInit
<1>3. reader.heads = Empty /\ reader.cookies = Empty /\ reader.values = Empty /\ reader.files = Empty
  BY <1>1 DEF NewReader
<1>4. DOMAIN Empty = {}
  BY DEF Empty
<1>5. Alone(reader, request, served, bOk) /\ Earlier(reader.files, served)
  BY <1>1, <1>3, <1>4 DEF Alone, Earlier
<1>6. writer = Writer(writer.heads, writer.cookies, writer.body, writer.bodyLen)
  BY <1>1 DEF NewWriter, Writer
<1>7. stage # "begun" /\ ResponseStandsAlone
  BY <1>1 DEF ResponseStandsAlone
<1> QED BY <1>1, <1>2, <1>5, <1>6, <1>7 DEF HttpInv

LEMMA SetDataStep == ASSUME HttpInv, NEW q \in Requests, SetData(q) PROVE HttpInv'
<1>1. /\ served' = served + 1 /\ request' = q
      /\ reader' = Filled(reader, q, served + 1) /\ bOk' = WellFormed(q)
      /\ writer' = Begun(writer) /\ stage' = "begun" /\ sets' = 0 /\ response' = response
  BY Zenon DEF SetData
<1>2. served \in Nat /\ Earlier(reader.files, served)
  BY Zenon DEF HttpInv
<1>3. IsSent(q)
  BY RequestsAreSent
<1>4. Alone(reader', q, served + 1, WellFormed(q)) /\ Earlier(reader'.files, served + 1)
  BY <1>1, <1>2, <1>3, FilledIs
<1>5. Alone(reader', request', served', bOk') /\ Earlier(reader'.files, served')
  BY <1>1, <1>4, Zenon
<1>6. writer' = Writer(writer.heads, Empty, <<>>, 0)
  BY <1>1 DEF Begun, NewWriter, Writer
<1>7. writer'.cookies = Empty /\ writer'.body = <<>> /\ writer'.bodyLen = 0
      /\ writer' = Writer(writer'.heads, writer'.cookies, writer'.body, writer'.bodyLen)
  BY <1>6 DEF Writer
<1>8. OfThisResponse'
  BY <1>7 DEF OfThisResponse, Empty
<1>9. ResponseStandsAlone'
  BY <1>1 DEF ResponseStandsAlone
<1>10. served' \in Nat /\ sets' \in Nat /\ request' \in Requests
  BY <1>1, <1>2
<1> QED BY <1>5, <1>7, <1>8, <1>9, <1>10, Zenon DEF HttpInv

\* What the application sets touches the writer only.
LEMMA AppSetsStep ==
    ASSUME HttpInv, NEW w, AppSets(w), w = Writer(w.heads, w.cookies, w.body, w.bodyLen),
           \A n \in DOMAIN w.cookies : w.cookies[n][1] = served,
           w.body \in Seq(Nat \X Nat), \A i \in DOMAIN w.body : w.body[i][1] = served,
           w.bodyLen \in BodyLens \cup {0}
    PROVE  HttpInv'
<1>1. /\ stage = "begun" /\ sets' = sets + 1 /\ writer' = w /\ served' = served /\ request' = request
      /\ reader' = reader /\ bOk' = bOk /\ response' = response /\ stage' = stage
  BY Zenon DEF AppSets
<1>2. served \in Nat /\ sets \in Nat /\ request \in Requests /\ Alone(reader, request, served, bOk)
      /\ Earlier(reader.files, served)
  BY Zenon DEF HttpInv
<1>3. /\ served' \in Nat /\ request' \in Requests
      /\ Alone(reader', request', served', bOk') /\ Earlier(reader'.files, served')
  BY <1>1, <1>2, Zenon
<1>4. sets' \in Nat
  BY <1>1, <1>2
<1>5. OfThisResponse' /\ writer' = Writer(writer'.heads, writer'.cookies, writer'.body, writer'.bodyLen)
  BY <1>1, Zenon DEF OfThisResponse
<1>6. ResponseStandsAlone'
  BY <1>1 DEF ResponseStandsAlone
<1> QED BY <1>3, <1>4, <1>5, <1>6, Zenon DEF HttpInv

LEMMA WriterHas == ASSUME HttpInv, stage = "begun"
    PROVE OfThisResponse /\ \E a, b, c, d : writer = Writer(a, b, c, d)
BY Zenon DEF HttpInv

LEMMA WriterFields ==
    ASSUME NEW a, NEW b, NEW c, NEW d, NEW w, w = Writer(a, b, c, d)
    PROVE  /\ w.heads = a /\ w.cookies = b /\ w.body = c /\ w.bodyLen = d
           /\ w = Writer(w.heads, w.cookies, w.body, w.bodyLen)
BY DEF Writer

LEMMA SetHeadStep == ASSUME HttpInv, NEW n \in HeadNames, SetHead(n) PROVE HttpInv'
<1> DEFINE h == With(writer.heads, n, <<served, sets>>)
           w == [writer EXCEPT !.heads = h]
<1>1. AppSets(w) /\ stage = "begun"
  BY Zenon DEF SetHead, AppSets
<1>2. OfThisResponse
  BY <1>1, WriterHas
<1>3. PICK a, b, c, d : writer = Writer(a, b, c, d)
  BY <1>1, WriterHas
<1> HIDE DEF h
<1>4. w = Writer(h, b, c, d) /\ writer.cookies = b /\ writer.body = c /\ writer.bodyLen = d
  BY <1>3 DEF Writer
<1> HIDE DEF w
<1>5. w.cookies = writer.cookies /\ w.body = writer.body /\ w.bodyLen = writer.bodyLen
      /\ w = Writer(w.heads, w.cookies, w.body, w.bodyLen)
  BY <1>4 DEF Writer
<1>6. /\ \A m \in DOMAIN w.cookies : w.cookies[m][1] = served
      /\ w.body \in Seq(Nat \X Nat) /\ \A i \in DOMAIN w.body : w.body[i][1] = served
      /\ w.bodyLen \in BodyLens \cup {0}
  BY <1>2, <1>5, Zenon DEF OfThisResponse
<1> QED BY <1>1, <1>5, <1>6, AppSetsStep

LEMMA SetCookieStep == ASSUME HttpInv, NEW n \in CookieNames, SetCookie(n) PROVE HttpInv'
<1> DEFINE o == writer.cookies
           h == IF n \in DOMAIN o THEN o ELSE With(o, n, <<served, sets>>)
           w == [writer EXCEPT !.cookies = h]
<1>1. AppSets(w) /\ stage = "begun"
  BY Zenon DEF SetCookie, AppSets
<1>2. OfThisResponse
  BY <1>1, WriterHas
<1>3. PICK a, b, c, d : writer = Writer(a, b, c, d)
  BY <1>1, WriterHas
<1>4. \A m \in DOMAIN h : h[m][1] = served
  <2>1. \A m \in DOMAIN o : o[m][1] = served
    BY <1>2, Zenon DEF OfThisResponse
  <2> DEFINE e == <<served, sets>>
             p == With(o, n, e)
  <2>2. e[1] = served
    OBVIOUS
  <2> HIDE DEF o, e
  <2>3. /\ \A x : x \in DOMAIN p <=> x \in DOMAIN o \/ x = n
        /\ p[n] = e
        /\ \A x \in DOMAIN o : x # n => p[x] = o[x]
    BY WithSays
  <2> HIDE DEF p
  <2>4. \A m \in DOMAIN p : p[m][1] = served
    BY <2>1, <2>2, <2>3
  <2>5. h = o \/ h = p
    BY DEF p, e
  <2> QED BY <2>1, <2>4, <2>5
<1> HIDE DEF h
<1>5. w = Writer(a, h, c, d) /\ writer.body = c /\ writer.bodyLen = d
  BY <1>3 DEF Writer
<1> HIDE DEF w
<1>6. w.cookies = h /\ w.body = writer.body /\ w.bodyLen = writer.bodyLen
      /\ w = Writer(w.heads, w.cookies, w.body, w.bodyLen)
  BY <1>5 DEF Writer
<1>7. /\ \A m \in DOMAIN w.cookies : w.cookies[m][1] = served
      /\ w.body \in Seq(Nat \X Nat) /\ \A i \in DOMAIN w.body : w.body[i][1] = served
      /\ w.bodyLen \in BodyLens \cup {0}
  BY <1>2, <1>4, <1>6, Zenon DEF OfThisResponse
<1> QED BY <1>1, <1>6, <1>7, AppSetsStep

LEMMA WriteStep == ASSUME HttpInv, Write PROVE HttpInv'
<1> DEFINE o == writer.body
           e == <<served, sets>>
           h == Append(o, e)
           w == [writer EXCEPT !.body = h]
<1>1. AppSets(w) /\ stage = "begun"
  BY Zenon DEF Write, AppSets
<1>2. OfThisResponse
  BY <1>1, WriterHas
<1>3. PICK a, b, c, d : writer = Writer(a, b, c, d)
  BY <1>1, WriterHas
<1>4. h \in Seq(Nat \X Nat) /\ \A i \in DOMAIN h : h[i][1] = served
  <2>1. o \in Seq(Nat \X Nat) /\ \A i \in DOMAIN o : o[i][1] = served
    BY <1>2, Zenon DEF OfThisResponse
  <2>2. e[1] = served /\ e \in Nat \X Nat
    BY DEF HttpInv
  <2> HIDE DEF o, e
  <2>3. h \in Seq(Nat \X Nat) /\ Len(h) = Len(o) + 1 /\ \A i \in 1 .. Len(o) : h[i] = o[i]
    BY <2>1, <2>2, AppendProperties
  <2>4. h[Len(o) + 1] = e
    BY <2>1, <2>2, AppendProperties
  <2>5. Len(o) \in Nat /\ DOMAIN o = 1 .. Len(o) /\ DOMAIN h = 1 .. Len(h)
    BY <2>1, <2>3, LenProperties
  <2> HIDE DEF h
  <2>6. ASSUME NEW i \in DOMAIN h PROVE h[i][1] = served
    <3>1. i \in 1 .. Len(o) \/ i = Len(o) + 1
      BY <2>3, <2>5
    <3>2. CASE i \in 1 .. Len(o)
      BY <2>1, <2>3, <2>5, <3>2
    <3>3. CASE i = Len(o) + 1
      BY <2>2, <2>4, <3>3
    <3> QED BY <3>1, <3>2, <3>3
  <2> QED BY <2>3, <2>6
<1> HIDE DEF h
<1>5. w = Writer(a, b, h, d) /\ writer.cookies = b /\ writer.bodyLen = d
  BY <1>3 DEF Writer
<1> HIDE DEF w
<1>6. w.body = h /\ w.cookies = writer.cookies /\ w.bodyLen = writer.bodyLen
      /\ w = Writer(w.heads, w.cookies, w.body, w.bodyLen)
  BY <1>5 DEF Writer
<1>7. /\ \A m \in DOMAIN w.cookies : w.cookies[m][1] = served
      /\ w.body \in Seq(Nat \X Nat) /\ \A i \in DOMAIN w.body : w.body[i][1] = served
      /\ w.bodyLen \in BodyLens \cup {0}
  BY <1>2, <1>4, <1>6, Zenon DEF OfThisResponse
<1> QED BY <1>1, <1>6, <1>7, AppSetsStep

LEMMA SetBodyLenStep == ASSUME HttpInv, NEW n \in BodyLens, SetBodyLen(n) PROVE HttpInv'
<1> DEFINE w == [writer EXCEPT !.bodyLen = n]
<1>1. AppSets(w) /\ stage = "begun"
  BY Zenon DEF SetBodyLen, AppSets
<1>2. OfThisResponse
  BY <1>1, WriterHas
<1>3. PICK a, b, c, d : writer = Writer(a, b, c, d)
  BY <1>1, WriterHas
<1>4. w = Writer(a, b, c, n) /\ writer.cookies = b /\ writer.body = c
  BY <1>3 DEF Writer
<1> HIDE DEF w
<1>5. w.cookies = writer.cookies /\ w.body = writer.body /\ w.bodyLen = n
      /\ w = Writer(w.heads, w.cookies, w.body, w.bodyLen)
  BY <1>4 DEF Writer
<1>6. w.bodyLen \in BodyLens \cup {0}
  BY <1>5
<1>7. /\ \A m \in DOMAIN w.cookies : w.cookies[m][1] = served
      /\ w.body \in Seq(Nat \X Nat) /\ \A i \in DOMAIN w.body : w.body[i][1] = served
  BY <1>2, <1>5, Zenon DEF OfThisResponse
<1> QED BY <1>1, <1>5, <1>6, <1>7, AppSetsStep

LEMMA EndStep == ASSUME HttpInv, End PROVE HttpInv'
<1> DEFINE l == writer.bodyLen
           n == IF l # 0 THEN l ELSE Len(writer.body)
<1>1. /\ stage = "begun" /\ stage' = "ended" /\ response' = [writer EXCEPT !.bodyLen = n]
      /\ served' = served /\ request' = request
      /\ reader' = reader /\ bOk' = bOk /\ writer' = writer /\ sets' = sets
  BY Zenon DEF End
<1>2. OfThisResponse
  BY <1>1, WriterHas
<1>3. PICK a, b, c, d : writer = Writer(a, b, c, d)
  BY <1>1, WriterHas
<1>4. response'.cookies = writer.cookies /\ response'.body = writer.body /\ response'.bodyLen = n
  <2> HIDE DEF n
  <2>1. response' = Writer(a, b, c, n) /\ writer.cookies = b /\ writer.body = c
    BY <1>1, <1>3 DEF Writer
  <2> QED BY <2>1 DEF Writer
<1>5. n \in BodyLens \cup {Len(writer.body)}
  BY <1>2 DEF OfThisResponse
<1> HIDE DEF n
<1>6. ResponseStandsAlone'
  <2>1. /\ \A m \in DOMAIN response'.cookies : response'.cookies[m][1] = served'
        /\ \A i \in DOMAIN response'.body : response'.body[i][1] = served'
    BY <1>1, <1>2, <1>4, Zenon DEF OfThisResponse
  <2>2. response'.bodyLen \in BodyLens \cup {Len(response'.body)}
    BY <1>4, <1>5, Zenon
  <2> QED BY <2>1, <2>2, Zenon DEF ResponseStandsAlone
<1>7. /\ served' \in Nat /\ sets' \in Nat /\ request' \in Requests
      /\ Alone(reader', request', served', bOk') /\ Earlier(reader'.files, served')
      /\ writer' = Writer(writer'.heads, writer'.cookies, writer'.body, writer'.bodyLen)
  BY <1>1, Zenon DEF HttpInv
<1>8. stage' # "begun"
  BY <1>1
<1> QED BY <1>6, <1>7, <1>8, Zenon DEF HttpInv

LEMMA HttpStutters == ASSUME HttpInv, UNCHANGED httpVars PROVE HttpInv'
<1>1. /\ served' = served /\ request' = request /\ reader' = reader /\ bOk' = bOk /\ writer' = writer
      /\ response' = response /\ stage' = stage /\ sets' = sets
  BY DEF httpVars
<1> QED BY <1>1, Zenon DEF HttpInv, OfThisResponse, ResponseStandsAlone

LEMMA HttpInvKept == HttpInv /\ [HttpNext]_httpVars => HttpInv'
<1> SUFFICES ASSUME HttpInv, [HttpNext]_httpVars PROVE HttpInv'
  OBVIOUS
<1>1. CASE \E q \in Requests : SetData(q)
  BY <1>1, SetDataStep
<1>2. CASE \E n \in HeadNames : SetHead(n)
  BY <1>2, SetHeadStep
<1>3. CASE \E n \in CookieNames : SetCookie(n)
  BY <1>3, SetCookieStep
<1>4. CASE Write
  BY <1>4, WriteStep
<1>5. CASE \E n \in BodyLens : SetBodyLen(n)
  BY <1>5, SetBodyLenStep
<1>6. CASE End
  BY <1>6, EndStep
<1>7. CASE UNCHANGED httpVars
  BY <1>7, HttpStutters
<1> QED BY <1>1, <1>2, <1>3, <1>4, <1>5, <1>6, <1>7, Zenon DEF HttpNext

LEMMA HttpInvGives == HttpInv => HttpOfThisRequest
<1> SUFFICES ASSUME HttpInv PROVE HttpOfThisRequest
  OBVIOUS
<1>1. Alone(reader, request, served, bOk)
  BY Zenon DEF HttpInv
<1>2. \A t \in {reader.heads, reader.cookies, reader.values} : \A n \in DOMAIN t : t[n][1] = served
  BY <1>1 DEF Alone
<1>3. /\ DOMAIN reader.values = IF bOk THEN NamesIn(Given(request)) ELSE {}
      /\ \A n \in DOMAIN reader.values : reader.values[n][2] = FormUrlDecode(LastFor(Given(request), n))
      /\ ~bOk => reader.cookies = Empty
  BY <1>1, Zenon DEF Alone
<1>4. \A n \in DOMAIN reader.files :
          reader.files[n][1] = served <=>
              bOk /\ IsForm(request)
                  /\ \E i \in DOMAIN PartsRead(request) : request.parts[i].name = n /\ IsFile(request.parts[i])
  BY <1>1, Zenon DEF Alone, NamesFile
<1>5. ASSUME NEW n \in DOMAIN reader.values, NEW d \in {0, 255}
      PROVE  /\ Get(reader.values, n, "unsigned char", d) \in 0 .. 255
             /\ Get(reader.values, n, "unsigned short", d) \in 0 .. 256 * 256 - 1
  <2> DEFINE v == reader.values[n][2]
  <2>1. v \in Int
    BY <1>1, Zenon DEF Alone
  <2>2. \A width : Get(reader.values, n, width, d) = As(width, v)
    BY Zenon DEF Get
  <2> HIDE DEF v
  <2>3. As("unsigned char", v) \in 0 .. 255 /\ As("unsigned short", v) \in 0 .. 256 * 256 - 1
    BY <2>1, InWidth
  <2> QED BY <2>2, <2>3
<1>6. ReaderStandsAlone
  BY <1>2, <1>3, <1>4, <1>5, Zenon DEF ReaderStandsAlone
<1> QED BY <1>6, Zenon DEF HttpInv, HttpOfThisRequest

(* Whatever clients send and however often the reader and the writer are   *)
(* used again, also after a request setData could not read: each name      *)
(* gives the last value this request has for it, in the range of the type  *)
(* asked for, only files are left of an earlier request, and those only    *)
(* until a file of this one has their name, and a response holds the       *)
(* cookies and the body set for it.                                        *)
THEOREM HttpIsOfThisRequest == HttpSpec => []HttpOfThisRequest
<1>1. HttpInit => HttpInv
  BY InitHttpInv
<1>2. HttpInv /\ [HttpNext]_httpVars => HttpInv'
  BY HttpInvKept
<1>3. HttpInv => HttpOfThisRequest
  BY HttpInvGives
<1> QED BY <1>1, <1>2, <1>3, PTL DEF HttpSpec
=============================================================================
