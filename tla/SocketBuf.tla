----------------------------- MODULE SocketBuf -----------------------------
(***************************************************************************)
(* CSocketBuf, the buffer of bytes between a socket and the packages: data *)
(* lies between m_iDataBeginPos and m_iDataEndPos of an array that grows   *)
(* by doubling up to a maximum, moves its data to the front to make room,  *)
(* and shrinks when it is emptied.  It is used in two ways: recv() writes  *)
(* into the free part and addData(iSize) accounts for it, or addData       *)
(* copies, making room by a loop whose rounds are steps here.              *)
(*                                                                         *)
(* The bytes that come in are numbered from 0 on.                          *)
(***************************************************************************)
EXTENDS Naturals

CONSTANTS
    m_iInitSize, m_iDataAllowMaxSize,
    Garbage,        (* what a new array holds                                *)
    MaxBytes        (* bound: bytes ever added                               *)

\* createSrv's defaults have it so; with 0 or a larger first size incBuf fails.
ASSUME SocketBufAssumption ==
    /\ m_iInitSize \in Nat \ {0} /\ m_iDataAllowMaxSize \in Nat
    /\ m_iInitSize <= m_iDataAllowMaxSize
    /\ Garbage \notin Nat /\ MaxBytes \in Nat

VARIABLES
    m_pszBuf, m_iBufSize, m_iDataBeginPos, m_iDataEndPos,
    adding,         (* the size addData is making room for; 0: none          *)
    in, out         (* bytes added and removed so far                        *)

vars == <<m_pszBuf, m_iBufSize, m_iDataBeginPos, m_iDataEndPos, adding, in, out>>

Positions(n) == 0 .. n - 1

Init ==
    /\ m_pszBuf = [i \in Positions(m_iInitSize) |-> Garbage]
    /\ m_iBufSize = m_iInitSize
    /\ m_iDataBeginPos = 0 /\ m_iDataEndPos = 0
    /\ adding = 0 /\ in = 0 /\ out = 0

GetSize == m_iDataEndPos - m_iDataBeginPos
GetFreeSize == m_iBufSize - m_iDataEndPos

-----------------------------------------------------------------------------
\* moveData: the data goes to the front of the array.
Moved_OnlyPositions == m_pszBuf
Moved ==
    [i \in Positions(m_iBufSize) |->
        IF i < GetSize THEN m_pszBuf[m_iDataBeginPos + i] ELSE m_pszBuf[i]]

MoveData ==
    /\ m_iDataBeginPos # 0
    /\ IF GetSize = 0 THEN UNCHANGED <<m_pszBuf, m_iDataBeginPos, m_iDataEndPos>>
       ELSE m_pszBuf' = Moved /\ m_iDataBeginPos' = 0 /\ m_iDataEndPos' = GetSize
    /\ UNCHANGED m_iBufSize

\* incBuf; reSize copies the data, which begins at 0, into the new array.
Increased_OnlyDoubled == IF m_iBufSize * 2 < m_iDataAllowMaxSize THEN m_iBufSize * 2 ELSE m_iBufSize
Increased == IF m_iBufSize * 2 < m_iDataAllowMaxSize THEN m_iBufSize * 2 ELSE m_iDataAllowMaxSize

IncBuf ==
    /\ m_iDataBeginPos = 0
    /\ m_iBufSize' = Increased
    /\ m_pszBuf' = IF Increased = m_iBufSize THEN m_pszBuf
                   ELSE [i \in Positions(Increased) |->
                            IF i < GetSize THEN m_pszBuf[i] ELSE Garbage]
    /\ UNCHANGED <<m_iDataBeginPos, m_iDataEndPos>>

MakeRoom == MoveData \/ IncBuf

\* n bytes are written at the end.
Put(n) ==
    /\ n <= GetFreeSize
    /\ m_pszBuf' = [i \in Positions(m_iBufSize) |->
                        IF m_iDataEndPos <= i /\ i < m_iDataEndPos + n
                        THEN in + (i - m_iDataEndPos) ELSE m_pszBuf[i]]
    /\ m_iDataEndPos' = m_iDataEndPos + n
    /\ in' = in + n
    /\ UNCHANGED <<m_iBufSize, m_iDataBeginPos, out>>

-----------------------------------------------------------------------------
\* Before a recv that finds no free byte.
AddFreeBuf ==
    /\ adding = 0 /\ GetFreeSize = 0
    /\ MakeRoom
    /\ UNCHANGED <<adding, in, out>>

\* recv() has put n bytes at getFreeBuf().
AddReceived(n) ==
    /\ adding = 0 /\ n > 0 /\ in + n <= MaxBytes
    /\ Put(n)
    /\ UNCHANGED adding

\* addData(pszData, n): refused at once, or a loop that makes room, then the copy.
HasRoomFor_Always(n) == TRUE
HasRoomFor(n) == m_iDataAllowMaxSize - GetSize >= n

AddDataBegin(n) ==
    /\ adding = 0 /\ n > 0 /\ in + n <= MaxBytes
    /\ HasRoomFor(n)
    /\ adding' = n
    /\ UNCHANGED <<m_pszBuf, m_iBufSize, m_iDataBeginPos, m_iDataEndPos, in, out>>

AddDataRoom ==
    /\ GetFreeSize < adding
    /\ MakeRoom
    /\ UNCHANGED <<adding, in, out>>

AddDataCopy ==
    /\ adding > 0
    /\ Put(adding)
    /\ adding' = 0

\* removeData; an emptied buffer starts again with an array of the first size.
Emptied(n) == n = GetSize

Fresh == IF m_iBufSize = m_iInitSize THEN m_pszBuf ELSE [i \in Positions(m_iInitSize) |-> Garbage]

StartAgain ==
    /\ m_pszBuf' = Fresh
    /\ m_iBufSize' = m_iInitSize
    /\ m_iDataBeginPos' = 0 /\ m_iDataEndPos' = 0

RemoveData(n) ==
    /\ adding = 0 /\ 0 < n /\ n <= GetSize
    /\ out' = out + n
    /\ IF Emptied(n) THEN StartAgain
       ELSE /\ m_iDataBeginPos' = m_iDataBeginPos + n
            /\ UNCHANGED <<m_pszBuf, m_iBufSize, m_iDataEndPos>>
    /\ UNCHANGED <<adding, in>>

\* reset() sets the positions first, so reSize finds no data to move.
Reset ==
    /\ adding = 0
    /\ StartAgain
    /\ out' = in
    /\ UNCHANGED <<adding, in>>

-----------------------------------------------------------------------------
AddData == AddDataRoom \/ AddDataCopy
Next ==
    \/ AddFreeBuf \/ AddData \/ Reset
    \/ \E n \in 1 .. MaxBytes : AddReceived(n) \/ AddDataBegin(n) \/ RemoveData(n)

Spec == Init /\ [][Next]_vars
FairSpec == Spec /\ WF_vars(AddData)

-----------------------------------------------------------------------------
(* The type invariant: the data lies within the array, the array within    *)
(* the maximum, and only data that is there can begin after the front.     *)
TypeOK ==
    /\ m_iBufSize \in 1 .. m_iDataAllowMaxSize
    /\ m_pszBuf \in [Positions(m_iBufSize) -> Nat \cup {Garbage}]
    /\ m_iDataBeginPos \in 0 .. m_iBufSize /\ m_iDataEndPos \in 0 .. m_iBufSize
    /\ m_iDataBeginPos <= m_iDataEndPos
    /\ m_iDataBeginPos = m_iDataEndPos => m_iDataBeginPos = 0
    /\ adding \in Nat /\ in \in Nat /\ out \in Nat

(* The data are exactly the bytes added and not yet removed, each once and *)
(* in order, whatever moves, growths and new arrays came between.          *)
DataInOrder ==
    /\ GetSize = in - out
    /\ \A i \in Positions(GetSize) : m_pszBuf[m_iDataBeginPos + i] = out + i

(* reSize's assertion: an array that is really replaced by one of another  *)
(* size is replaced by one larger than the data.  When data at the front   *)
(* leave no room, for addData or for recv, the array can still grow; for   *)
(* recv, which onTcpRead then gives up, unless it has reached the maximum. *)
ResizeFits ==
    /\ Increased # m_iBufSize => GetSize < Increased
    /\ m_iDataBeginPos = 0 /\ GetFreeSize < adding => Increased > m_iBufSize
    /\ m_iDataBeginPos = 0 /\ GetFreeSize = 0 =>
            Increased > m_iBufSize \/ GetSize = m_iDataAllowMaxSize

(* Under fairness: addData's loop ends, with the data copied.              *)
AddDataEnds == adding > 0 ~> adding = 0
=============================================================================
