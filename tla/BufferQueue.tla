---------------------------- MODULE BufferQueue ----------------------------
(***************************************************************************)
(* CBufferQueue, a queue of messages in a block of memory that a writing   *)
(* and a reading process share.  Each message is a mark of ulMarkLen bytes *)
(* that holds its length, and its bytes; both run on at the front when     *)
(* they reach the end of the block.  No lock: the writer moves iEnd, the   *)
(* reader iBegin, both count in iNum.  Either process may die between any  *)
(* two steps and attach again.                                             *)
(*                                                                         *)
(* A byte is <<m, k>>, byte k of the m-th message begun; those of its mark *)
(* have k < 0.  Stores are taken to reach the other process in the order   *)
(* in which the code makes them.                                           *)
(***************************************************************************)
EXTENDS Integers, Sequences

CONSTANTS
    iBufSize, ulMarkLen, ulReserveLen,
    Lengths, BufferSizes,   (* of messages pushed, of the buffers given to pop *)
    MaxMessages             (* bound: pushes begun                             *)

ASSUME BufferQueueAssumption ==
    /\ iBufSize \in Nat /\ ulMarkLen \in Nat \ {0} /\ ulReserveLen \in Nat \ {0}
    /\ ulMarkLen + ulReserveLen < iBufSize
    /\ Lengths \subseteq Nat \ {0} /\ BufferSizes \subseteq Nat

VARIABLES
    iBegin, iEnd, iNum, data,
    lens,           (* length of every message begun                          *)
    queued,         (* messages pushed and not yet released                   *)
    writer,         (* [at, one, begin, end, num]: where push is, what it read *)
    reader          (* [at, end, size, new, got, num]: the same for pop       *)

bufferVars == <<iBegin, iEnd, iNum, data, lens, queued, writer, reader>>

Idle == [at |-> "idle"]
Blank == <<0, 0>>

BufferInit ==
    /\ iBegin = 0 /\ iEnd = 0 /\ iNum = 0
    /\ data = [i \in 0 .. iBufSize - 1 |-> Blank]
    /\ lens = <<>> /\ queued = <<>> /\ writer = Idle /\ reader = Idle

\* What attach tests of a block it finds.
Attachable == iBegin < iBufSize /\ iEnd <= iBufSize

-----------------------------------------------------------------------------
\* Room for len bytes, with the iBegin read at the start of push.
InUse(begin, end) == IF begin <= end THEN end - begin ELSE iBufSize - (begin - end)
NoRoom_WithoutReserve(len, begin) == iBufSize - InUse(begin, iEnd) < ulMarkLen + len
NoRoom(len, begin) == iBufSize - InUse(begin, iEnd) < ulMarkLen + len + ulReserveLen

PushBegin ==
    /\ writer.at = "idle" /\ Len(lens) < MaxMessages
    /\ \E len \in Lengths, one \in BOOLEAN :
         /\ ~NoRoom(len, iBegin)
         /\ lens' = Append(lens, len)
         /\ writer' = [at |-> "copy", one |-> one, begin |-> iBegin]
    /\ iNum' = IF iEnd = iBegin THEN 0 ELSE iNum
    /\ UNCHANGED <<iBegin, iEnd, data, queued, reader>>

PushFull ==
    /\ writer.at = "idle"
    /\ \E len \in Lengths : NoRoom(len, iBegin)
    /\ iNum' = IF iEnd = iBegin THEN 0 ELSE iNum
    /\ UNCHANGED <<iBegin, iEnd, data, lens, queued, writer, reader>>

\* memcpy of n bytes of the message, from byte k on, to data + to.
Copy(to, k, n) == [to |-> to, k |-> k, n |-> n]
Copied(copies) ==
    [i \in DOMAIN data |->
        LET here == {c \in copies : c.to <= i /\ i < c.to + c.n}
        IN IF here = {} THEN data[i]
           ELSE LET c == CHOOSE c \in here : TRUE IN <<Len(lens), c.k + i - c.to>>]

\* push of one buffer: the mark is cut, the bytes are cut, or neither.
CopiesOfOne(len) ==
    LET from == iEnd + ulMarkLen
        room == iBufSize - from
    IN IF room < 0
       THEN [to |-> {Copy(iEnd, -ulMarkLen, iBufSize - iEnd),
                     Copy(0, room, -room), Copy(-room, 0, len)}, end |-> len - room]
       ELSE IF len > room
       THEN [to |-> {Copy(iEnd, -ulMarkLen, ulMarkLen), Copy(from, 0, room), Copy(0, room, len - room)},
             end |-> len - room]
       ELSE [to |-> {Copy(iEnd, -ulMarkLen, ulMarkLen), Copy(from, 0, len)},
             end |-> (from + len) % iBufSize]

\* push of two buffers, the first one byte long or all but one.
CopiesOfTwo(len, len1) ==
    LET from == iEnd + ulMarkLen
        room == iBufSize - from
        len2 == len - len1
    IN IF room < 0
       THEN [to |-> {Copy(iEnd, -ulMarkLen, iBufSize - iEnd), Copy(0, room, -room),
                     Copy(-room, 0, len1), Copy(len1 - room, len1, len2)}, end |-> len - room]
       ELSE IF len > room
       THEN [to |-> {Copy(iEnd, -ulMarkLen, ulMarkLen)} \cup
                    (IF len1 > room
                     THEN {Copy(from, 0, room), Copy(0, room, len1 - room), Copy(len1 - room, len1, len2)}
                     ELSE {Copy(from, 0, len1), Copy(from + len1, len1, room - len1),
                           Copy(0, room, len - room)}),
             end |-> len - room]
       ELSE [to |-> {Copy(iEnd, -ulMarkLen, ulMarkLen), Copy(from, 0, len1), Copy(from + len1, len1, len2)},
             end |-> (from + len) % iBufSize]

PushCopy ==
    /\ writer.at = "copy"
    /\ LET len == lens[Len(lens)]
       IN \E c \in IF writer.one THEN {CopiesOfOne(len)}
                   ELSE {CopiesOfTwo(len, len1) : len1 \in {1, len - 1} \ {0}} :
            data' = Copied(c.to) /\ writer' = [at |-> "publish", begin |-> writer.begin, end |-> c.end]
    /\ UNCHANGED <<iBegin, iEnd, iNum, lens, queued, reader>>

PushPublish ==
    /\ writer.at = "publish"
    /\ iEnd' = writer.end
    /\ queued' = Append(queued, Len(lens))
    /\ writer' = [at |-> "count", num |-> iNum]
    /\ UNCHANGED <<iBegin, iNum, data, lens, reader>>

PushCount ==
    /\ writer.at = "count"
    /\ iNum' = writer.num + 1
    /\ writer' = Idle
    /\ UNCHANGED <<iBegin, iEnd, data, lens, queued, reader>>

-----------------------------------------------------------------------------
\* Where the next message lies: its length by its mark, which may be cut, its
\* first byte, and the position behind it.
Mark == [j \in 0 .. ulMarkLen - 1 |-> data[(iBegin + j) % iBufSize]]
GetLen ==
    IF \A j \in DOMAIN Mark : Mark[j] = <<Mark[0][1], j - ulMarkLen>>
    THEN lens[Mark[0][1]] ELSE 0
Located ==
    LET from == iBegin + ulMarkLen
        len == GetLen
    IN IF from > iBufSize
       THEN [len |-> len, from |-> from - iBufSize, new |-> from - iBufSize + len]
       ELSE [len |-> len, from |-> IF from = iBufSize THEN 0 ELSE from,
             new |-> IF from + len < iBufSize THEN from + len ELSE from + len - iBufSize]

\* memcpy of n bytes from data + from.
Bytes(from, n) == [j \in 1 .. n |-> data[from + j - 1]]

\* pop into one buffer.
GotInOne(p) ==
    IF p.new > p.from THEN Bytes(p.from, p.len)
    ELSE Bytes(p.from, iBufSize - p.from) \o Bytes(0, p.new)

\* pop into two, of which the first holds size1 bytes.
GotInTwo(p, size1) ==
    LET room == iBufSize - p.from
    IN IF p.new > p.from
       THEN IF size1 > p.len THEN Bytes(p.from, p.len)
            ELSE Bytes(p.from, size1) \o Bytes(p.from + size1, p.len - size1)
       ELSE IF size1 > p.len THEN Bytes(p.from, room) \o Bytes(0, p.new)
       ELSE IF size1 > room
       THEN Bytes(p.from, room) \o Bytes(0, size1 - room)
            \o Bytes(p.from + size1 - iBufSize, p.len - size1)
       ELSE Bytes(p.from, size1) \o Bytes(p.from + size1, room - size1) \o Bytes(0, p.len - room)

PopEmpty ==
    /\ reader.at = "idle" /\ iBegin = iEnd
    /\ iNum' = 0
    /\ UNCHANGED <<iBegin, iEnd, data, lens, queued, writer, reader>>

PopBegin ==
    /\ reader.at = "idle" /\ iBegin # iEnd
    /\ \E size \in BufferSizes, one \in BOOLEAN :
         reader' = [at |-> "read", one |-> one, size |-> size, end |-> iEnd]
    /\ UNCHANGED <<iBegin, iEnd, iNum, data, lens, queued, writer>>

\* A message too long for the buffer is skipped.
PopRead ==
    /\ reader.at = "read"
    /\ LET p == Located
       IN \E got \in IF p.len > reader.size THEN {<<>>}
                     ELSE IF reader.one THEN {GotInOne(p)}
                     ELSE {GotInTwo(p, size1) : size1 \in {1, reader.size - 1}} :
            reader' = [at |-> "release", new |-> p.new, got |-> got]
    /\ UNCHANGED <<iBegin, iEnd, iNum, data, lens, queued, writer>>

PopRelease ==
    /\ reader.at = "release"
    /\ iBegin' = reader.new
    /\ queued' = Tail(queued)
    /\ reader' = [at |-> "count", num |-> iNum]
    /\ UNCHANGED <<iEnd, iNum, data, lens, writer>>

PopCount ==
    /\ reader.at = "count"
    /\ iNum' = IF reader.num > 0 THEN reader.num - 1 ELSE iNum
    /\ reader' = Idle
    /\ UNCHANGED <<iBegin, iEnd, data, lens, queued, writer>>

\* A process dies and comes back, to attach to what it left.
WriterDies == writer # Idle /\ writer' = Idle /\ UNCHANGED <<iBegin, iEnd, iNum, data, lens, queued, reader>>
ReaderDies == reader # Idle /\ reader' = Idle /\ UNCHANGED <<iBegin, iEnd, iNum, data, lens, queued, writer>>

BufferNext ==
    \/ PushBegin \/ PushFull \/ PushCopy \/ PushPublish \/ PushCount
    \/ PopEmpty \/ PopBegin \/ PopRead \/ PopRelease \/ PopCount
    \/ WriterDies \/ ReaderDies

BufferSpec == BufferInit /\ [][BufferNext]_bufferVars

-----------------------------------------------------------------------------
\* The block between iBegin and iEnd is the queued messages, one behind another.
Layout ==
    LET At[i \in 0 .. Len(queued)] ==
            IF i = 0 THEN iBegin ELSE (At[i - 1] + ulMarkLen + lens[queued[i]]) % iBufSize
    IN /\ At[Len(queued)] = iEnd
       /\ \A i \in 1 .. Len(queued) : \A j \in 0 .. ulMarkLen + lens[queued[i]] - 1 :
            data[(At[i - 1] + j) % iBufSize] = <<queued[i], j - ulMarkLen>>

\* The assertions of push and pop.
Asserted ==
    /\ reader.at = "read" =>
         LET p == Located
         IN IF iBegin < reader.end
            THEN iBegin + ulMarkLen + p.len <= reader.end
            ELSE iBegin # reader.end /\ reader.end + ulReserveLen <= iBegin
                 /\ (p.new < iBegin => p.new <= reader.end)
    /\ writer.at = "publish" /\ writer.end < iEnd => writer.end + ulReserveLen <= writer.begin

\* Whatever the two processes do at once, and wherever they die: the block holds
\* the messages pushed and not yet popped, whole and in order, what pop hands out
\* is the oldest of them, every assertion of push and pop holds, and a process
\* that comes back can attach.
QueueKeepsMessages ==
    /\ Layout /\ Asserted /\ Attachable
    /\ reader.at = "release" /\ reader.got # <<>> =>
         reader.got = [j \in 1 .. lens[Head(queued)] |-> <<Head(queued), j - 1>>]

=============================================================================
