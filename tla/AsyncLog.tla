------------------------------ MODULE AsyncLog ------------------------------
(***************************************************************************)
(* CAsyncLog with its two CLogBuffers.  Callers write lines into the       *)
(* current buffer under the mutex, into the other when it does not fit.    *)
(* The log's thread, or a caller of flush, makes the other buffer current  *)
(* under the mutex, and then writes out and resets the first without it.   *)
(* A buffer is a sequence of cells: a line is its number once for each     *)
(* cell of its text, a line end is 0.  The file is LogFiles', here a       *)
(* sequence of cells and calls that may fail.                              *)
(***************************************************************************)
EXTENDS Integers, Sequences, FiniteSets

CONSTANTS
    Flushers,               (* Run and callers of flush                      *)
    Run,
    dwBufSize,
    TextLens, MaxTexts      (* bounds                                        *)

ASSUME AsyncLogAssumption ==
    /\ Run \in Flushers /\ dwBufSize \in Nat \ {0}
    /\ TextLens \subseteq Nat \ {0} /\ MaxTexts \in Nat

VARIABLES
    buffer,                 (* 1 .. 2 -> [data, m_bFull]                     *)
    m_poCurWirteBuffer, m_iCurWriteBufferFlag,
    due,                    (* m_iLogSecs have gone by                       *)
    flush,                  (* Flushers -> [at, k]: the call under way       *)
    logFile,
    texts,                  (* the lines that writeBuffer accepted: their lengths *)
    fellBack,               (* those put into the buffer that is not current *)
    stray,                  (* of them, into one already written out         *)
    unwritten,              (* lines whose buffer writeFile refused          *)
    raced                   (* two flushes at once, or reset met a write     *)

logVars == <<buffer, m_poCurWirteBuffer, m_iCurWriteBufferFlag, due, flush, logFile,
             texts, fellBack, stray, unwritten, raced>>

EmptyBuffer == [data |-> <<>>, m_bFull |-> FALSE]
NotFlushing == [at |-> "idle", k |-> 0]
Other(k) == 3 - k

LogInit ==
    /\ buffer = [k \in 1 .. 2 |-> EmptyBuffer]
    /\ m_poCurWirteBuffer = 1 /\ m_iCurWriteBufferFlag = 1
    /\ due = FALSE
    /\ flush = [f \in Flushers |-> NotFlushing]
    /\ logFile = <<>> /\ texts = <<>>
    /\ fellBack = {} /\ stray = {} /\ unwritten = {}
    /\ raced = FALSE

Fits(k, n) == Len(buffer[k].data) + n <= dwBufSize
Text(n) == [c \in 1 .. n |-> Len(texts) + 1]
\* Text and line end are two writes: the second may find the buffer full.
WithLine(b, n) ==
    IF Len(b.data) + n < dwBufSize THEN [b EXCEPT !.data = @ \o Text(n) \o <<0>>]
                                   ELSE [b EXCEPT !.data = @ \o Text(n), !.m_bFull = TRUE]
Resetting(k) == \E f \in Flushers : flush[f] = [at |-> "reset", k |-> k]

-----------------------------------------------------------------------------
WriteCurrent(n) ==
    /\ Fits(m_poCurWirteBuffer, n)
    /\ buffer' = [buffer EXCEPT ![m_poCurWirteBuffer] = WithLine(@, n)]
    /\ texts' = Append(texts, n)
    /\ UNCHANGED <<fellBack, stray>>

WriteOther(n) ==
    LET o == Other(m_poCurWirteBuffer)
    IN /\ ~Fits(m_poCurWirteBuffer, n) /\ Fits(o, n)
       /\ buffer' = [buffer EXCEPT ![m_poCurWirteBuffer].m_bFull = TRUE, ![o] = WithLine(@, n)]
       /\ texts' = Append(texts, n)
       /\ fellBack' = fellBack \cup {Len(texts) + 1}
       /\ stray' = IF Resetting(o) THEN stray \cup {Len(texts) + 1} ELSE stray

WriteRefusedByBoth(n) ==
    /\ \A k \in 1 .. 2 : ~Fits(k, n)
    /\ buffer' = [k \in 1 .. 2 |-> [buffer[k] EXCEPT !.m_bFull = TRUE]]
    /\ UNCHANGED <<texts, fellBack, stray>>

WriteBuffer(n) ==
    /\ Len(texts) < MaxTexts
    /\ WriteCurrent(n) \/ WriteOther(n) \/ WriteRefusedByBoth(n)
    /\ UNCHANGED <<m_poCurWirteBuffer, m_iCurWriteBufferFlag, due, flush, logFile, unwritten, raced>>

\* usleep, iMillSecs.
SecondsPass == ~due /\ due' = TRUE /\ UNCHANGED <<buffer, m_poCurWirteBuffer, m_iCurWriteBufferFlag,
    flush, logFile, texts, fellBack, stray, unwritten, raced>>

\* The test of run reads the current buffer without the mutex.
RunTest ==
    LET b == buffer[m_poCurWirteBuffer]
    IN /\ flush[Run].at = "idle"
       /\ (due /\ b.data # <<>>) \/ b.m_bFull
       /\ flush' = [flush EXCEPT ![Run].at = "read"] /\ due' = FALSE
       /\ UNCHANGED <<buffer, m_poCurWirteBuffer, m_iCurWriteBufferFlag, logFile, texts, fellBack,
                      stray, unwritten, raced>>

CallFlush(f) ==
    /\ f # Run /\ flush[f].at = "idle"
    /\ flush' = [flush EXCEPT ![f].at = "read"]
    /\ UNCHANGED <<buffer, m_poCurWirteBuffer, m_iCurWriteBufferFlag, due, logFile, texts, fellBack,
                   stray, unwritten, raced>>

\* Without the mutex: two flushes may read the same flag.
FlushRead(f) ==
    /\ flush[f].at = "read"
    /\ flush' = [flush EXCEPT ![f] = [at |-> "switch", k |-> m_iCurWriteBufferFlag]]
    /\ raced' = (\E g \in Flushers \ {f} : flush[g].k # 0)
    /\ UNCHANGED <<buffer, m_poCurWirteBuffer, m_iCurWriteBufferFlag, due, logFile, texts, fellBack,
                   stray, unwritten>>

FlushSwap_NoSwitch(f) ==
    /\ flush[f].at = "switch"
    /\ flush' = [flush EXCEPT ![f].at = "write"]
    /\ UNCHANGED <<buffer, m_poCurWirteBuffer, m_iCurWriteBufferFlag, due, logFile, texts, fellBack,
                   stray, unwritten, raced>>
FlushSwap(f) ==
    /\ flush[f].at = "switch"
    /\ m_poCurWirteBuffer' = Other(flush[f].k)
    /\ flush' = [flush EXCEPT ![f].at = "write"]
    /\ UNCHANGED <<buffer, m_iCurWriteBufferFlag, due, logFile, texts, fellBack, stray, unwritten, raced>>

\* What writeFile returns is not looked at.
FlushWrite(f) ==
    LET data == buffer[flush[f].k].data
    IN /\ flush[f].at = "write"
       /\ \/ logFile' = logFile \o data /\ UNCHANGED unwritten
          \/ unwritten' = unwritten \cup ({data[i] : i \in DOMAIN data} \ {0}) /\ UNCHANGED logFile
       /\ flush' = [flush EXCEPT ![f].at = "reset"]
       /\ UNCHANGED <<buffer, m_poCurWirteBuffer, m_iCurWriteBufferFlag, due, texts, fellBack, stray, raced>>

FlushReset(f) ==
    /\ flush[f].at = "reset"
    /\ buffer' = [buffer EXCEPT ![flush[f].k] = EmptyBuffer]
    /\ flush' = [flush EXCEPT ![f].at = "flag"]
    /\ UNCHANGED <<m_poCurWirteBuffer, m_iCurWriteBufferFlag, due, logFile, texts, fellBack, stray, unwritten, raced>>

\* reset stores 0 between the load and the store of a write that fell back.
FlushResetOverwritten(f, n) ==
    LET k == flush[f].k
    IN /\ flush[f].at = "reset" /\ k = Other(m_poCurWirteBuffer) /\ Len(texts) < MaxTexts
       /\ ~Fits(m_poCurWirteBuffer, n) /\ Fits(k, n)
       /\ buffer' = [buffer EXCEPT ![m_poCurWirteBuffer].m_bFull = TRUE, ![k] = WithLine(@, n)]
       /\ flush' = [flush EXCEPT ![f].at = "flag"]
       /\ texts' = Append(texts, n) /\ fellBack' = fellBack \cup {Len(texts) + 1}
       /\ raced' = TRUE
       /\ UNCHANGED <<m_poCurWirteBuffer, m_iCurWriteBufferFlag, due, logFile, stray, unwritten>>

FlushFlag(f) ==
    /\ flush[f].at = "flag"
    /\ m_iCurWriteBufferFlag' = Other(flush[f].k)
    /\ flush' = [flush EXCEPT ![f] = NotFlushing]
    /\ UNCHANGED <<buffer, m_poCurWirteBuffer, due, logFile, texts, fellBack, stray, unwritten, raced>>

FlushStep(f) == FlushRead(f) \/ FlushSwap(f) \/ FlushWrite(f) \/ FlushReset(f) \/ FlushFlag(f)
\* Nothing is claimed of a log after a race: the model stops there.
LogNext ==
    /\ ~raced
    /\ \/ \E n \in TextLens : WriteBuffer(n)
       \/ SecondsPass \/ RunTest
       \/ \E f \in Flushers : CallFlush(f) \/ FlushStep(f) \/ \E n \in TextLens : FlushResetOverwritten(f, n)

LogSpec == LogInit /\ [][LogNext]_logVars

-----------------------------------------------------------------------------
\* A line that write accepted is in the file or in a buffer, whole and once, in the
\* order of the calls unless it fell back into the other buffer; it is lost only
\* when writeFile refused, or when it fell back into a buffer already written out.
StillIn(k) == IF Resetting(k) THEN <<>> ELSE buffer[k].data
LinesNow == logFile \o StillIn(Other(m_poCurWirteBuffer)) \o StillIn(m_poCurWirteBuffer)
CellsOf(l, s) == Cardinality({i \in DOMAIN s : s[i] = l})
Direct(c) == c # 0 /\ c \notin fellBack
AcceptedLinesKept ==
    raced \/
    /\ \A l \in DOMAIN texts \ (stray \cup unwritten) : CellsOf(l, LinesNow) = texts[l]
    /\ LET s == LinesNow
       IN \A i, j \in DOMAIN s : i < j /\ Direct(s[i]) /\ Direct(s[j]) => s[i] <= s[j]
=============================================================================
