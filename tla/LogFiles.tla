------------------------------ MODULE LogFiles ------------------------------
(***************************************************************************)
(* The files of CFileLog and CAsyncLog: one set a day, the newest with the *)
(* bare name, older ones numbered.  Before a write the day is compared and *)
(* the newest file measured; when it is large enough the oldest is removed *)
(* and each of the others renamed to the next number, one call at a time,  *)
(* every call with the date of its own moment and each able to fail.  Both *)
(* classes have the same shiftFiles; CFileLog opens the file before it as  *)
(* well.  Callers are serialised (a mutex, one flushing thread).  Sizes    *)
(* are counted in lines.                                                   *)
(***************************************************************************)
EXTENDS Integers, SequencesExt

CONSTANTS
    m_dwLogFileMaxSize, m_uiLogFileNum,
    MaxDay, MaxLines        (* bounds                                        *)

ASSUME LogFilesAssumption ==
    /\ m_dwLogFileMaxSize \in Nat \ {0} /\ m_uiLogFileNum \in Nat \ {0, 1}
    /\ MaxDay \in Nat \ {0} /\ MaxLines \in Nat

VARIABLES
    class,                  (* CFileLog or CAsyncLog                         *)
    today, m_sCurDate,
    m_ofsOutFile,           (* [day, fail, held]: the day of the open file, 0 when closed; *)
                            (* the fail bit; lines in the stream's own buffer *)
    disk,                   (* day -> number of the file -> its lines        *)
    writeFile,              (* [at, lines, i]: the call under way            *)
    logged,                 (* day -> the lines written, in order            *)
    mishap                  (* days in which remove or rename failed, or midnight fell between *)

fileVars == <<class, today, m_sCurDate, m_ofsOutFile, disk, writeFile, logged, mishap>>

Days == 1 .. MaxDay
Numbers == 0 .. m_uiLogFileNum - 1
NoCall == [at |-> "idle", lines |-> <<>>, i |-> 0]

FilesInit ==
    /\ class \in {"CFileLog", "CAsyncLog"}
    /\ today = 1 /\ m_sCurDate = 1
    /\ m_ofsOutFile = [day |-> 0, fail |-> FALSE, held |-> <<>>]
    /\ disk = [d \in Days |-> [k \in Numbers |-> <<>>]]
    /\ writeFile = NoCall
    /\ logged = [d \in Days |-> <<>>]
    /\ mishap = {}

At(s) == writeFile.at = s
Goes(s) == writeFile' = [writeFile EXCEPT !.at = s]
Refuse == writeFile' = NoCall
IsOpen == m_ofsOutFile.day # 0
Appended_Truncates(d, lines) == [disk EXCEPT ![d][0] = lines]
Appended(d, lines) == [disk EXCEPT ![d][0] = @ \o lines]
Closed == [m_ofsOutFile EXCEPT !.day = 0, !.held = <<>>]
\* close writes what the stream still holds.
DiskClosed == IF IsOpen THEN Appended(m_ofsOutFile.day, m_ofsOutFile.held) ELSE disk
LinesSoFar == LET n[d \in 0 .. MaxDay] == IF d = 0 THEN 0 ELSE n[d - 1] + Len(logged[d]) IN n[MaxDay]

-----------------------------------------------------------------------------
Midnight ==
    /\ today < MaxDay /\ today' = today + 1
    /\ mishap' = mishap \cup (IF At("remove") \/ At("rename") THEN {today} ELSE {})
    /\ UNCHANGED <<class, m_sCurDate, m_ofsOutFile, disk, writeFile, logged>>

\* CFileLog writes a line, CAsyncLog the content of a buffer.
WriteBegins(n) ==
    /\ At("idle") /\ LinesSoFar + n <= MaxLines
    /\ class = "CFileLog" => n = 1
    /\ writeFile' = [NoCall EXCEPT !.at = IF class = "CFileLog" THEN "open" ELSE "shift",
                                   !.lines = [k \in 1 .. n |-> LinesSoFar + k]]
    /\ UNCHANGED <<class, today, m_sCurDate, m_ofsOutFile, disk, logged, mishap>>

\* open clears the fail bit when it succeeds; an open stream keeps it.
Opened == [m_ofsOutFile EXCEPT !.day = m_sCurDate, !.fail = FALSE]
OpenBeforeShift ==
    /\ At("open")
    /\ \/ ~IsOpen /\ m_ofsOutFile' = Opened /\ Goes("shift")
       \/ ~IsOpen /\ m_ofsOutFile' = [m_ofsOutFile EXCEPT !.fail = TRUE] /\ Refuse
       \/ IsOpen /\ UNCHANGED m_ofsOutFile /\ (IF m_ofsOutFile.fail THEN Refuse ELSE Goes("shift"))
    /\ UNCHANGED <<class, today, m_sCurDate, disk, logged, mishap>>

\* A new day closes the file; a large one is closed to be renamed.
ShiftTest ==
    /\ At("shift")
    /\ m_sCurDate' = today
    /\ LET changed == m_sCurDate # today
           large == Len((IF changed THEN DiskClosed ELSE disk)[today][0]) >= m_dwLogFileMaxSize
       IN /\ IF changed \/ large THEN m_ofsOutFile' = Closed /\ disk' = DiskClosed
                                 ELSE UNCHANGED <<m_ofsOutFile, disk>>
          /\ Goes(IF large THEN "remove" ELSE "write")
    /\ UNCHANGED <<class, today, logged, mishap>>

ShiftRemove ==
    /\ At("remove")
    /\ \/ /\ disk' = [disk EXCEPT ![today][m_uiLogFileNum - 1] = <<>>]
          /\ writeFile' = [writeFile EXCEPT !.at = "rename", !.i = m_uiLogFileNum - 2]
          /\ UNCHANGED mishap
       \/ /\ disk[today][m_uiLogFileNum - 1] # <<>>
          /\ Refuse /\ mishap' = mishap \cup {today} /\ UNCHANGED disk
    /\ UNCHANGED <<class, today, m_sCurDate, m_ofsOutFile, logged>>

\* One turn of the loop; a file that is not there is passed over.
ShiftRename ==
    LET i == writeFile.i
        next == IF i = 0 THEN [writeFile EXCEPT !.at = "write"] ELSE [writeFile EXCEPT !.i = i - 1]
    IN /\ At("rename")
       /\ \/ disk[today][i] = <<>> /\ writeFile' = next /\ UNCHANGED <<disk, mishap>>
          \/ /\ disk[today][i] # <<>>
             /\ disk' = [disk EXCEPT ![today][i + 1] = disk[today][i], ![today][i] = <<>>]
             /\ writeFile' = next /\ UNCHANGED mishap
          \/ /\ disk[today][i] # <<>>
             /\ Refuse /\ mishap' = mishap \cup {today} /\ UNCHANGED disk
       /\ UNCHANGED <<class, today, m_sCurDate, m_ofsOutFile, logged>>

ShiftFiles == ShiftTest \/ ShiftRemove \/ ShiftRename

\* The end of writeFile.  A stream that has failed refuses; one that fails now
\* loses the lines, and the call returns true.
WriteRefused ==
    /\ At("write") /\ (IsOpen => m_ofsOutFile.fail)
    /\ m_ofsOutFile' = [m_ofsOutFile EXCEPT !.fail = TRUE] /\ Refuse
    /\ UNCHANGED <<class, today, m_sCurDate, disk, logged, mishap>>
Writable == At("write") /\ (IsOpen => ~m_ofsOutFile.fail)
OutFile == IF IsOpen THEN m_ofsOutFile ELSE Opened
WriteLost ==
    /\ Writable
    /\ m_ofsOutFile' = [OutFile EXCEPT !.fail = TRUE] /\ writeFile' = NoCall
    /\ UNCHANGED <<class, today, m_sCurDate, disk, logged, mishap>>
\* endl and flush write through; operator<< leaves the line in the stream.
WriteThrough ==
    /\ Writable
    /\ disk' = Appended(m_sCurDate, OutFile.held \o writeFile.lines)
    /\ m_ofsOutFile' = [OutFile EXCEPT !.held = <<>>]
    /\ logged' = [logged EXCEPT ![m_sCurDate] = @ \o writeFile.lines] /\ writeFile' = NoCall
    /\ UNCHANGED <<class, today, m_sCurDate, mishap>>
WriteHeld ==
    /\ Writable /\ class = "CFileLog"
    /\ m_ofsOutFile' = [OutFile EXCEPT !.held = @ \o writeFile.lines]
    /\ logged' = [logged EXCEPT ![m_sCurDate] = @ \o writeFile.lines] /\ writeFile' = NoCall
    /\ UNCHANGED <<class, today, m_sCurDate, disk, mishap>>

WriteFile == WriteRefused \/ WriteLost \/ WriteThrough
FilesNext ==
    \/ Midnight \/ (\E n \in 1 .. 2 : WriteBegins(n))
    \/ OpenBeforeShift \/ ShiftFiles \/ WriteFile \/ WriteHeld
FilesSpec == FilesInit /\ [][FilesNext]_fileVars

-----------------------------------------------------------------------------
\* The n oldest of the files, one after the other; what a day's files and the stream hold.
ReadFrom(files) ==
    LET Read[n \in 0 .. m_uiLogFileNum] == IF n = 0 THEN <<>> ELSE Read[n - 1] \o files[m_uiLogFileNum - n]
    IN Read
DayAsRead(d) ==
    ReadFrom(disk[d])[m_uiLogFileNum] \o (IF m_ofsOutFile.day = d THEN m_ofsOutFile.held ELSE <<>>)
\* Through every rotation, failed call and midnight, the files of a day read from
\* the oldest to the newest, with what the stream holds, are the end of what was
\* written that day, in order.  While no call failed and no midnight fell into a
\* rotation, the beginning is missing only when every older file is full.
LogKeepsNewest ==
    \A d \in Days :
        /\ IsSuffix(DayAsRead(d), logged[d])
        /\ DayAsRead(d) # logged[d] /\ d \notin mishap /\ At("idle")
             => \A k \in Numbers \ {0} : Len(disk[d][k]) >= m_dwLogFileMaxSize
=============================================================================
