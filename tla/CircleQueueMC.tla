--------------------------- MODULE CircleQueueMC ---------------------------
(* What the library stores data in, one kind of store in each behaviour:   *)
(* the ring with three usable slots and two elements, so that both indices *)
(* wrap and it is full, empty and in between; the shared-memory queue of   *)
(* nine bytes, which cuts marks and messages at its end; two cache shards  *)
(* of two nodes; every class of bit map, with cells in and across its      *)
(* groups; two processes that attach to, make and lose a shared array; two *)
(* days of log files, three of two lines each; the two buffers of an       *)
(* asynchronous log, of four characters each, with its own thread and a    *)
(* caller of flush.  The stores share nothing, so the others stand still.  *)
EXTENDS CircleQueue, BufferQueue, LruCache, BitMap, ShmArray, LogFiles, AsyncLog

VARIABLE part
allVars == <<part, vars, bufferVars, lruVars, bitVars, shmVars, fileVars, logVars>>

StoresInit ==
    /\ part \in {"ring", "buffer", "lru", "bits", "shm", "files", "log"}
    /\ Init /\ BufferInit /\ LruInit /\ BitInit /\ ShmInit /\ FilesInit /\ LogInit
    /\ part # "bits" => width = 1
    /\ part # "files" => class = "CFileLog"

RingActs == Next /\ UNCHANGED <<bufferVars, lruVars, bitVars, shmVars, fileVars, logVars>>
BufferActs == BufferNext /\ UNCHANGED <<vars, lruVars, bitVars, shmVars, fileVars, logVars>>
LruActs == LruNext /\ UNCHANGED <<vars, bufferVars, bitVars, shmVars, fileVars, logVars>>
BitsActs == BitNext /\ UNCHANGED <<vars, bufferVars, lruVars, shmVars, fileVars, logVars>>
ShmActs == ShmNext /\ UNCHANGED <<vars, bufferVars, lruVars, bitVars, fileVars, logVars>>
FilesActs == FilesNext /\ UNCHANGED <<vars, bufferVars, lruVars, bitVars, shmVars, logVars>>
LogActs == LogNext /\ UNCHANGED <<vars, bufferVars, lruVars, bitVars, shmVars, fileVars>>

StoresNext ==
    /\ UNCHANGED part
    /\ \/ part = "ring" /\ RingActs
       \/ part = "buffer" /\ BufferActs
       \/ part = "lru" /\ LruActs
       \/ part = "bits" /\ BitsActs
       \/ part = "shm" /\ ShmActs
       \/ part = "files" /\ FilesActs
       \/ part = "log" /\ LogActs

StoresSpec == StoresInit /\ [][StoresNext]_allVars
=============================================================================
