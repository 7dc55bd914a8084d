------------------------------ MODULE ShmArray ------------------------------
(***************************************************************************)
(* CShmArray on CShm: processes that open one shared memory segment by its *)
(* key.  create looks for the segment, and makes it when there is none     *)
(* that is large enough; whoever made it fills in the header that the      *)
(* others read, with nothing to tell them when.  Processes ask for         *)
(* different sizes, may only open or only read, and may die between any    *)
(* two steps; the segment outlives them.  CBitmap opens its segment the    *)
(* same way.                                                               *)
(***************************************************************************)
EXTENDS Naturals

CONSTANTS
    Processes,
    NodeSizes,      (* sizes asked for, in nodes                             *)
    MaxDeaths       (* bound                                                 *)

ASSUME ShmArrayAssumption == NodeSizes \subseteq Nat

VARIABLES
    segment,        (* [size, dwNodeSize, pNodes, made]; NoSegment before it exists;    *)
                    (* made: have one or more taken themselves for the maker? *)
    process,        (* [at, n, create, readOnly, m_bCreate, m_pNodes, early] *)
    deaths

shmVars == <<segment, process, deaths>>

NoSegment == [size |-> 0, made |-> 0]
Exists == segment # NoSegment
Out == [at |-> "out"]

ShmInit ==
    /\ segment = NoSegment
    /\ process = [p \in Processes |-> Out]
    /\ deaths = 0

Becomes(p, r) == process' = [process EXCEPT ![p] = r]
Steps(p, to) == Becomes(p, [process[p] EXCEPT !.at = to])

-----------------------------------------------------------------------------
\* init on an object that has no segment yet.
InitFresh(p) ==
    /\ process[p].at = "out"
    /\ \E n \in NodeSizes, create, readOnly \in BOOLEAN :
         Becomes(p, [at |-> "look", n |-> n, create |-> create, readOnly |-> readOnly,
                     m_bCreate |-> FALSE, m_pNodes |-> FALSE, early |-> FALSE])
    /\ UNCHANGED <<segment, deaths>>

\* init once more on the same object, with the same arguments: attach alone, and
\* create when that fails.  An object whose init failed is not used again.
InitAgain(p) ==
    /\ process[p].at = "ready"
    /\ \E to \in {"head", "look"} :
         Becomes(p, [process[p] EXCEPT !.at = to, !.m_bCreate = FALSE])
    /\ UNCHANGED <<segment, deaths>>

\* The first shmget, without IPC_CREAT.
LargeEnough_AnySize(p) == Exists
LargeEnough(p) == Exists /\ segment.size >= process[p].n
Look(p) ==
    /\ process[p].at = "look"
    /\ Steps(p, IF LargeEnough(p) THEN "attach" ELSE "make")
    /\ UNCHANGED <<segment, deaths>>

\* The second: another process may have made the segment in between.
Make(p) ==
    /\ process[p].at = "make"
    /\ IF ~Exists /\ process[p].create
       THEN segment' = [size |-> process[p].n, dwNodeSize |-> 0, pNodes |-> FALSE, made |-> 1]
       ELSE IF LargeEnough(p) THEN segment' = [segment EXCEPT !.made = 2] ELSE UNCHANGED segment
    /\ Becomes(p, IF (Exists /\ ~LargeEnough(p)) \/ (~Exists /\ ~process[p].create)
                  THEN Out
                  ELSE [process[p] EXCEPT !.at = "attach", !.m_bCreate = TRUE])
    /\ UNCHANGED deaths

\* shmat, which may fail.
Attach(p) == process[p].at = "attach" /\ Steps(p, "head") /\ UNCHANGED <<segment, deaths>>
AttachFails(p) == process[p].at = "attach" /\ Becomes(p, Out) /\ UNCHANGED <<segment, deaths>>

\* Who made the segment fills the header, in two stores; to a segment attached
\* for reading the first one is the end of the process.
FillSize(p) ==
    /\ process[p].at = "head" /\ process[p].m_bCreate
    /\ IF process[p].readOnly THEN Becomes(p, Out) /\ UNCHANGED segment
       ELSE /\ segment' = [segment EXCEPT !.dwNodeSize = process[p].n]
            /\ IF process[p].n = 0 THEN Becomes(p, Out) ELSE Steps(p, "nodes")
    /\ UNCHANGED deaths
FillNodes(p) ==
    /\ process[p].at = "nodes"
    /\ segment' = [segment EXCEPT !.pNodes = TRUE]
    /\ Becomes(p, [process[p] EXCEPT !.at = "ready", !.m_pNodes = TRUE])
    /\ UNCHANGED deaths

\* The others take from the header what is there.
ReadHead(p) ==
    /\ process[p].at = "head" /\ ~process[p].m_bCreate
    /\ Becomes(p, [process[p] EXCEPT !.at = "ready", !.m_pNodes = segment.pNodes,
                                     !.early = ~segment.pNodes])
    /\ UNCHANGED <<segment, deaths>>

Closes(p) == process[p].at = "ready" /\ Becomes(p, Out) /\ UNCHANGED <<segment, deaths>>
Dies(p) ==
    /\ process[p].at # "out" /\ deaths < MaxDeaths
    /\ Becomes(p, Out) /\ deaths' = deaths + 1
    /\ UNCHANGED segment

ShmNext ==
    \E p \in Processes :
        \/ InitFresh(p) \/ InitAgain(p) \/ Look(p) \/ Make(p) \/ Attach(p) \/ AttachFails(p)
        \/ FillSize(p) \/ FillNodes(p) \/ ReadHead(p) \/ Closes(p) \/ Dies(p)

ShmSpec == ShmInit /\ [][ShmNext]_shmVars

-----------------------------------------------------------------------------
\* No process sees an array longer than the segment, whoever wrote the header and
\* with whatever size; a process whose init returned has as many nodes as it asked
\* for, unless more than one process took itself for the maker; and it has them at
\* all, unless it read the header before the maker had filled it in.
ArrayAsAsked ==
    Exists =>
        /\ segment.dwNodeSize <= segment.size
        /\ \A p \in Processes : process[p].at = "ready" =>
             /\ process[p].m_pNodes \/ process[p].early
             /\ process[p].m_pNodes => segment.pNodes
             /\ process[p].m_pNodes /\ segment.made = 1 => process[p].n <= segment.dwNodeSize
=============================================================================
