------------------------------ MODULE FdEvents ------------------------------
(***************************************************************************)
(* CEvent's table of file descriptors and the kernel's epoll interest list *)
(* it is meant to mirror.  addFdEvent decides between ADD and MOD by its   *)
(* own table, updates the table, and only then asks the kernel, which may  *)
(* refuse: nothing puts the table back.  Every reader of a client's        *)
(* descriptor is onTcpRead, so only the write handler is kept.             *)
(***************************************************************************)
EXTENDS Naturals, FiniteSets

CONSTANTS Fds,          (* the descriptors, all below m_dwMaxFdNum           *)
          MaxRefusals   (* bound: how often the kernel refuses an ADD        *)

ASSUME FdEventsAssumption == IsFiniteSet(Fds) /\ MaxRefusals \in Nat

VARIABLES fdEvents,     (* m_stFdEvents                                      *)
          interest,     (* the epoll interest list; {} for what is not on it *)
          refusals      (* how many ADDs the kernel has refused so far       *)

eventVars == <<fdEvents, interest, refusals>>

EvType == {"EV_READ", "EV_WRITE"}
Handler == {"none", "onConnect", "onWrite"}

FdEventsType ==
    /\ fdEvents \in [Fds -> [iEventType : SUBSET EvType, onWrite : Handler]]
    /\ interest \in [Fds -> SUBSET EvType]
    /\ refusals \in 0 .. MaxRefusals

FdEventsInit ==
    /\ fdEvents = [f \in Fds |-> [iEventType |-> {}, onWrite |-> "none"]]
    /\ interest = [f \in Fds |-> {}]
    /\ refusals = 0

(* epoll_ctl fails on an ADD of what is listed and on a MOD of what is     *)
(* not; it may also refuse an ADD, for want of memory or of watches.       *)
EpollCtl(f, ok) ==
    IF fdEvents[f].iEventType = {} /\ interest[f] = {}
    THEN refusals' = refusals + (IF ok THEN 0 ELSE 1) /\ refusals' <= MaxRefusals
    ELSE ok = (fdEvents[f].iEventType # {} /\ interest[f] # {}) /\ UNCHANGED refusals

AddFdEvent_NewTypeOnly(f, type, handler, ok) ==
    /\ EpollCtl(f, ok)
    /\ fdEvents' = [fdEvents EXCEPT ![f].iEventType = @ \cup {type},
                                    ![f].onWrite = IF type = "EV_WRITE" THEN handler ELSE @]
    /\ interest' = IF ok THEN [interest EXCEPT ![f] = {type}] ELSE interest

(* The table takes the type and the handler whatever the kernel answers.   *)
AddFdEvent(f, type, handler, ok) ==
    /\ EpollCtl(f, ok)
    /\ fdEvents' = [fdEvents EXCEPT ![f].iEventType = @ \cup {type},
                                    ![f].onWrite = IF type = "EV_WRITE" THEN handler ELSE @]
    /\ interest' = IF ok THEN [interest EXCEPT ![f] = fdEvents'[f].iEventType] ELSE interest

DelFdEvent_All(f, types) ==
    /\ fdEvents' = [fdEvents EXCEPT ![f] = [iEventType |-> {}, onWrite |-> "none"]]
    /\ interest' = [interest EXCEPT ![f] = {}]
    /\ UNCHANGED refusals

(* A MOD while some type is left, a DEL otherwise; the callers ignore the  *)
(* kernel's answer.  A handler whose type is not set is never called, and  *)
(* is replaced before the type is set again: "none" stands for it.         *)
DelFdEvent(f, types) ==
    LET left == fdEvents[f].iEventType \ types IN
    /\ fdEvents' = [fdEvents EXCEPT ![f] = [iEventType |-> left,
                    onWrite |-> IF "EV_WRITE" \in left THEN @.onWrite ELSE "none"]]
    /\ interest' = [interest EXCEPT ![f] = IF @ = {} THEN {} ELSE left]
    /\ UNCHANGED refusals
=============================================================================
