---------------------------- MODULE BoundedFifo ----------------------------
(***************************************************************************)
(* What a bounded queue between one producer and one consumer promises:    *)
(* the producer's call either appends its element or reports that the      *)
(* queue is full, and it reports that only while the queue holds Capacity  *)
(* elements; the consumer's call either takes the oldest element or        *)
(* reports that there is none, and it reports that only while the queue    *)
(* is empty.                                                               *)
(***************************************************************************)
EXTENDS Naturals, Sequences

CONSTANTS Elems,     (* what the queue may hold                            *)
          Capacity,  (* how many elements it holds at most                 *)
          None       (* the answer that carries no element                 *)

VARIABLES fifo,      (* the elements, oldest first                         *)
          answer,    (* the answer of the producer's last call             *)
          taken      (* the element the consumer's last call returned      *)

vars == <<fifo, answer, taken>>

Init == fifo = <<>> /\ answer = TRUE /\ taken = None

Put(e) ==
    /\ Len(fifo) < Capacity
    /\ fifo' = Append(fifo, e)
    /\ answer' = TRUE
    /\ UNCHANGED taken

Refuse ==
    /\ Len(fifo) = Capacity
    /\ answer' = FALSE
    /\ UNCHANGED <<fifo, taken>>

Take ==
    /\ fifo # <<>>
    /\ taken' = Head(fifo)
    /\ fifo' = Tail(fifo)
    /\ UNCHANGED answer

Miss ==
    /\ fifo = <<>>
    /\ taken' = None
    /\ UNCHANGED <<fifo, answer>>

Next == (\E e \in Elems : Put(e)) \/ Refuse \/ Take \/ Miss

Spec == Init /\ [][Next]_vars
=============================================================================
