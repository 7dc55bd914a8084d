---------------------------- MODULE BlockQueueMC ----------------------------
(* One thread that pushes and one that pops without a time limit, as in    *)
(* src/test/Test_BlockQueue.cpp, and a queue of two items.                 *)
EXTENDS BlockQueue
=============================================================================
