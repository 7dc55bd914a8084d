---------------------------- MODULE WorkerPoolMC ----------------------------
(* Two threads, whose names are interchangeable, one descriptor.            *)
EXTENDS WorkerPool, TLC
WorkerSymmetry == Permutations(Workers)
=============================================================================
