----------------------------- MODULE CommMgrMC -----------------------------
(* Small instances of CommMgr.  Descriptors are interchangeable, so they   *)
(* form a symmetry set in the runs that check no liveness.                 *)
EXTENDS CommMgr, TLC

FdSymmetry == Permutations(Fds)
=============================================================================
