---------------------------- MODULE NetWorkerMC ----------------------------
(* Two workers with rings of one slot; descriptor 3 is above the limit.    *)
EXTENDS NetWorker
=============================================================================
