--------------------------- MODULE EventTimersMC ---------------------------
(* Two timers, and a loop that may be busy for two ticks between two waits. *)
EXTENDS EventTimers
=============================================================================
