-------------------------- MODULE EventMessagesMC --------------------------
(* Two sending threads besides the loop's, and a pipe of two bytes: with   *)
(* at most two messages pending nobody is held up, with three somebody is. *)
EXTENDS EventMessages
=============================================================================
