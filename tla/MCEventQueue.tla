---------------------------- MODULE MCEventQueue ----------------------------
(* EventQueue on a small instance: a queue smaller than the events sent, and *)
(* more consumers than the queue has room for.                               *)
EXTENDS EventQueue
=============================================================================
