-------------------------- MODULE MCThreadedServer --------------------------
(* The thread pool with two workers and one or two places in the queue.      *)
(* MCThreadedServer.cfg: safety with failing accepts and ^C;                 *)
(* MCThreadedServerLive.cfg: service and shutdown.                           *)
EXTENDS ThreadedServer, TLC

Symmetry == Permutations(Workers) \cup Permutations(Clients)
=============================================================================
