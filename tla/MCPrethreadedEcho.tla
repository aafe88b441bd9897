------------------------- MODULE MCPrethreadedEcho -------------------------
(* The prethreaded echo server with two workers, one buffer cell and two     *)
(* clients, one of which may hold its worker for ever.                       *)
EXTENDS PrethreadedEcho
=============================================================================
