--------------------------- MODULE ThreadedServer ---------------------------
(* The thread pool of labs/threaded-webserver/http_server.c: main accepts    *)
(* connections and pushes them on the shared queue, the workers pop them and *)
(* serve them until they disconnect, SIGINT stops the loops.                 *)
(*                                                                           *)
(* A call that can block has two places, "about to make it" and "blocked in  *)
(* it", because a signal interrupts only a call that is blocked.  A request  *)
(* and its response are one unit each.                                       *)
EXTENDS Integers, Sequences, FiniteSets, ThreadCounts

CONSTANTS Workers,     \* the response_threads
          Clients, NoClient,
          Main, Nobody,
          QSize,       \* max_q_size
          MaxFds,      \* descriptors the process may have open for clients
          MaxRequests, \* bound: requests a client sends
          MaxSigints,  \* bound: SIGINTs the user sends
          MaxLost,     \* bound: accepts that fail (the code's own is QSize)
          Stubborn     \* clients that may stay connected for ever

ASSUME ThreadedAssumption ==
  /\ IsFiniteSet(Workers)
  /\ Main \notin Workers /\ Nobody \notin Workers /\ Main # Nobody
  /\ NoClient \notin Clients /\ Stubborn \subseteq Clients
  /\ QSize \in Nat \ {0}
  /\ MaxLost \in Nat /\ MaxRequests \in Nat /\ MaxSigints \in Nat

VARIABLES running,         \* server_running
          permits, tokens, \* the semaphores q_not_full and q_not_empty
          lock,            \* the owner of w_mutex
          queue, q_size,   \* world.queue and *world.q_size
          mpc, held,       \* main's place and its local `client`
          wpc, cur,        \* each worker's place and its item.client
          killed,          \* the workers main has sent SIGINT to
          conn, peer, unread, \* each client: connection, its end, requests to read
          fds,             \* client sockets the process has open
          alive,           \* not killed by SIGPIPE
          dropped,         \* history: clients let go with their socket open
          lost, sent, sigints \* history: permits lost; requests; SIGINTs

shared  == <<permits, tokens, lock, queue, q_size>>
main    == <<mpc, held, killed, lost>>
workers == <<wpc, cur>>
clients == <<conn, peer, unread, sent, dropped>>
vars == <<running, shared, main, workers, clients, fds, alive, sigints>>

Slots == 0 .. QSize - 1

MainPlaces == {"loop", "sem", "sem_blocked", "accept", "accept_blocked", "lock",
               "push", "post", "unlock", "kill", "freed"}
WorkerPlaces == {"loop", "sem", "sem_blocked", "lock", "pop", "post", "unlock",
                 "serve", "recv", "recv_blocked", "reply", "close", "exit"}

DataOK ==
  /\ running \in BOOLEAN /\ alive \in BOOLEAN
  /\ lock \in Workers \cup {Main, Nobody}
  /\ queue \in [Slots -> Clients \cup {NoClient}]
  /\ mpc \in MainPlaces /\ held \in Clients \cup {NoClient}
  /\ wpc \in [Workers -> WorkerPlaces]
  /\ cur \in [Workers -> Clients \cup {NoClient}]
  /\ killed \subseteq Workers
  /\ conn \in [Clients -> {"new", "backlog", "accepted", "aborted"}]
  /\ peer \in [Clients -> {"open", "fin", "gone"}]
  /\ sent \in [Clients -> 0 .. MaxRequests]
  /\ unread \in [Clients -> 0 .. MaxRequests]
  /\ \A c \in Clients : unread[c] <= sent[c]
  /\ fds \subseteq Clients /\ dropped \subseteq Clients \cup {NoClient}
  /\ sigints \in 0 .. MaxSigints

CountersOK == /\ permits \in 0 .. QSize /\ tokens \in 0 .. QSize
              /\ q_size \in 0 .. QSize /\ lost \in 0 .. QSize

\* The threads' places and data, and the semaphores between 0 and max_q_size.
TypeOK == DataOK /\ CountersOK

Init ==
  /\ running = TRUE /\ alive = TRUE
  /\ permits = QSize /\ tokens = 0 /\ lock = Nobody
  /\ queue = [i \in Slots |-> NoClient] /\ q_size = 0
  /\ mpc = "loop" /\ held = NoClient
  /\ wpc = [w \in Workers |-> "loop"]
  /\ cur = [w \in Workers |-> NoClient]
  /\ killed = {}
  /\ conn = [c \in Clients |-> "new"]
  /\ peer = [c \in Clients |-> "open"]
  /\ unread = [c \in Clients |-> 0]
  /\ sent = [c \in Clients |-> 0]
  /\ fds = {} /\ dropped = {} /\ lost = 0 /\ sigints = 0

-----------------------------------------------------------------------------
(* The clients, and the user's ^C *)

Connect(c) ==
  /\ conn[c] = "new"
  /\ conn' = [conn EXCEPT ![c] = "backlog"]
  /\ UNCHANGED <<running, shared, main, workers, peer, unread, sent, dropped, fds, alive,
                 sigints>>

Request(c) ==
  /\ conn[c] \in {"backlog", "accepted"} /\ peer[c] = "open" /\ sent[c] < MaxRequests
  /\ sent' = [sent EXCEPT ![c] = @ + 1]
  /\ unread' = [unread EXCEPT ![c] = @ + 1]
  /\ UNCHANGED <<running, shared, main, workers, conn, peer, dropped, fds, alive, sigints>>

\* The client shuts its sending side down, or closes or crashes.
Leave(c, how) ==
  /\ conn[c] \in {"backlog", "accepted"} /\ peer[c] # how /\ peer[c] # "gone"
  /\ peer' = [peer EXCEPT ![c] = how]
  /\ UNCHANGED <<running, shared, main, workers, conn, unread, sent, dropped, fds, alive,
                 sigints>>

\* SIGINT goes to the main thread.  The handler clears the flag; a blocked
\* sem_wait or accept then fails with EINTR and http_server_run returns.
Sigint ==
  /\ sigints < MaxSigints /\ mpc # "freed"
  /\ sigints' = sigints + 1
  /\ running' = FALSE
  /\ mpc' = IF mpc \in {"sem_blocked", "accept_blocked"} THEN "kill" ELSE mpc
  /\ lost' = IF mpc = "accept_blocked" THEN lost + 1 ELSE lost
  /\ UNCHANGED <<shared, held, killed, workers, clients, fds, alive>>

-----------------------------------------------------------------------------
(* http_server_run and the end of main *)

Main_(from, to) == mpc = from /\ mpc' = to

MainLoop ==
  /\ Main_("loop", IF running THEN "sem" ELSE "kill")
  /\ UNCHANGED <<running, shared, held, killed, lost, workers, clients, fds, alive, sigints>>

MainSem ==  \* sem_wait(&q_not_full)
  /\ mpc \in {"sem", "sem_blocked"}
  /\ permits > 0
  /\ mpc' = "accept" /\ permits' = permits - 1
  /\ UNCHANGED <<running, tokens, lock, queue, q_size, held, killed, lost, workers,
                 clients, fds, alive, sigints>>

MainSemBlocks ==
  /\ permits = 0
  /\ Main_("sem", "sem_blocked")
  /\ UNCHANGED <<running, shared, held, killed, lost, workers, clients, fds, alive, sigints>>

Backlog == {c \in Clients : conn[c] = "backlog"}

MainAccept(c) ==
  /\ mpc \in {"accept", "accept_blocked"}
  /\ c \in Backlog /\ Cardinality(fds) < MaxFds
  /\ mpc' = "lock" /\ held' = c
  /\ conn' = [conn EXCEPT ![c] = "accepted"]
  /\ fds' = fds \cup {c}
  /\ UNCHANGED <<running, shared, killed, lost, workers, peer, unread, sent, dropped, alive,
                 sigints>>

MainAcceptBlocks ==
  /\ Backlog = {}
  /\ Main_("accept", "accept_blocked")
  /\ UNCHANGED <<running, shared, held, killed, lost, workers, clients, fds, alive, sigints>>

\* accept fails: no descriptor is left (EMFILE), or the client has given up in
\* the backlog (ECONNABORTED).  `continue` goes back without posting q_not_full.
MainAcceptFails(c) ==
  /\ mpc \in {"accept", "accept_blocked"}
  /\ lost < MaxLost
  /\ c \in Backlog
  /\ \/ Cardinality(fds) >= MaxFds /\ conn' = conn
     \/ peer[c] = "gone" /\ conn' = [conn EXCEPT ![c] = "aborted"]
  /\ mpc' = "loop" /\ lost' = lost + 1
  /\ UNCHANGED <<running, shared, held, killed, workers, peer, unread, sent, dropped, fds,
                 alive, sigints>>

MutantMainLock ==  \* the queue is not locked for the push
  /\ Main_("lock", "push")
  /\ lock' = Main
  /\ UNCHANGED <<running, permits, tokens, queue, q_size, held, killed, lost, workers,
                 clients, fds, alive, sigints>>

MainLock ==
  /\ Main_("lock", "push")
  /\ lock = Nobody /\ lock' = Main
  /\ UNCHANGED <<running, permits, tokens, queue, q_size, held, killed, lost, workers,
                 clients, fds, alive, sigints>>

MutantMainPush ==  \* the client is stored, *q_size is not advanced
  /\ Main_("push", "post")
  /\ queue' = [queue EXCEPT ![q_size] = held]
  /\ held' = NoClient
  /\ UNCHANGED <<running, permits, tokens, lock, q_size, killed, lost, workers, clients,
                 fds, alive, sigints>>

MainPush ==
  /\ Main_("push", "post")
  /\ queue' = [queue EXCEPT ![q_size] = held]
  /\ q_size' = q_size + 1
  /\ held' = NoClient
  /\ UNCHANGED <<running, permits, tokens, lock, killed, lost, workers, clients, fds,
                 alive, sigints>>

MutantMainPost ==  \* the wrong semaphore is posted
  /\ Main_("post", "unlock")
  /\ permits' = permits + 1
  /\ UNCHANGED <<running, tokens, lock, queue, q_size, held, killed, lost, workers,
                 clients, fds, alive, sigints>>

MainPost ==
  /\ Main_("post", "unlock")
  /\ tokens' = tokens + 1
  /\ UNCHANGED <<running, permits, lock, queue, q_size, held, killed, lost, workers,
                 clients, fds, alive, sigints>>

MainUnlock ==
  /\ Main_("unlock", "loop")
  /\ lock' = Nobody
  /\ UNCHANGED <<running, permits, tokens, queue, q_size, held, killed, lost, workers,
                 clients, fds, alive, sigints>>

MutantMainKill(w) ==  \* SA_RESTART: the interrupted calls are restarted
  /\ mpc = "kill" /\ w \notin killed
  /\ killed' = killed \cup {w}
  /\ running' = FALSE
  /\ UNCHANGED <<shared, mpc, held, lost, workers, clients, fds, alive, sigints>>

\* pthread_kill: the handler runs in worker w.  Its sem_wait returns EINTR and
\* the worker ends; its recv returns EINTR and handle_client breaks its loop.
MainKill(w) ==
  /\ mpc = "kill" /\ w \notin killed
  /\ killed' = killed \cup {w}
  /\ running' = FALSE
  /\ wpc' = [wpc EXCEPT ![w] = CASE @ = "sem_blocked"  -> "exit"
                                 [] @ = "recv_blocked" -> "close"
                                 [] OTHER              -> @]
  /\ UNCHANGED <<shared, mpc, held, lost, cur, clients, fds, alive, sigints>>

MainJoin ==  \* every pthread_join has returned; the queue is freed
  /\ killed = Workers
  /\ \A w \in Workers : wpc[w] = "exit"
  /\ Main_("kill", "freed")
  /\ UNCHANGED <<running, shared, held, killed, lost, workers, clients, fds, alive, sigints>>

MainStep ==
  \/ MainLoop \/ MainSem \/ MainSemBlocks \/ MainAcceptBlocks
  \/ \E c \in Clients : MainAccept(c) \/ MainAcceptFails(c)
  \/ MainLock \/ MainPush \/ MainPost \/ MainUnlock
  \/ \E w \in Workers : MainKill(w)
  \/ MainJoin

-----------------------------------------------------------------------------
(* worker and handle_client *)

Go(w, from, to) == wpc[w] = from /\ wpc' = [wpc EXCEPT ![w] = to]

WorkerLoop(w) ==
  /\ Go(w, "loop", IF running THEN "sem" ELSE "exit")
  /\ UNCHANGED <<running, shared, main, cur, clients, fds, alive, sigints>>

WorkerSem(w) ==  \* sem_wait(&q_not_empty)
  /\ wpc[w] \in {"sem", "sem_blocked"}
  /\ tokens > 0
  /\ tokens' = tokens - 1
  /\ wpc' = [wpc EXCEPT ![w] = "lock"]
  /\ UNCHANGED <<running, permits, lock, queue, q_size, main, cur, clients, fds, alive, sigints>>

WorkerSemBlocks(w) ==
  /\ tokens = 0
  /\ Go(w, "sem", "sem_blocked")
  /\ UNCHANGED <<running, shared, main, cur, clients, fds, alive, sigints>>

WorkerLock(w) ==
  /\ Go(w, "lock", "pop")
  /\ lock = Nobody /\ lock' = w
  /\ UNCHANGED <<running, permits, tokens, queue, q_size, main, cur, clients, fds, alive, sigints>>

MutantWorkerPop(w) ==  \* the last client is popped
  /\ Go(w, "pop", "post")
  /\ cur' = [cur EXCEPT ![w] = queue[q_size - 1]]
  /\ q_size' = q_size - 1
  /\ UNCHANGED <<running, permits, tokens, lock, queue, main, clients, fds, alive, sigints>>

WorkerPop(w) ==  \* the other clients move one place down
  /\ Go(w, "pop", "post")
  /\ cur' = [cur EXCEPT ![w] = queue[0]]
  /\ queue' = [i \in Slots |-> IF i + 1 < q_size THEN queue[i + 1] ELSE queue[i]]
  /\ q_size' = q_size - 1
  /\ UNCHANGED <<running, permits, tokens, lock, main, clients, fds, alive, sigints>>

WorkerPost(w) ==
  /\ Go(w, "post", "unlock")
  /\ permits' = permits + 1
  /\ UNCHANGED <<running, tokens, lock, queue, q_size, main, cur, clients, fds, alive, sigints>>

WorkerUnlock(w) ==
  /\ Go(w, "unlock", "serve")
  /\ lock' = Nobody
  /\ UNCHANGED <<running, permits, tokens, queue, q_size, main, cur, clients, fds, alive, sigints>>

\* handle_client begins with getnameinfo; if it fails the client is dropped,
\* its socket still open.
ServeClient(w) ==
  /\ Go(w, "serve", "recv")
  /\ UNCHANGED <<running, shared, main, cur, clients, fds, alive, sigints>>

Drop(w, from) ==
  /\ Go(w, from, "loop")
  /\ cur' = [cur EXCEPT ![w] = NoClient]
  /\ dropped' = dropped \cup {cur[w]}
  /\ UNCHANGED <<running, shared, main, conn, peer, unread, sent, fds, alive, sigints>>

NameFails(w) == Drop(w, "serve")

RecvRequest(w) ==
  /\ wpc[w] \in {"recv", "recv_blocked"}
  /\ unread[cur[w]] > 0
  /\ unread' = [unread EXCEPT ![cur[w]] = @ - 1]
  /\ wpc' = [wpc EXCEPT ![w] = "reply"]
  /\ UNCHANGED <<running, shared, main, cur, conn, peer, sent, dropped, fds, alive, sigints>>

RecvBlocks(w) ==
  /\ wpc[w] = "recv" /\ unread[cur[w]] = 0 /\ peer[cur[w]] = "open"
  /\ Go(w, "recv", "recv_blocked")
  /\ UNCHANGED <<running, shared, main, cur, clients, fds, alive, sigints>>

\* End of stream or a recv error: handle_client returns, its socket still open.
RecvEnds(w) ==
  /\ wpc[w] \in {"recv", "recv_blocked"}
  /\ \/ peer[cur[w]] = "gone"
     \/ peer[cur[w]] = "fin" /\ unread[cur[w]] = 0
  /\ Drop(w, wpc[w])

Reply(w) ==
  /\ Go(w, "reply", "recv")
  /\ UNCHANGED <<running, shared, main, cur, clients, fds, alive, sigints>>

\* A send to a client that is gone raises SIGPIPE, which nothing handles.
ReplyKills(w) ==
  /\ wpc[w] = "reply" /\ peer[cur[w]] = "gone"
  /\ alive' = FALSE
  /\ UNCHANGED <<running, shared, main, workers, clients, fds, sigints>>

CloseClient(w) ==
  /\ Go(w, "close", "loop")
  /\ fds' = fds \ {cur[w]}
  /\ cur' = [cur EXCEPT ![w] = NoClient]
  /\ UNCHANGED <<running, shared, main, clients, alive, sigints>>

WorkerStep(w) ==
  \/ WorkerLoop(w) \/ WorkerSem(w) \/ WorkerSemBlocks(w) \/ WorkerLock(w) \/ WorkerPop(w)
  \/ WorkerPost(w) \/ WorkerUnlock(w) \/ ServeClient(w) \/ NameFails(w) \/ RecvRequest(w)
  \/ RecvBlocks(w) \/ RecvEnds(w) \/ Reply(w) \/ ReplyKills(w) \/ CloseClient(w)

ClientStep(c) == Connect(c) \/ Request(c) \/ Leave(c, "fin") \/ Leave(c, "gone")

Next == /\ alive
        /\ \/ MainStep
           \/ \E w \in Workers : WorkerStep(w)
           \/ \E c \in Clients : ClientStep(c)
           \/ Sigint

Spec == Init /\ [][Next]_vars

\* Runnable threads run; clients that are not stubborn leave some day.  Nothing
\* is assumed of which waiter a post wakes, nor that anybody connects.
FairSpec == /\ Spec
            /\ WF_vars(alive /\ MainStep)
            /\ \A w \in Workers : WF_vars(alive /\ WorkerStep(w))
            /\ \A c \in Clients \ Stubborn :
                 WF_vars(alive /\ (Leave(c, "fin") \/ Leave(c, "gone")))

-----------------------------------------------------------------------------
(* Properties *)

MainBusy(places) == IF mpc \in places THEN 1 ELSE 0

\* Permits are conserved: a place of the queue is counted by q_not_full, taken
\* by main, occupied by a client, freed by a worker that has not posted it yet,
\* or lost for good by an accept that failed; a queued client is counted by
\* q_not_empty, not yet announced by main, or claimed by a worker
\* (http_server.c:165-177, 234-263).
PermitsConserved ==
  /\ permits + MainBusy({"accept", "accept_blocked", "lock", "push"}) + q_size
       + Count(wpc, Workers, {"post"}) + lost = QSize
  /\ tokens + MainBusy({"post"}) + Count(wpc, Workers, {"lock", "pop"}) = q_size

\* w_mutex is owned by the thread inside the critical section and by no other,
\* so push and pop never overlap (http_server.c:172-177, 258-263).
LockHeld ==
  /\ \A w \in Workers : lock = w <=> wpc[w] \in {"pop", "post", "unlock"}
  /\ lock = Main <=> mpc \in {"push", "post", "unlock"}

\* A push finds a free element of the array, a pop finds a client in it: the
\* queue code itself checks neither (http_server.c:191-217).
QueueInBounds ==
  /\ mpc = "push" => q_size < QSize
  /\ \A w \in Workers : wpc[w] = "pop" => q_size > 0

\* The threads see the queue as a FIFO of max_q_size clients: one producer,
\* main; consumers that ask once they hold a token of q_not_empty.
Waiting == [i \in 1 .. q_size |-> queue[i - 1]]
Accepted == [m \in {Main} |-> held]
Asking == [w \in Workers |-> wpc[w] \in {"lock", "pop"}]
Fifo == INSTANCE BoundedFifo WITH
          Producers <- {Main}, Consumers <- Workers, Items <- Clients,
          NoItem <- NoClient, N <- QSize,
          queue <- Waiting, pending <- Accepted,
          asking <- Asking, taken <- cur

\* Clients are handed to the workers in the order in which they were accepted.
ServesInOrder == Fifo!Spec

\* From accept on a client whose socket is open is with main, in the queue or
\* with one worker, exactly once: none is lost on the way and no two workers
\* serve one socket.  The exception is a client that its worker has dropped
\* without a close, when getnameinfo failed or recv found the end or an error
\* (285, 294): that client is in no hand ever again and its socket stays open.
Holders(c) == Hands(c, Waiting, Accepted, cur, {Main}, Workers)
OneHolder ==
  \A c \in Clients : /\ c \in fds => conn[c] = "accepted"
                     /\ c \in dropped => c \in fds
                     /\ Holders(c) = IF c \in fds \ dropped THEN 1 ELSE 0

\* While accept does not fail and nobody sends ^C, every client that connects is
\* given to a worker, if some worker is not held by a stubborn client.
EveryClientTaken ==
  \A c \in Clients \ Stubborn :
    conn[c] = "backlog" ~> (\E w \in Workers : cur[w] = c) \/ ~running \/ ~alive

\* ^C ends the server when it comes while every worker is blocked or has ended,
\* unless a client breaks the silence before the signals have reached them: no
\* EINTR is swallowed (http_server.c:105-113, 165-171, 296-299).
AtRest ==
  /\ mpc = "kill" /\ killed = {} /\ tokens = 0
  /\ \A w \in Workers : wpc[w] \in {"sem_blocked", "recv_blocked", "exit"}
Silent == \A c \in Clients : unread[c] = 0
RestShutdownEnds == AtRest ~> mpc = "freed" \/ ~Silent \/ ~alive
=============================================================================
