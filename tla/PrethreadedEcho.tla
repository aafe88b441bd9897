-------------------------- MODULE PrethreadedEcho --------------------------
(* The prethreaded echo server, hw/hw9/echoservert_pre.c with echo_cnt.c:    *)
(* the main thread accepts connections and inserts them in the shared buffer *)
(* (SBuf, whose steps are steps here), NTHREADS workers remove them, echo    *)
(* each line and count what they received under echo_cnt's own mutex.        *)
(* A line stands for n bytes; the counter counts lines.                      *)
EXTENDS SBuf

CONSTANTS Stubborn,  \* clients that may keep their connection open for ever
          MaxLines   \* bound: lines a client sends

\* One thread runs main; some worker is left when each stubborn client has one.
ASSUME EchoAssumption ==
  /\ Cardinality(Producers) = 1
  /\ Stubborn \subseteq Items
  /\ Cardinality(Stubborn) < Cardinality(Consumers)
  /\ MaxLines \in Nat

VARIABLES conn,      \* each client's connection
          peer,      \* the client's end: it sends, it has sent FIN, it is gone
          unread,    \* lines sent and not yet read by the server
          sent,      \* lines sent
          place,     \* where a worker is in thread() and echo_cnt()
          once,      \* the pthread_once_t of echo_cnt.c:22
          cntMutex,  \* echo_cnt.c's mutex
          byte_cnt,  \* echo_cnt.c's counter
          loaded,    \* what a worker read byte_cnt as, inside +=
          linesRead, \* how many lines the workers have received (history)
          alive      \* the process has not exited

sbuf    == vars
clients == <<conn, peer, unread, sent>>
counter == <<once, cntMutex, byte_cnt, loaded, linesRead>>
evars   == <<sbuf, clients, place, counter, alive>>

EchoInit ==
  /\ Init
  /\ conn = [c \in Items |-> "new"]
  /\ peer = [c \in Items |-> "open"]
  /\ unread = [c \in Items |-> 0]
  /\ sent = [c \in Items |-> 0]
  /\ place = [w \in Consumers |-> "remove"]
  /\ once = "never"
  /\ cntMutex = 0          \* a static sem_t, all zero until Sem_init
  /\ byte_cnt = 0
  /\ loaded = [w \in Consumers |-> 0]
  /\ linesRead = 0
  /\ alive = TRUE

-----------------------------------------------------------------------------
(* The clients (outside the program) *)

Connect(c) ==
  /\ conn[c] = "new"
  /\ conn' = [conn EXCEPT ![c] = "backlog"]
  /\ UNCHANGED <<sbuf, peer, unread, sent, place, counter, alive>>

SendLine(c) ==
  /\ conn[c] \in {"backlog", "accepted"} /\ peer[c] = "open" /\ sent[c] < MaxLines
  /\ sent' = [sent EXCEPT ![c] = @ + 1]
  /\ unread' = [unread EXCEPT ![c] = @ + 1]
  /\ UNCHANGED <<sbuf, conn, peer, place, counter, alive>>

\* The client sends FIN and still reads, or is gone: closed or crashed.
Leave(c, how) ==
  /\ conn[c] \in {"backlog", "accepted"} /\ peer[c] # how /\ peer[c] # "gone"
  /\ peer' = [peer EXCEPT ![c] = how]
  /\ UNCHANGED <<sbuf, conn, unread, sent, place, counter, alive>>

(* The main thread, echoservert_pre.c:32-36 *)

AcceptInsert(m, c) ==
  /\ conn[c] = "backlog"
  /\ conn' = [conn EXCEPT ![c] = "accepted"]
  /\ CallInsert(m, c)
  /\ UNCHANGED <<peer, unread, sent, place, counter, alive>>

MainInBuffer(m) ==
  /\ InsertStep(m)
  /\ UNCHANGED <<clients, place, counter, alive>>

(* A worker, echoservert_pre.c:39-47 *)

WorkerInBuffer(w) ==
  /\ place[w] = "remove"
  /\ CallRemove(w) \/ RemoveStep(w)
  /\ UNCHANGED <<clients, place, counter, alive>>

Move(w, from, to) == place[w] = from /\ place' = [place EXCEPT ![w] = to]

EnterEcho(w) ==
  /\ pc[w] = "idle" /\ item[w] # NoItem
  /\ Move(w, "remove", "once")
  /\ UNCHANGED <<sbuf, clients, counter, alive>>

(* echo_cnt(connfd): pthread_once runs init_echo_cnt in the first caller and *)
(* makes the others wait until it has returned.                              *)
OnceFirst(w) ==
  /\ once = "never"
  /\ once' = "running"
  /\ Move(w, "once", "init")
  /\ UNCHANGED <<sbuf, clients, cntMutex, byte_cnt, loaded, linesRead, alive>>

InitEchoCnt(w) ==
  /\ Move(w, "init", "read")
  /\ cntMutex' = 1
  /\ byte_cnt' = 0
  /\ once' = "done"
  /\ UNCHANGED <<sbuf, clients, loaded, linesRead, alive>>

MutantOnceDone(w) ==  \* each caller initialises: no pthread_once
  /\ Move(w, "once", IF once = "done" THEN "init" ELSE "read")
  /\ UNCHANGED <<sbuf, clients, counter, alive>>

OnceDone(w) ==
  /\ once = "done"
  /\ Move(w, "once", "read")
  /\ UNCHANGED <<sbuf, clients, counter, alive>>

ReadLine(w) ==
  /\ Move(w, "read", "lock")
  /\ unread[item[w]] > 0
  /\ unread' = [unread EXCEPT ![item[w]] = @ - 1]
  /\ linesRead' = linesRead + 1
  /\ UNCHANGED <<sbuf, conn, peer, sent, once, cntMutex, byte_cnt, loaded, alive>>

ReadEof(w) ==
  /\ Move(w, "read", "close")
  /\ peer[item[w]] # "open" /\ unread[item[w]] = 0
  /\ UNCHANGED <<sbuf, clients, counter, alive>>

LockCounter(w) ==
  /\ cntMutex > 0
  /\ cntMutex' = cntMutex - 1
  /\ Move(w, "lock", "load")
  /\ UNCHANGED <<sbuf, clients, once, byte_cnt, loaded, linesRead, alive>>

LoadCounter(w) ==
  /\ loaded' = [loaded EXCEPT ![w] = byte_cnt]
  /\ Move(w, "load", "store")
  /\ UNCHANGED <<sbuf, clients, once, cntMutex, byte_cnt, linesRead, alive>>

StoreCounter(w) ==
  /\ byte_cnt' = loaded[w] + 1
  /\ loaded' = [loaded EXCEPT ![w] = 0]
  /\ Move(w, "store", "unlock")
  /\ UNCHANGED <<sbuf, clients, once, cntMutex, linesRead, alive>>

MutantUnlockCounter(w) ==  \* V(&mutex) is missing
  /\ Move(w, "unlock", "write")
  /\ UNCHANGED <<sbuf, clients, counter, alive>>

UnlockCounter(w) ==
  /\ cntMutex' = cntMutex + 1
  /\ Move(w, "unlock", "write")
  /\ UNCHANGED <<sbuf, clients, once, byte_cnt, loaded, linesRead, alive>>

WriteLine(w) ==
  /\ Move(w, "write", "read")
  /\ UNCHANGED <<sbuf, clients, counter, alive>>

\* A client that is gone makes the wrappers Rio_readlineb and Rio_writen call
\* unix_error, or the write raise SIGPIPE: the whole process exits.
PeerKillsServer(w) ==
  /\ place[w] \in {"read", "write"}
  /\ peer[item[w]] = "gone"
  /\ alive' = FALSE
  /\ UNCHANGED <<sbuf, clients, place, counter>>

MutantCloseConn(w) ==  \* the worker goes on with the descriptor it has closed
  /\ Move(w, "close", "once")
  /\ conn' = [conn EXCEPT ![item[w]] = "done"]
  /\ UNCHANGED <<sbuf, peer, unread, sent, counter, alive>>

CloseConn(w) ==
  /\ Move(w, "close", "remove")
  /\ conn' = [conn EXCEPT ![item[w]] = "done"]
  /\ Done(w)
  /\ UNCHANGED <<peer, unread, sent, counter, alive>>

WorkerStep(w) ==
  \/ WorkerInBuffer(w) \/ EnterEcho(w) \/ OnceFirst(w) \/ InitEchoCnt(w) \/ OnceDone(w)
  \/ ReadLine(w) \/ ReadEof(w) \/ LockCounter(w) \/ LoadCounter(w) \/ StoreCounter(w)
  \/ UnlockCounter(w) \/ WriteLine(w) \/ PeerKillsServer(w) \/ CloseConn(w)

MainStep(m) == MainInBuffer(m) \/ \E c \in Items : AcceptInsert(m, c)

ClientStep(c) == Connect(c) \/ SendLine(c) \/ Leave(c, "fin") \/ Leave(c, "gone")

EchoNext == /\ alive
            /\ \/ \E m \in Producers : MainStep(m)
               \/ \E w \in Consumers : WorkerStep(w)
               \/ \E c \in Items : ClientStep(c)

EchoSpec == EchoInit /\ [][EchoNext]_evars

\* The scheduler runs every runnable thread; a client that is not stubborn
\* ends its connection some day.  No order among waiters is assumed.
EchoFairSpec ==
  /\ EchoSpec
  /\ \A m \in Producers : WF_evars(alive /\ MainStep(m))
  /\ \A w \in Consumers : WF_evars(alive /\ WorkerStep(w))
  /\ \A c \in Items \ Stubborn : WF_evars(alive /\ (Leave(c, "fin") \/ Leave(c, "gone")))

-----------------------------------------------------------------------------
(* Properties *)

\* A descriptor is in one hand at a time: between accept and close exactly one
\* of main's insert, the buffer and the workers has it, and after its close
\* none does, so no worker echoes on or closes another worker's connection.
OneOwner == \A c \in Items : Holders(c) = IF conn[c] = "accepted" THEN 1 ELSE 0

\* byte_cnt misses no line and counts none twice, whatever the interleaving of
\* the workers and of the one-time initialisation (echo_cnt.c:24-31).
CountExact ==
  byte_cnt + Count(place, Consumers, {"lock", "load", "store"}) = linesRead

\* Every client that connects is served to the end and closed, or the process
\* has exited: a full buffer delays clients but loses none, and stubborn
\* clients fewer than the workers starve nobody else.
EveryClientServed ==
  \A c \in Items \ Stubborn : conn[c] = "backlog" ~> conn[c] = "done" \/ ~alive
=============================================================================
