--------------------------- MODULE PerConnection ---------------------------
(* The servers that give a whole connection to one reader: echoserveri       *)
(* itself, echoserverp and the forking web server labs/webserver-handout a   *)
(* child process, echoservert a thread.  A client sends lines, or one        *)
(* request to the web server, then ends its side, or vanishes (a reset); the *)
(* server echoes each line, or answers and closes.                           *)
(*                                                                           *)
(* A connection is open for the client as long as any process holds a        *)
(* descriptor of it.  Not modelled: a process that runs out of descriptors.  *)
EXTENDS Integers, Sequences, FiniteSets

CONSTANTS Clients, MaxLines, None,
          MaxForkFailures,    \* bound: calls of fork that fail
          Stubborn            \* clients that may stay for ever

ASSUME ConnectionAssumption ==
  /\ None \notin Clients /\ Stubborn \subseteq Clients
  /\ MaxLines \in Nat /\ MaxForkFailures \in Nat

VARIABLES server,          \* the program
          peer,            \* of each client: "idle", "up", "done" or "gone"
          sent, unread,    \* lines sent; those still in the kernel
          got,             \* the lines that came back
          main,            \* place in main and its variable connfd
          held,            \* per process, the connections it has open
          reader,         \* of each accepted client: place of its reader
          conn, line,      \* the reader's descriptor and buffer
          pending, reaping,    \* SIGCHLD, and whether its handler runs
          forkFailures,
          unserved         \* clients given up: not forked for, or their name not found

clientVars == <<peer, sent>>
childVars == <<pending, reaping, forkFailures, unserved>>
connVars == <<server, clientVars, unread, got, main, held, reader, conn, line, childVars>>

Programs == {"echoserveri", "echoserverp", "echoservert", "http_server"}
Forks == server \in {"echoserverp", "http_server"}
Proc(c) == IF Forks THEN c ELSE "main"
Running(c) == Forks \/ main.place # "exit"

PcInit ==
  /\ server \in Programs
  /\ peer = [c \in Clients |-> "idle"] /\ sent = [c \in Clients |-> 0]
  /\ unread = [c \in Clients |-> <<>>] /\ got = [c \in Clients |-> <<>>]
  /\ main = [place |-> "start", connfd |-> None]
  /\ held = [p \in Clients \cup {"main"} |-> {}]
  /\ reader = [c \in Clients |-> "none"] /\ conn = [c \in Clients |-> None]
  /\ line = [c \in Clients |-> 0]
  /\ pending = FALSE /\ reaping = FALSE /\ forkFailures = 0 /\ unserved = {}

-----------------------------------------------------------------------------
(* The clients. *)

Connect(c) ==
  /\ peer[c] = "idle" /\ main.place \notin {"start", "refused", "exit"}
  /\ peer' = [peer EXCEPT ![c] = "up"]
  /\ UNCHANGED <<server, sent, unread, got, main, held, reader, conn, line, childVars>>

SendLine(c) ==
  /\ peer[c] = "up" /\ sent[c] < IF server = "http_server" THEN 1 ELSE MaxLines
  /\ sent' = [sent EXCEPT ![c] = @ + 1]
  /\ unread' = [unread EXCEPT ![c] = Append(@, sent'[c])]
  /\ UNCHANGED <<server, peer, got, main, held, reader, conn, line, childVars>>

Leave(c, how) ==
  /\ peer[c] = "up" /\ peer' = [peer EXCEPT ![c] = how]
  /\ UNCHANGED <<server, sent, unread, got, main, held, reader, conn, line, childVars>>

-----------------------------------------------------------------------------
(* main. *)

MainGoes(place) == main' = [main EXCEPT !.place = place]
At(place) == main.place = place /\ ~reaping

\* open_listenfd and create_server_socket: no address can be bound, and the
\* program exits, or it listens.
OpenListenfd ==
  /\ At("start") /\ server # "http_server" /\ \E p \in {"accept", "refused"} : MainGoes(p)
  /\ UNCHANGED <<server, clientVars, unread, got, held, reader, conn, line, childVars>>
CreateServerSocket ==
  /\ At("start") /\ server = "http_server" /\ \E p \in {"accept", "refused"} : MainGoes(p)
  /\ UNCHANGED <<server, clientVars, unread, got, held, reader, conn, line, childVars>>

AfterAccept == CASE server = "echoserveri" -> "serve" [] server = "echoservert" -> "create"
                 [] OTHER -> "fork"

Accept(c) ==
  /\ At("accept") /\ peer[c] # "idle" /\ reader[c] = "none"
  /\ main' = [place |-> AfterAccept, connfd |-> c]
  /\ held' = [held EXCEPT !["main"] = @ \cup {c}]
  /\ reader' = [reader EXCEPT ![c] = IF server = "echoserveri" THEN "start" ELSE "taken"]
  /\ conn' = [conn EXCEPT ![c] = IF server = "echoserveri" THEN c ELSE None]
  /\ UNCHANGED <<server, clientVars, unread, got, line, childVars>>

\* The child has a copy of every descriptor of its parent.
ForkChild ==
  /\ At("fork") /\ MainGoes("close")
  /\ reader' = [reader EXCEPT ![main.connfd] = "start"]
  /\ held' = [held EXCEPT ![main.connfd] = held["main"]]
  /\ UNCHANGED <<server, clientVars, unread, got, conn, line, childVars>>

\* Fork exits; the web server forgets the descriptor, which stays open.
ForkFails ==
  /\ At("fork") /\ forkFailures < MaxForkFailures /\ forkFailures' = forkFailures + 1
  /\ IF server = "http_server"
       THEN MainGoes("accept") /\ unserved' = unserved \cup {main.connfd} /\ UNCHANGED held
       ELSE MainGoes("exit") /\ held' = [held EXCEPT !["main"] = {}] /\ UNCHANGED unserved
  /\ UNCHANGED <<server, clientVars, unread, got, reader, conn, line, pending, reaping>>

MutantParentClose ==      \* the child is waited for first
  /\ At("close") /\ reader[main.connfd] \in {"zombie", "reaped"} /\ MainGoes("accept")
  /\ held' = [held EXCEPT !["main"] = @ \ {main.connfd}]
  /\ UNCHANGED <<server, clientVars, unread, got, reader, conn, line, childVars>>

ParentClose ==
  /\ At("close") /\ MainGoes("accept")
  /\ held' = [held EXCEPT !["main"] = @ \ {main.connfd}]
  /\ UNCHANGED <<server, clientVars, unread, got, reader, conn, line, childVars>>

PthreadCreate ==
  /\ At("create") /\ MainGoes("accept")
  /\ reader' = [reader EXCEPT ![main.connfd] = "start"]
  /\ UNCHANGED <<server, clientVars, unread, got, held, conn, line, childVars>>

\* echoserverp's accept is started again (SA_RESTART) and the web server's
\* returns to the loop, so the handler returns to where main was.
Sigchld ==
  /\ pending /\ ~reaping /\ main.place # "exit"
  /\ pending' = FALSE /\ reaping' = TRUE
  /\ UNCHANGED <<server, clientVars, unread, got, main, held, reader, conn, line, forkFailures, unserved>>

MutantAgain == FALSE      \* if, not while
Again == TRUE

\* waitpid reaps one child at a time.
Reap(c) ==
  /\ reaping /\ reader[c] = "zombie"
  /\ reader' = [reader EXCEPT ![c] = "reaped"] /\ reaping' = Again
  /\ UNCHANGED <<server, clientVars, unread, got, main, held, conn, line, pending, forkFailures, unserved>>

HandlerReturns ==
  /\ reaping /\ (\A c \in Clients : reader[c] # "zombie") /\ reaping' = FALSE
  /\ UNCHANGED <<server, clientVars, unread, got, main, held, reader, conn, line, pending, forkFailures, unserved>>

MainStep ==
  \/ OpenListenfd \/ CreateServerSocket \/ ForkChild \/ ForkFails \/ ParentClose \/ PthreadCreate
  \/ \E c \in Clients : Accept(c)
SignalStep == Sigchld \/ HandlerReturns \/ \E c \in Clients : Reap(c)

-----------------------------------------------------------------------------
(* The reader of c: echo, or handle_client of the web server. *)

ReaderAt(c, place) == Running(c) /\ reader[c] = place

\* *vargp is a cell of its own for every connection.
MutantArg(c) == main.connfd      \* the address of one variable of main
Arg(c) == c

Start(c) ==
  /\ ReaderAt(c, "start") /\ reader' = [reader EXCEPT ![c] = "read"]
  /\ conn' = [conn EXCEPT ![c] = IF Forks THEN c ELSE Arg(c)]
  /\ UNCHANGED <<server, clientVars, unread, got, main, held, line, childVars>>

\* getnameinfo comes before the first read: the web server's child returns from
\* handle_client and ends, echoserveri exits.
NameFails(c) ==
  /\ ReaderAt(c, "start") /\ server \in {"http_server", "echoserveri"}
  /\ unserved' = unserved \cup {c}
  /\ IF Forks THEN reader' = [reader EXCEPT ![c] = "exit"] /\ UNCHANGED <<main, held>>
              ELSE MainGoes("exit") /\ held' = [held EXCEPT !["main"] = {}] /\ UNCHANGED reader
  /\ UNCHANGED <<server, clientVars, unread, got, conn, line, pending, reaping, forkFailures>>

ReadLine(c) ==
  /\ ReaderAt(c, "read") /\ unread[conn[c]] # <<>>
  /\ line' = [line EXCEPT ![c] = Head(unread[conn[c]])]
  /\ unread' = [unread EXCEPT ![conn[c]] = Tail(@)]
  /\ reader' = [reader EXCEPT ![c] = "write"]
  /\ UNCHANGED <<server, clientVars, got, main, held, conn, childVars>>

ReadEof(c) ==
  /\ ReaderAt(c, "read") /\ unread[conn[c]] = <<>> /\ peer[conn[c]] = "done"
  /\ reader' = [reader EXCEPT ![c] = "close"]
  /\ UNCHANGED <<server, clientVars, unread, got, main, held, conn, line, childVars>>

Write(c) ==
  /\ ReaderAt(c, "write") /\ got' = [got EXCEPT ![conn[c]] = Append(@, line[c])]
  /\ reader' = [reader EXCEPT ![c] = IF server = "http_server" THEN "close" ELSE "read"]
  /\ UNCHANGED <<server, clientVars, unread, main, held, conn, line, childVars>>

Close(c) ==
  /\ ReaderAt(c, "close")
  /\ held' = [held EXCEPT ![Proc(c)] = @ \ {conn[c]}]
  /\ reader' = [reader EXCEPT ![c] = IF Forks THEN "exit" ELSE "ended"]
  /\ IF server = "echoserveri" THEN MainGoes("accept") ELSE UNCHANGED main
  /\ UNCHANGED <<server, clientVars, unread, got, conn, line, childVars>>

\* The process ends; the parent of a child is told.
Ends(c) ==
  /\ held' = [held EXCEPT ![Proc(c)] = {}]
  /\ IF Forks THEN reader' = [reader EXCEPT ![c] = "zombie"] /\ pending' = TRUE /\ UNCHANGED main
              ELSE MainGoes("exit") /\ UNCHANGED <<reader, pending>>
  /\ UNCHANGED <<server, clientVars, unread, got, conn, line, reaping, forkFailures, unserved>>

Exit(c) == ReaderAt(c, "exit") /\ Ends(c)

\* Rio_readlineb and Rio_writen exit when the peer has reset the connection, and
\* SIGPIPE ends the process; the web server's child returns from its recv.
PeerGone(c) ==
  /\ reader[c] \in {"read", "write"} /\ Running(c) /\ peer[conn[c]] = "gone" /\ Ends(c)

ReaderStep(c) ==
  Start(c) \/ NameFails(c) \/ ReadLine(c) \/ ReadEof(c) \/ Write(c) \/ Close(c) \/ Exit(c) \/ PeerGone(c)

ClientStep(c) == Connect(c) \/ SendLine(c) \/ \E how \in {"done", "gone"} : Leave(c, how)

PcNext ==
  MainStep \/ SignalStep \/ \E c \in Clients : ReaderStep(c) \/ ClientStep(c)

PcSpec == PcInit /\ [][PcNext]_connVars

-----------------------------------------------------------------------------
(* Properties *)

\* Every client gets its own lines back in the order it sent them: no two readers
\* share a connection, whoever is scheduled first (echoservert.c:25-34).
EchoedInOrder == \A c \in Clients : \A k \in DOMAIN got[c] : got[c][k] = k

\* What the code does not survive: it cannot listen, echoserverp cannot fork, the
\* web server cannot fork for c or find its name, a client of a server of one
\* process is reset or has no name; and echoserveri serves nobody else while it
\* serves a client that stays.
Excused(c) ==
  \/ main.place = "refused" \/ peer[c] = "gone" \/ c \in unserved
  \/ server = "echoserverp" /\ forkFailures > 0
  \/ ~Forks /\ (unserved # {} \/ \E d \in Clients : peer[d] = "gone")
  \/ server = "echoserveri" /\ main.place = "serve" /\ main.connfd \in Stubborn \ {c}

Open(c) == \E p \in DOMAIN held : c \in held[p]

\* A client that has sent all and ended its side gets all its answers and then
\* the end of the connection: every copy of its descriptor is closed, in the
\* parent too (echoserverp.c:37, http_server.c:119).  A client that stays for
\* ever, or is reset, does not keep a server with a child or thread per
\* connection from doing so for the others: nobody waits for a reader.
ConnectionsEnd ==
  \A c \in Clients :
    peer[c] = "done" ~>
      Excused(c) \/ (reader[c] # "none" /\ ~Open(c) /\ Len(got[c]) = sent[c])

\* Every child that ends is reaped, also when several SIGCHLD are merged into
\* one (echoserverp.c:8-13, http_server.c:73-79).
ChildrenReaped ==
  \A c \in Clients : reader[c] = "zombie" ~> reader[c] = "reaped" \/ main.place = "exit"
=============================================================================
