----------------------------- MODULE SelectPool -----------------------------
(* The select-based echo server hw/hw8/echoservers.c and the buffered reader *)
(* of csapp.c it uses: one thread, a pool of descriptors, one line per ready *)
(* client and round.                                                         *)
(*                                                                           *)
(* A line is two units, the second ends with the newline, so that a read may *)
(* end inside a line.  Lines are shorter than MAXLINE and what a client has  *)
(* sent fits in a rio buffer; a client reads what is echoed to it, so a      *)
(* write does not block.  The error-handling wrappers end the process.  With *)
(* more descriptors than FD_SETSIZE the fd_sets would overflow: OpenMax is   *)
(* taken to be at most FdSetSize, as it is by default.                       *)
EXTENDS Integers, Sequences, FiniteSets, SequencesExt

CONSTANTS Clients,
          FdSetSize,  \* FD_SETSIZE: slots of the pool, and size of an fd_set
          Listen,     \* listenfd; the descriptors below it are in use
          OpenMax,    \* descriptors a process may have (RLIMIT_NOFILE)
          Pipeliners, \* clients that do not wait for the echo
          Resets,     \* clients that may close or crash, not only finish
          MaxLines    \* bound: lines per client

ASSUME SelectAssumption ==
  /\ IsFiniteSet(Clients) /\ Pipeliners \subseteq Clients /\ Resets \subseteq Clients
  /\ FdSetSize \in Nat /\ Listen \in Nat \ {0} /\ OpenMax \in Nat /\ MaxLines \in Nat
  /\ Listen < OpenMax /\ OpenMax <= FdSetSize

VARIABLES pc, i,                         \* the place in main, and in check_clients
          ready_set, nready, read_set, maxfd, maxi, clientfd, \* the pool
          line,                          \* what Rio_readlineb has read of its line
          byte_cnt,
          conn, fd, peer, inbox,         \* each client's connection and descriptor
          sent, got                      \* the units it has sent and been echoed

pool == <<ready_set, nready, read_set, maxfd, maxi, clientfd>>
sockets == <<conn, fd, peer, inbox>>
vars == <<pc, i, pool, line, byte_cnt, sockets, sent, got>>

NoFd == -1
Slots == 0 .. FdSetSize - 1
Units == (1 .. MaxLines) \X {1, 2}
Open == {c \in Clients : conn[c] = "open"}
Backlog == {c \in Clients : conn[c] = "backlog"}

Init ==  \* init_pool
  /\ pc = "select" /\ i = 0
  /\ ready_set = {} /\ nready = 0
  /\ read_set = {Listen} /\ maxfd = Listen /\ maxi = -1
  /\ clientfd = [s \in Slots |-> NoFd]
  /\ line = <<>> /\ byte_cnt = 0
  /\ conn = [c \in Clients |-> "new"] /\ fd = [c \in Clients |-> NoFd]
  /\ peer = [c \in Clients |-> "open"]
  /\ inbox = [c \in Clients |-> <<>>]
  /\ sent = [c \in Clients |-> <<>>] /\ got = [c \in Clients |-> <<>>]

-----------------------------------------------------------------------------
(* The clients *)

Connect(c) ==
  /\ conn[c] = "new"
  /\ conn' = [conn EXCEPT ![c] = "backlog"]
  /\ UNCHANGED <<pc, i, pool, line, byte_cnt, fd, peer, inbox, sent, got>>

InLine(c) == sent[c] # <<>> /\ Last(sent[c])[2] = 1

Send(c, data) ==
  /\ conn[c] \in {"backlog", "open"} /\ peer[c] = "open"
  /\ sent' = [sent EXCEPT ![c] = @ \o data]
  /\ inbox' = [inbox EXCEPT ![c] = @ \o data]
  /\ UNCHANGED <<pc, i, pool, line, byte_cnt, conn, fd, peer, got>>

\* A new line; a client that does not pipeline has read the echo of the last.
SendLine(c) ==
  LET n == Len(sent[c]) \div 2 + 1 IN
  /\ ~InLine(c) /\ n <= MaxLines /\ (c \in Pipeliners \/ got[c] = sent[c])
  /\ \/ Send(c, <<<<n, 1>>>>)
     \/ Send(c, <<<<n, 1>>, <<n, 2>>>>)

SendRest(c) == InLine(c) /\ Send(c, <<<<Last(sent[c])[1], 2>>>>)

Leave(c, how) ==
  /\ conn[c] \in {"backlog", "open"} /\ peer[c] # how /\ peer[c] # "gone"
  /\ how = "gone" => c \in Resets
  /\ peer' = [peer EXCEPT ![c] = how]
  /\ UNCHANGED <<pc, i, pool, line, byte_cnt, conn, fd, inbox, sent, got>>

-----------------------------------------------------------------------------
(* main *)

Readable == {fd[c] : c \in {d \in Open : inbox[d] # <<>> \/ peer[d] # "open"}}
            \cup (IF Backlog # {} THEN {Listen} ELSE {})

Select ==  \* it looks at the descriptors up to maxfd
  LET ready == Readable \cap read_set \cap 0 .. maxfd IN
  /\ pc = "select" /\ ready # {}
  /\ ready_set' = ready /\ nready' = Cardinality(ready)
  /\ pc' = IF Listen \in ready THEN "accept" ELSE "check"
  /\ i' = 0
  /\ UNCHANGED <<read_set, maxfd, maxi, clientfd, line, byte_cnt, sockets, sent, got>>

Least(S) == CHOOSE x \in S : \A y \in S : x <= y
Greater(x, y) == IF x > y THEN x ELSE y
FreeFds == (Listen + 1 .. OpenMax - 1) \ {fd[c] : c \in Open}

MutantAddClient(c) ==  \* nready still counts the listening descriptor
  LET f == Least(FreeFds)
      s == Least({t \in Slots : clientfd[t] < 0})
  IN
  /\ pc = "accept" /\ c \in Backlog /\ FreeFds # {}
  /\ conn' = [conn EXCEPT ![c] = "open"] /\ fd' = [fd EXCEPT ![c] = f]
  /\ clientfd' = [clientfd EXCEPT ![s] = f]
  /\ read_set' = read_set \cup {f}
  /\ maxfd' = Greater(f, maxfd) /\ maxi' = Greater(s, maxi)
  /\ pc' = "check"
  /\ UNCHANGED <<i, nready, ready_set, line, byte_cnt, peer, inbox, sent, got>>

\* Accept, which gives the lowest free descriptor, and add_client.
AddClient(c) ==
  LET f == Least(FreeFds)
      s == Least({t \in Slots : clientfd[t] < 0})
  IN
  /\ pc = "accept" /\ c \in Backlog /\ FreeFds # {}
  /\ conn' = [conn EXCEPT ![c] = "open"] /\ fd' = [fd EXCEPT ![c] = f]
  /\ nready' = nready - 1
  /\ clientfd' = [clientfd EXCEPT ![s] = f]
  /\ read_set' = read_set \cup {f}
  /\ maxfd' = Greater(f, maxfd) /\ maxi' = Greater(s, maxi)
  /\ pc' = "check"
  /\ UNCHANGED <<i, ready_set, line, byte_cnt, peer, inbox, sent, got>>

Exit == pc' = "exit" /\ UNCHANGED <<i, pool, line, byte_cnt, sockets, sent, got>>

AcceptFails == pc = "accept" /\ FreeFds = {} /\ Exit  \* EMFILE

-----------------------------------------------------------------------------
(* check_clients *)

InLoop == pc = "check" /\ i <= maxi /\ nready > 0

MutantCheckDone ==  \* i < maxi
  /\ pc = "check" /\ (i >= maxi \/ nready = 0)
  /\ pc' = "select"
  /\ UNCHANGED <<i, pool, line, byte_cnt, sockets, sent, got>>

CheckDone ==
  /\ pc = "check" /\ ~InLoop
  /\ pc' = "select"
  /\ UNCHANGED <<i, pool, line, byte_cnt, sockets, sent, got>>

MutantIsReady == clientfd[i] \in read_set  \* the wrong set is looked at

IsReady == clientfd[i] \in ready_set

CheckNext ==
  /\ InLoop /\ ~IsReady
  /\ i' = i + 1
  /\ UNCHANGED <<pc, pool, line, byte_cnt, sockets, sent, got>>

CheckReady ==
  /\ InLoop /\ IsReady
  /\ nready' = nready - 1
  /\ line' = <<>>
  /\ pc' = "line"
  /\ UNCHANGED <<i, ready_set, read_set, maxfd, maxi, clientfd, byte_cnt, sockets, sent, got>>

\* Rio_readlineb reads in the line of client c: rio is a copy of the reader in
\* the pool, which is always empty, so it begins with a read and what is left
\* in the copy after the line is gone.
Reading(c) == pc = "line" /\ c \in Open /\ fd[c] = clientfd[i]

NewlineAt(text) == SelectInSeq(text, LAMBDA u : u[2] = 2)  \* 0 if there is none

MutantEcho(c, text) ==  \* the bytes are not added up
  /\ byte_cnt' = Len(text)
  /\ got' = [got EXCEPT ![c] = @ \o text]
  /\ pc' = "check" /\ i' = i + 1

Echo(c, text) ==
  /\ byte_cnt' = byte_cnt + Len(text)
  /\ got' = [got EXCEPT ![c] = @ \o text]
  /\ pc' = "check" /\ i' = i + 1

ReadData(c) ==
  LET nl == NewlineAt(inbox[c]) IN
  /\ Reading(c) /\ peer[c] # "gone" /\ inbox[c] # <<>>
  /\ inbox' = [inbox EXCEPT ![c] = <<>>]
  /\ IF nl = 0 THEN /\ line' = line \o inbox[c]
                    /\ UNCHANGED <<pc, i, byte_cnt, got>>
     ELSE Echo(c, line \o SubSeq(inbox[c], 1, nl)) /\ line' = <<>>
  /\ UNCHANGED <<pool, conn, fd, peer, sent>>

ReadEof(c) ==  \* within a line: what there is of it is echoed
  /\ Reading(c) /\ peer[c] = "fin" /\ inbox[c] = <<>> /\ line # <<>>
  /\ Echo(c, line) /\ line' = <<>>
  /\ UNCHANGED <<pool, sockets, sent>>

Closing(c) ==
  /\ Reading(c) /\ peer[c] = "fin" /\ inbox[c] = <<>> /\ line = <<>>
  /\ conn' = [conn EXCEPT ![c] = "closed"] /\ fd' = [fd EXCEPT ![c] = NoFd]
  /\ pc' = "check" /\ i' = i + 1
  /\ UNCHANGED <<ready_set, maxfd, maxi, line, byte_cnt, peer, inbox, sent, got>>

MutantForget(c) ==  \* no FD_CLR
  /\ Closing(c)
  /\ clientfd' = [clientfd EXCEPT ![i] = NoFd]
  /\ UNCHANGED <<read_set, nready>>

CloseClient(c) ==  \* end of file instead of a line
  /\ Closing(c)
  /\ read_set' = read_set \ {fd[c]}
  /\ clientfd' = [clientfd EXCEPT ![i] = NoFd]
  /\ UNCHANGED nready

\* The client has reset the connection: read fails, or the write that follows.
PeerGone(c) == Reading(c) /\ peer[c] = "gone" /\ Exit

ServerStep ==
  \/ Select \/ AcceptFails \/ CheckDone \/ CheckNext \/ CheckReady
  \/ \E c \in Clients : AddClient(c) \/ ReadData(c) \/ ReadEof(c) \/ CloseClient(c) \/ PeerGone(c)

ClientStep(c) ==
  Connect(c) \/ SendLine(c) \/ SendRest(c) \/ Leave(c, "fin") \/ Leave(c, "gone")

Next == /\ pc # "exit"
        /\ ServerStep \/ \E c \in Clients : ClientStep(c)

Spec == Init /\ [][Next]_vars

\* The server runs.  A client finishes the lines it begins, or leaves: otherwise
\* the server waits inside its line for ever, with everybody else.
FairSpec == /\ Spec
            /\ WF_vars(pc # "exit" /\ ServerStep)
            /\ \A c \in Clients : WF_vars(pc # "exit" /\ (SendRest(c) \/ (InLine(c) /\ Leave(c, "fin"))))

-----------------------------------------------------------------------------
(* Properties *)

\* The pool agrees with the connections: every open client is in one slot, and
\* selected; no slot and no bit of read_set outlives its connection; maxi and
\* maxfd bound what is in use, so no client is passed over by the loop or by
\* select (echoservers.c:76-92, 118-121).
PoolExact ==
  /\ read_set = {Listen} \cup {fd[c] : c \in Open}
  /\ \A c \in Open : Cardinality({s \in Slots : clientfd[s] = fd[c]}) = 1
  /\ \A s \in Slots : clientfd[s] # NoFd => s <= maxi /\ clientfd[s] \in read_set
  /\ \A f \in read_set : f <= maxfd

\* nready is the number of ready clients the loop has not come to yet, so that
\* leaving the loop when it is 0 skips nobody (echoservers.c:75, 104, 111).
NreadyExact ==
  pc = "check" => nready = Cardinality({s \in Slots : s >= i /\ clientfd[s] \in ready_set})

\* A client whose line is begun has something to be read: the server never
\* blocks in read for a client that was not ready, whatever descriptors have
\* been closed and given again since select (echoservers.c:110).
ReadyHasData ==
  pc = "line" /\ line = <<>> =>
    \E c \in Open : fd[c] = clientfd[i] /\ (inbox[c] # <<>> \/ peer[c] # "open")

\* One place for each unit of a client: as many as there are in all.
Places(len) == UNION {{c} \X (1 .. len[c]) : c \in Clients}

\* A client that waits for the echo of each line is echoed what it has sent, in
\* order, and byte_cnt is the number of units echoed to all of them
\* (echoservers.c:112-116).
EchoExact ==
  /\ \A c \in Clients \ Pipeliners : IsPrefix(got[c], sent[c])
  /\ byte_cnt = Cardinality(Places([c \in Clients |-> Len(got[c])]))

\* Every line of such a client is echoed, wherever it is in the pool.
EveryLineEchoed ==
  \A c \in Clients \ Pipeliners :
    sent[c] # <<>> ~> got[c] = sent[c] \/ pc = "exit"

\* "Counts total bytes received by server" (echoservers.c:23), between rounds.
BytesCounted ==
  pc = "select" =>
    byte_cnt = Cardinality(Places([c \in Clients |-> Len(sent[c]) - Len(inbox[c])]))
=============================================================================
