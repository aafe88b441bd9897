---------------------------- MODULE EventServer ----------------------------
(* The event loop of labs/event-webserver/http_server.c: one thread, epoll,  *)
(* a state machine per client, a sweep of idle clients, SIGINT.              *)
(*                                                                           *)
(* A request travels as two halves, so that a read may end inside one; a     *)
(* response is a header followed by BodyUnits units of body.  Requests fit   *)
(* in BUFFER_MAX.  epoll is modelled by the part of it the code relies on:   *)
(* the server socket is level triggered; a client is on the ready list       *)
(* (edge) when it is (re)armed while ready and when something new happens;   *)
(* writability is announced only after a send or a poll found no room.       *)
EXTENDS Integers, Sequences, FiniteSets, SequencesExt

CONSTANTS Clients, NoClient,
          MaxClients,  \* MAX_CLIENTS
          SndBuf,      \* units a socket send buffer holds
          BodyUnits,   \* units of a body
          Expire,      \* EXPIRE_TIME, in ticks
          Pipeliners,  \* clients that do not wait for an answer
          Resets,      \* clients that may close or crash, not only finish
          Kinds,       \* the requests each client sends, of AllKinds
          MaxSent,     \* bound: requests of each client
          Ticking,     \* the clock runs (in the runs that are about time)
          MaxRefused   \* bound: clients whose name cannot be looked up

AllKinds == {"found", "missing", "bad"}

ASSUME EventAssumption ==
  /\ IsFiniteSet(Clients) /\ NoClient \notin Clients
  /\ Pipeliners \subseteq Clients /\ Resets \subseteq Clients
  /\ Kinds \in [Clients -> SUBSET AllKinds] /\ MaxSent \in [Clients -> Nat]
  /\ MaxClients \in Nat \ {0} /\ SndBuf \in Nat \ {0} /\ Expire \in Nat \ {0}
  /\ BodyUnits \in Nat
  /\ Ticking \in BOOLEAN /\ MaxRefused \in Nat

VARIABLES pc, running, alive,
          events,   \* the clients epoll_wait returned, with their flags
          accepting, \* it also returned the server socket
          slots,    \* clients[MAX_CLIENTS] of main
          cl,       \* each client_t
          conn,     \* each client's connection
          peer,     \* its end
          inbox,    \* the socket's receive buffer
          wire,     \* the socket's send buffer
          interest, \* EPOLLIN or EPOLLOUT
          edge,     \* on epoll's ready list
          nospace,  \* the socket owes an event when it has room again
          sent, half, got  \* the client: its requests, one begun, what it read

server == <<pc, running, alive, events, accepting, slots>>
epoll  == <<interest, edge, nospace>>
user   == <<sent, half, got>>
clients == <<cl, conn, peer, inbox, wire, epoll, user>>
vars == <<server, clients>>

Slots == 0 .. MaxClients - 1
OK == 200
StatusOf(k) == CASE k = "found" -> OK [] k = "missing" -> 404 [] k = "bad" -> 501

Header(st) == <<<<"header", st>>>>
Body == [i \in 1 .. BodyUnits |-> <<"body", i>>]
Answer(k) == IF k = "found" THEN Header(OK) \o Body ELSE Header(StatusOf(k))
Answers(ks) == FlattenSeq([i \in DOMAIN ks |-> Answer(ks[i])])

NewClient == [state |-> "RECEIVING_HEADERS", recv_buf |-> <<>>, requests |-> <<>>,
              cur_request |-> 0, status |-> 0, send_buf |-> <<>>, idle |-> 0]

Sending(c) == cl[c].state \in {"SENDING_HEADERS", "SENDING_BODY"}
Open == {c \in Clients : conn[c] = "open"}
Backlog == {c \in Clients : conn[c] = "backlog"}
Listed(c) == \E i \in Slots : slots[i] = c

Init ==
  /\ pc = "loop" /\ running = TRUE /\ alive = TRUE
  /\ events = <<>> /\ accepting = FALSE
  /\ slots = [i \in Slots |-> NoClient]
  /\ cl = [c \in Clients |-> NewClient]
  /\ conn = [c \in Clients |-> "new"]
  /\ peer = [c \in Clients |-> "open"]
  /\ inbox = [c \in Clients |-> <<>>]
  /\ wire = [c \in Clients |-> <<>>]
  /\ interest = [c \in Clients |-> "in"]
  /\ edge = [c \in Clients |-> FALSE]
  /\ nospace = [c \in Clients |-> FALSE]
  /\ sent = [c \in Clients |-> <<>>]
  /\ half = [c \in Clients |-> FALSE]
  /\ got = [c \in Clients |-> <<>>]

-----------------------------------------------------------------------------
(* The clients, the clock and the user's ^C *)

Up(c) == conn[c] \in {"backlog", "open"} /\ peer[c] = "open"

Connect(c) ==
  /\ conn[c] = "new"
  /\ conn' = [conn EXCEPT ![c] = "backlog"]
  /\ UNCHANGED <<server, cl, peer, inbox, wire, epoll, user>>

Arrive(c, data) ==
  /\ inbox' = [inbox EXCEPT ![c] = @ \o data]
  /\ edge' = [edge EXCEPT ![c] = @ \/ interest[c] = "in"]
  /\ UNCHANGED <<server, cl, conn, peer, wire, interest, nospace, got>>

\* A client that does not pipeline has read the answer to its last request.
Begin(c, k) ==
  /\ Up(c) /\ ~half[c] /\ Len(sent[c]) < MaxSent[c]
  /\ c \in Pipeliners \/ got[c] = Answers(sent[c])
  /\ sent' = [sent EXCEPT ![c] = Append(@, k)]

SendHalf(c, k) ==
  /\ Begin(c, k)
  /\ half' = [half EXCEPT ![c] = TRUE]
  /\ Arrive(c, <<<<k, 1>>>>)

SendRest(c) ==
  /\ Up(c) /\ half[c]
  /\ half' = [half EXCEPT ![c] = FALSE]
  /\ Arrive(c, <<<<Last(sent[c]), 2>>>>)
  /\ UNCHANGED sent

SendRequest(c, k) ==
  /\ Begin(c, k)
  /\ Arrive(c, <<<<k, 1>>, <<k, 2>>>>)
  /\ UNCHANGED half

\* The client reads a unit of what the server has sent it.
Read(c) ==
  /\ wire[c] # <<>> /\ peer[c] # "gone"
  /\ got' = [got EXCEPT ![c] = Append(@, Head(wire[c]))]
  /\ wire' = [wire EXCEPT ![c] = Tail(@)]
  /\ edge' = [edge EXCEPT ![c] = @ \/ (nospace[c] /\ interest[c] = "out")]
  /\ nospace' = [nospace EXCEPT ![c] = FALSE]
  /\ UNCHANGED <<server, cl, conn, peer, inbox, interest, sent, half>>

\* The client shuts its sending side down, or is gone: it sends a reset.
Leave(c, how) ==
  /\ conn[c] \in {"backlog", "open"} /\ peer[c] # how /\ peer[c] # "gone"
  /\ how = "gone" => c \in Resets
  /\ peer' = [peer EXCEPT ![c] = how]
  /\ edge' = [edge EXCEPT ![c] = TRUE]
  /\ UNCHANGED <<server, cl, conn, inbox, wire, interest, nospace, user>>

Later(t) == IF t < Expire THEN t + 1 ELSE t

\* cl[c].idle stands for the time since last_active, up to EXPIRE_TIME.
Tick ==
  /\ Ticking /\ \E c \in Open : cl[c].idle < Expire
  /\ cl' = [c \in Clients |-> IF c \in Open THEN [cl[c] EXCEPT !.idle = Later(@)]
                             ELSE cl[c]]
  /\ UNCHANGED <<server, conn, peer, inbox, wire, epoll, user>>

\* The handler clears the flag; epoll_wait fails with EINTR if it was blocked,
\* and http_server_run returns.  The signal may also come just before the call.
Sigint ==
  /\ running /\ pc \notin {"return", "exit"}
  /\ running' = FALSE
  /\ \/ pc' = pc
     \/ pc = "wait" /\ pc' = "return"
  /\ UNCHANGED <<alive, events, accepting, slots, clients>>

-----------------------------------------------------------------------------
(* receive_requests and send_responses: what they make of a client_t.        *)

\* Where a request ends: at its blank line.
Ends(buf) == {i \in DOMAIN buf : buf[i][2] = 2}

Complete(buf) == Ends(buf) # {}

\* The place of the j-th blank line.
EndOf(buf, j) == CHOOSE i \in Ends(buf) : Cardinality({h \in Ends(buf) : h <= i}) = j

\* request_to_struct: one request per blank line.  A request whose beginning is
\* missing has no request line.  The first bad one ends the parse.
Split(buf) ==
  [j \in 1 .. Cardinality(Ends(buf)) |->
     IF EndOf(buf, j) = 1 THEN "bad" ELSE buf[EndOf(buf, j)][1]]

Parse(x) ==
  LET ks == Split(x.recv_buf)
      bad == SelectInSeq(ks, LAMBDA k : k = "bad")
  IN [x EXCEPT !.requests = @ \o IF bad = 0 THEN ks ELSE SubSeq(ks, 1, bad - 1),
               !.status = IF bad = 0 THEN OK ELSE StatusOf("bad")]

\* build_ok_header, which finds out whether the file is there, or
\* build_error_header, which only looks at the status.
BuildHeader(x) ==
  LET st == IF x.status = OK THEN StatusOf(x.requests[x.cur_request + 1]) ELSE x.status
  IN [x EXCEPT !.status = st, !.send_buf = Header(st), !.state = "SENDING_HEADERS",
               !.idle = 0]

BuildBody(x) ==
  [x EXCEPT !.send_buf = IF x.status = OK THEN Body ELSE <<>>, !.state = "SENDING_BODY",
            !.idle = IF x.status = OK THEN 0 ELSE @]

\* recv_data stamps the client when it has read something.
RecvData(x, data) == [x EXCEPT !.recv_buf = @ \o data,
                               !.idle = IF data = <<>> THEN @ ELSE 0]

ReceiveRequests(x, data) ==
  LET r == RecvData(x, data) IN IF Complete(r.recv_buf) THEN BuildHeader(Parse(r)) ELSE r

\* The client and its socket's send buffer after send_data, which sends until
\* the buffer is full.
SendData(s) ==
  LET room == SndBuf - Len(s.wire)
      n == IF room < Len(s.x.send_buf) THEN room ELSE Len(s.x.send_buf)
  IN [x |-> [s.x EXCEPT !.send_buf = SubSeq(@, n + 1, Len(@))],
      wire |-> s.wire \o SubSeq(s.x.send_buf, 1, n)]

SendHeaders(s) ==
  IF s.x.state # "SENDING_HEADERS" THEN s
  ELSE LET h == SendData(s)
       IN IF h.x.send_buf = <<>> THEN [h EXCEPT !.x = BuildBody(@)] ELSE h

MutantNextRequest(x) ==  \* the receive buffer is not cleared
  IF x.cur_request + 1 < Len(x.requests)
  THEN BuildHeader([x EXCEPT !.cur_request = @ + 1])
  ELSE [x EXCEPT !.cur_request = 0, !.requests = <<>>, !.state = "RECEIVING_HEADERS"]

NextRequest(x) ==
  IF x.cur_request + 1 < Len(x.requests)
  THEN BuildHeader([x EXCEPT !.cur_request = @ + 1])
  ELSE [x EXCEPT !.cur_request = 0, !.requests = <<>>, !.recv_buf = <<>>,
                 !.state = "RECEIVING_HEADERS"]

SendResponses(s) ==
  LET h == SendHeaders(s)
      b == IF h.x.state = "SENDING_BODY" THEN SendData(h) ELSE h
  IN IF b.x.state = "SENDING_BODY" /\ b.x.send_buf = <<>>
     THEN [b EXCEPT !.x = NextRequest(@)] ELSE b

-----------------------------------------------------------------------------
(* http_server_run *)

\* What epoll would report of client c now.
Flags(c) ==
  (IF interest[c] = "in" /\ (inbox[c] # <<>> \/ peer[c] # "open") THEN {"in"} ELSE {})
  \cup (IF interest[c] = "out" /\ (Len(wire[c]) < SndBuf \/ peer[c] = "gone")
        THEN {"out"} ELSE {})
  \cup (IF peer[c] # "open" THEN {"rdhup"} ELSE {})

Ready == {c \in Open : edge[c] /\ Flags(c) # {}}

MutantLoop ==  \* while (1), with the flag tested after EINTR alone
  /\ pc = "loop" /\ pc' = "wait"
  /\ UNCHANGED <<running, alive, events, accepting, slots, clients>>

Loop ==  \* while (server_running)
  /\ pc = "loop"
  /\ pc' = IF running THEN "wait" ELSE "return"
  /\ UNCHANGED <<running, alive, events, accepting, slots, clients>>

Full(c) == Len(wire[c]) = SndBuf

\* epoll_wait polls the sockets on the ready list and takes them off it.
Polled == /\ edge' = [c \in Clients |-> FALSE]
          /\ nospace' = [c \in Clients |-> nospace[c] \/ (edge[c] /\ Full(c))]

WaitEvents ==
  /\ pc = "wait" /\ (Ready # {} \/ Backlog # {})
  /\ events' = [c \in Ready |-> Flags(c)]
  /\ accepting' = (Backlog # {})
  /\ Polled
  /\ pc' = "events"
  /\ UNCHANGED <<running, alive, slots, cl, conn, peer, inbox, wire, interest, user>>

WaitTimeout ==  \* EPOLL_TIMEOUT
  /\ pc = "wait" /\ Ready = {} /\ Backlog = {}
  /\ Polled
  /\ pc' = "sweep"
  /\ UNCHANGED <<running, alive, events, accepting, slots, cl, conn, peer, inbox,
                 wire, interest, user>>

FreeSlot == {i \in Slots : slots[i] = NoClient /\ \A j \in 0 .. i - 1 : slots[j] # NoClient}

MutantAcceptClient(c) ==  \* the fresh slot is not looked for: the first is taken
  /\ pc = "events" /\ accepting /\ c \in Backlog
  /\ accepting' = FALSE
  /\ conn' = [conn EXCEPT ![c] = "open"]
  /\ cl' = [cl EXCEPT ![c] = NewClient]
  /\ interest' = [interest EXCEPT ![c] = "in"]
  /\ edge' = [edge EXCEPT ![c] = inbox[c] # <<>> \/ peer[c] # "open"]
  /\ slots' = [slots EXCEPT ![0] = c]
  /\ UNCHANGED <<pc, running, alive, events, peer, inbox, wire, nospace, user>>

\* get_new_client, the registration, and the first free slot if there is one.
AcceptClient(c) ==
  /\ pc = "events" /\ accepting /\ c \in Backlog
  /\ accepting' = FALSE
  /\ conn' = [conn EXCEPT ![c] = "open"]
  /\ cl' = [cl EXCEPT ![c] = NewClient]
  /\ interest' = [interest EXCEPT ![c] = "in"]
  /\ edge' = [edge EXCEPT ![c] = inbox[c] # <<>> \/ peer[c] # "open"]
  /\ slots' = [i \in Slots |-> IF i \in FreeSlot THEN c ELSE slots[i]]
  /\ UNCHANGED <<pc, running, alive, events, peer, inbox, wire, nospace, user>>

AcceptFails ==  \* no descriptor is left: the client stays in the backlog
  /\ pc = "events" /\ accepting
  /\ accepting' = FALSE
  /\ UNCHANGED <<pc, running, alive, events, slots, clients>>

NameFails(c) ==  \* getnameinfo: the new socket is closed again
  /\ pc = "events" /\ accepting /\ c \in Backlog
  /\ Cardinality({d \in Clients : conn[d] = "refused"}) < MaxRefused
  /\ accepting' = FALSE
  /\ conn' = [conn EXCEPT ![c] = "refused"]
  /\ UNCHANGED <<pc, running, alive, events, slots, cl, peer, inbox, wire, epoll, user>>

\* close and free_client, for a client the loop has found DISCONNECTED or idle.
\* Unread data makes close reset the connection.
Free(c, how, w) ==
  /\ conn' = [conn EXCEPT ![c] = how]
  /\ slots' = [i \in Slots |-> IF slots[i] = c THEN NoClient ELSE slots[i]]
  /\ cl' = [cl EXCEPT ![c] = NewClient]
  /\ inbox' = [inbox EXCEPT ![c] = <<>>]
  /\ wire' = [wire EXCEPT ![c] = IF inbox[c] = <<>> THEN w ELSE <<>>]
  /\ interest' = [interest EXCEPT ![c] = "in"]
  /\ edge' = [edge EXCEPT ![c] = FALSE]
  /\ nospace' = [nospace EXCEPT ![c] = FALSE]

\* The event of c is the next one of the array.
Event(c) ==
  /\ pc = "events" /\ c \in DOMAIN events
  /\ events' = [d \in DOMAIN events \ {c} |-> events[d]]

MutantHungUp(c, x) == "rdhup" \in events[c]  \* whatever the state

HungUp(c, x) == "rdhup" \in events[c] /\ x.state = "RECEIVING_HEADERS"

MutantRearm(c, mode) ==  \* what is there already is not looked at
  /\ interest' = [interest EXCEPT ![c] = mode]
  /\ UNCHANGED <<edge, nospace>>

\* EPOLL_CTL_MOD: the client is ready at once if the new condition holds.
Rearm(c, mode) ==
  /\ interest' = [interest EXCEPT ![c] = mode]
  /\ edge' = [edge EXCEPT ![c] = \/ @ \/ peer[c] # "open"
                                 \/ mode = "in" /\ inbox'[c] # <<>>
                                 \/ mode = "out" /\ Len(wire'[c]) < SndBuf]
  /\ nospace' = [nospace EXCEPT ![c] = @ \/ Len(wire'[c]) = SndBuf]

\* EPOLLIN: everything the socket has is read.  A complete request turns the
\* client round; otherwise a hang-up disconnects it.
Receive(c) ==
  LET x == ReceiveRequests(cl[c], inbox[c]) IN
  /\ Event(c) /\ "in" \in events[c] /\ peer[c] # "gone"
  /\ ~HungUp(c, x)
  /\ cl' = [cl EXCEPT ![c] = x]
  /\ inbox' = [inbox EXCEPT ![c] = <<>>]
  /\ UNCHANGED <<wire, conn, slots>>
  /\ IF x.state = "SENDING_HEADERS" THEN Rearm(c, "out") ELSE UNCHANGED epoll
  /\ UNCHANGED <<pc, running, alive, accepting, peer, user>>

\* The client hung up before a complete request, or recv fails.
ReceiveEnds(c) ==
  /\ Event(c) /\ "in" \in events[c]
  /\ peer[c] = "gone" \/ HungUp(c, ReceiveRequests(cl[c], inbox[c]))
  /\ Free(c, "closed", wire[c])
  /\ UNCHANGED <<pc, running, alive, accepting, peer, user>>

\* EPOLLOUT: the response goes out until the socket is full; after the last one
\* the client is turned round again, and disconnected if it has hung up.
Send(c) ==
  LET s == SendResponses([x |-> cl[c], wire |-> wire[c]]) IN
  /\ Event(c) /\ "out" \in events[c] /\ peer[c] # "gone"
  /\ IF HungUp(c, s.x) THEN Free(c, "closed", s.wire)
     ELSE /\ cl' = [cl EXCEPT ![c] = s.x]
          /\ wire' = [wire EXCEPT ![c] = s.wire]
          /\ UNCHANGED <<inbox, conn, slots>>
          /\ IF s.x.state = "RECEIVING_HEADERS" THEN Rearm(c, "in")
             ELSE /\ nospace' = [nospace EXCEPT ![c] =  \* EAGAIN
                                   @ \/ (s.x.send_buf # <<>> /\ Len(s.wire) = SndBuf)]
                  /\ UNCHANGED <<interest, edge>>
  /\ UNCHANGED <<pc, running, alive, accepting, peer, user>>

\* send fails with ECONNRESET and the client is disconnected, ...
SendEnds(c) ==
  /\ Event(c) /\ "out" \in events[c] /\ peer[c] = "gone"
  /\ Free(c, "closed", wire[c])
  /\ UNCHANGED <<pc, running, alive, accepting, peer, user>>

\* ... or with EPIPE, and SIGPIPE, which nothing handles, ends the process.
SendKills(c) ==
  /\ Event(c) /\ "out" \in events[c] /\ peer[c] = "gone"
  /\ alive' = FALSE
  /\ UNCHANGED <<pc, running, accepting, slots, clients>>

\* A hang-up alone, while the socket is full: the response is still to be sent.
HangUp(c) ==
  /\ Event(c) /\ events[c] = {"rdhup"}
  /\ UNCHANGED <<pc, running, alive, accepting, slots, clients>>

EventsDone ==
  /\ pc = "events" /\ DOMAIN events = {} /\ ~accepting
  /\ pc' = "sweep"
  /\ UNCHANGED <<running, alive, events, accepting, slots, clients>>

Idle(c) == Listed(c) /\ cl[c].idle = Expire

SweepClient(c) ==
  /\ pc = "sweep" /\ Idle(c)
  /\ Free(c, "expired", wire[c])
  /\ UNCHANGED <<pc, running, alive, events, accepting, peer, user>>

SweepDone ==
  /\ pc = "sweep" /\ \A c \in Clients : ~Idle(c)
  /\ pc' = "loop"
  /\ UNCHANGED <<running, alive, events, accepting, slots, clients>>

\* The end of main: the listed clients are closed and freed.
Exit ==
  /\ pc = "return" /\ pc' = "exit"
  /\ conn' = [c \in Clients |-> IF Listed(c) THEN "closed" ELSE conn[c]]
  /\ slots' = [i \in Slots |-> NoClient]
  /\ UNCHANGED <<running, alive, events, accepting, cl, peer, inbox, wire, epoll, user>>

ServerStep ==
  \/ Loop \/ WaitEvents \/ WaitTimeout \/ AcceptFails \/ EventsDone \/ SweepDone \/ Exit
  \/ \E c \in Clients : \/ AcceptClient(c) \/ NameFails(c) \/ Receive(c) \/ ReceiveEnds(c)
                       \/ Send(c) \/ SendEnds(c) \/ SendKills(c) \/ HangUp(c)
                       \/ SweepClient(c)

ClientStep(c) ==
  \/ Connect(c) \/ SendRest(c) \/ Read(c) \/ Leave(c, "fin") \/ Leave(c, "gone")
  \/ \E k \in Kinds[c] : SendHalf(c, k) \/ SendRequest(c, k)

Next == /\ alive
        /\ ServerStep \/ (\E c \in Clients : ClientStep(c)) \/ Tick \/ Sigint

Spec == Init /\ [][Next]_vars

\* The server's thread runs, epoll_wait times out, accept does not fail for ever
\* and serves the backlog in turn, clients read what they are sent.  Nobody has
\* to connect, to finish a request or to leave.
FairSpec == /\ Spec
            /\ WF_vars(alive /\ ServerStep)
            /\ \A c \in Clients : WF_vars(alive /\ Read(c)) /\ SF_vars(alive /\ AcceptClient(c))

-----------------------------------------------------------------------------
(* Properties *)

\* A client that waits for each answer reads, unit by unit, the answers to its
\* requests, in order, whatever the way they are split and whoever else is
\* served (http_server.c:355-489; protocol.py testPersistent, testConcurrent).
AnswersInOrder ==
  \A c \in Clients \ Pipeliners : IsPrefix(got[c] \o wire[c], Answers(sent[c]))

\* A registered client is in at most one slot of clients[], and in one if the table
\* has a slot for everybody; no slot and no pending event names a client that has
\* been freed: the loop never follows a pointer to freed memory, and main frees
\* all that are listed (http_server.c:80-87, 194-206, 239-255, 258-273).
TableExact ==
  pc # "exit" =>
    /\ \A c \in Clients :
         LET n == Cardinality({i \in Slots : slots[i] = c})
         IN IF c \in Open THEN n <= 1 /\ (Cardinality(Clients) <= MaxClients => n = 1)
            ELSE n = 0
    /\ DOMAIN events \subseteq Open

\* No edge is lost: whenever the server is about to wait, a client with data to
\* be received, or a response to be sent and room to send it, is on the ready
\* list, and a full socket will announce its room (http_server.c:208-233).
NoLostEdge ==
  pc = "wait" =>
    \A c \in Open \ Pipeliners :
      /\ interest[c] = IF Sending(c) THEN "out" ELSE "in"
      /\ ~Sending(c) /\ (inbox[c] # <<>> \/ peer[c] # "open") => edge[c]
      /\ Sending(c) /\ cl[c].send_buf # <<>> =>
           IF Full(c) THEN nospace[c] \/ edge[c] ELSE edge[c]

\* The client has sent a whole request, and is there to read the answer.
Asked(c) == /\ sent[c] # <<>> /\ ~half[c] /\ peer[c] # "gone"
            /\ conn[c] \in {"backlog", "open"}

Settled(c) == got[c] = Answers(sent[c]) \/ peer[c] = "gone" \/ pc = "exit" \/ ~alive

\* Every request is answered in full: also that of a client that has shut its
\* sending side, "it may still be wanting us to send things back"
\* (http_server.c:413-414).  Checked without ticks: no one is idle too long.
EveryRequestAnswered == \A c \in Clients \ Pipeliners : Asked(c) ~> Settled(c)

\* The same for the clients that pipeline.
PipelinedAnswered == \A c \in Pipeliners : Asked(c) ~> Settled(c)

\* ^C ends the server, whenever it comes (http_server.c:94-105, 160-175).
SigintEndsServer == ~running ~> pc = "exit" \/ ~alive
=============================================================================
