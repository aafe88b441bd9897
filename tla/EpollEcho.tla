----------------------------- MODULE EpollEcho -----------------------------
(* epoll_server_example.c: one process echoes to many clients, told of their *)
(* sockets by an edge-triggered epoll.  A client sends numbered units and    *)
(* reads what comes back; it may end its side or vanish (a reset).           *)
(*                                                                           *)
(* epoll, as the server uses it: a socket is on the ready list (edge) when   *)
(* something happened that its interest names; EPOLL_CTL_ADD and             *)
(* EPOLL_CTL_MOD put it there if the condition holds already; epoll_wait     *)
(* takes everybody off and reports those whose condition still holds.        *)
EXTENDS Integers, Sequences

CONSTANTS Peers, Nobody,
          MaxUnits,         \* bound: units each client sends
          SndBuf,           \* units a socket's send buffer holds
          MaxRefusals       \* bound: calls of accept that fail

ASSUME EpollAssumption ==
  Nobody \notin Peers /\ MaxUnits \in [Peers -> Nat] /\ SndBuf \in Nat \ {0} /\ MaxRefusals \in Nat

VARIABLES loop,             \* "setup", "wait", "events" or "exit"
          events, accepting,    \* the batch: flags by client; the listener's event
          client, step,     \* the event being handled and how far
          state, recvBuf, sendBuf,      \* struct client
          interest, edge,   \* epoll's side of each client
          sock, inbox, wire,    \* sockets: unread input, unread output
          mate, said, heard,    \* the clients: "up", gone...; units sent, received
          refusals

epollVars == <<interest, edge>>
socketVars == <<sock, inbox, wire>>
clientBufs == <<state, recvBuf, sendBuf>>
mateVars == <<mate, said, heard>>
epollEchoVars == <<loop, events, accepting, client, step, clientBufs, epollVars,
                   socketVars, mateVars, refusals>>

EpInit ==
  /\ loop = "setup" /\ events = <<>> /\ accepting = FALSE
  /\ client = Nobody /\ step = "next"
  /\ state = [c \in Peers |-> "RECEIVING"]
  /\ recvBuf = [c \in Peers |-> <<>>] /\ sendBuf = [c \in Peers |-> <<>>]
  /\ interest = [c \in Peers |-> "in"] /\ edge = [c \in Peers |-> FALSE]
  /\ sock = [c \in Peers |-> "none"]
  /\ inbox = [c \in Peers |-> <<>>] /\ wire = [c \in Peers |-> <<>>]
  /\ mate = [c \in Peers |-> "up"] /\ said = [c \in Peers |-> 0]
  /\ heard = [c \in Peers |-> <<>>] /\ refusals = 0

-----------------------------------------------------------------------------
(* The clients. *)

Dial(c) ==
  /\ sock[c] = "none" /\ loop \in {"wait", "events"} /\ sock' = [sock EXCEPT ![c] = "backlog"]
  /\ UNCHANGED <<loop, events, accepting, client, step, clientBufs, epollVars, inbox, wire,
                 mateVars, refusals>>

Linked(c) == sock[c] \in {"backlog", "open"}

Say(c) ==
  /\ Linked(c) /\ mate[c] = "up" /\ said[c] < MaxUnits[c]
  /\ said' = [said EXCEPT ![c] = @ + 1]
  /\ inbox' = [inbox EXCEPT ![c] = Append(@, said'[c])]
  /\ edge' = [edge EXCEPT ![c] = @ \/ interest[c] = "in"]
  /\ UNCHANGED <<loop, events, accepting, client, step, clientBufs, interest, sock, wire,
                 mate, heard, refusals>>

\* The room it makes is announced if a send or a poll found the buffer full.
Hear(c) ==
  /\ wire[c] # <<>> /\ mate[c] # "gone"
  /\ heard' = [heard EXCEPT ![c] = Append(@, Head(wire[c]))]
  /\ wire' = [wire EXCEPT ![c] = Tail(@)]
  /\ edge' = [edge EXCEPT ![c] = @ \/ (interest[c] = "out" /\ Len(wire[c]) = SndBuf)]
  /\ UNCHANGED <<loop, events, accepting, client, step, clientBufs, interest, sock, inbox,
                 mate, said, refusals>>

\* A client that shuts its side down while more than one unit is still to come
\* back is "hasty".
HangUp(c, how) ==
  /\ Linked(c) /\ mate[c] = "up" /\ mate' = [mate EXCEPT ![c] = how]
  /\ how \in {"done", "hasty"} => (how = "hasty") = (said[c] - Len(heard[c]) > 1)
  /\ edge' = [edge EXCEPT ![c] = TRUE]
  /\ UNCHANGED <<loop, events, accepting, client, step, clientBufs, interest, socketVars,
                 said, heard, refusals>>

-----------------------------------------------------------------------------
(* main. *)

FlagsOf(c, dir) ==
  (IF dir = "in" /\ (inbox[c] # <<>> \/ mate[c] # "up") THEN {"in"} ELSE {})
  \cup (IF dir = "out" /\ (Len(wire[c]) < SndBuf \/ mate[c] = "gone")
        THEN {"out"} ELSE {})
  \cup (IF mate[c] # "up" THEN {"rdhup"} ELSE {})

Flags(c) == FlagsOf(c, interest[c])
Opened == {c \in Peers : sock[c] = "open"}
Waiting == {c \in Peers : sock[c] = "backlog"}
Ready == {c \in Opened : edge[c] /\ Flags(c) # {}}

\* create_server_socket, epoll_create1 and the registration of the listener:
\* each failure exits.
Setup ==
  /\ loop = "setup" /\ loop' \in {"wait", "exit"}
  /\ UNCHANGED <<events, accepting, client, step, clientBufs, epollVars, socketVars,
                 mateVars, refusals>>

\* Without a timeout.  The listener is level-triggered.
Wait ==
  /\ loop = "wait" /\ Ready \cup Waiting # {}
  /\ events' = [c \in Ready |-> Flags(c)] /\ accepting' = (Waiting # {})
  /\ edge' = [c \in Peers |-> FALSE] /\ loop' = "events"
  /\ UNCHANGED <<client, step, clientBufs, interest, socketVars, mateVars, refusals>>

\* get_new_client and EPOLL_CTL_ADD.
NewClient(c) ==
  /\ loop = "events" /\ client = Nobody /\ accepting /\ c \in Waiting
  /\ accepting' = FALSE /\ sock' = [sock EXCEPT ![c] = "open"]
  /\ edge' = [edge EXCEPT ![c] = Flags(c) # {}]
  /\ UNCHANGED <<loop, events, client, step, clientBufs, interest, inbox, wire, mateVars, refusals>>

NoNewClient ==      \* continue: the listener still has the client
  /\ loop = "events" /\ client = Nobody /\ accepting /\ refusals < MaxRefusals
  /\ accepting' = FALSE /\ refusals' = refusals + 1
  /\ UNCHANGED <<loop, events, client, step, clientBufs, epollVars, socketVars, mateVars>>

AfterInput(c) == IF "out" \in events[c] THEN "send" ELSE "out done"

Event(c) ==
  /\ loop = "events" /\ client = Nobody /\ c \in DOMAIN events
  /\ client' = c /\ step' = IF "in" \in events[c] THEN "recv" ELSE AfterInput(c)
  /\ UNCHANGED <<loop, events, accepting, clientBufs, epollVars, socketVars, mateVars, refusals>>

\* recv_data: everything there is, up to the end or an error.
RecvData(c) == recvBuf[c] \o inbox[c]

RecvRequests ==
  LET c == client IN
  /\ step = "recv" /\ step' = "switch out"
  /\ inbox' = [inbox EXCEPT ![c] = <<>>]
  /\ \/ /\ state' = [state EXCEPT ![c] = "SENDING"]
        /\ recvBuf' = [recvBuf EXCEPT ![c] = RecvData(c)]
        /\ sendBuf' = [sendBuf EXCEPT ![c] = recvBuf'[c]]
     \/ /\ mate[c] = "gone" /\ state' = [state EXCEPT ![c] = "DISCONNECTED"]
        /\ UNCHANGED <<recvBuf, sendBuf>>
  /\ UNCHANGED <<loop, events, accepting, client, epollVars, sock, wire, mateVars, refusals>>

MutantModify(c, dir) ==     \* only what happens from now on is announced
  /\ interest' = [interest EXCEPT ![c] = dir] /\ UNCHANGED edge

\* EPOLL_CTL_MOD looks at the socket again.
Modify(c, dir) ==
  /\ interest' = [interest EXCEPT ![c] = dir]
  /\ edge' = [edge EXCEPT ![c] = @ \/ FlagsOf(c, dir) # {}]

SwitchToOutput ==
  /\ step = "switch out" /\ step' = AfterInput(client) /\ Modify(client, "out")
  /\ UNCHANGED <<loop, events, accepting, client, clientBufs, socketVars, mateVars, refusals>>

\* send_data: as much as the socket takes.
Sendable(c) ==
  LET room == SndBuf - Len(wire[c])
  IN IF room < Len(sendBuf[c]) THEN room ELSE Len(sendBuf[c])

\* All of it ends the exchange.
SendResponses ==
  LET c == client
      n == Sendable(c)
      all == n = Len(sendBuf[c])
  IN /\ step = "send" /\ (mate[c] # "gone" \/ sendBuf[c] = <<>>)
     /\ wire' = [wire EXCEPT ![c] = @ \o SubSeq(sendBuf[c], 1, n)]
     /\ sendBuf' = [sendBuf EXCEPT ![c] = SubSeq(@, n + 1, Len(@))]
     /\ recvBuf' = [recvBuf EXCEPT ![c] = IF all THEN <<>> ELSE @]
     /\ state' = [state EXCEPT ![c] = IF all THEN "RECEIVING" ELSE @]
     /\ step' = IF all THEN "switch in" ELSE "out done"
     /\ UNCHANGED <<loop, events, accepting, client, epollVars, sock, inbox, mateVars, refusals>>

\* send fails, or SIGPIPE, which nobody handles, ends the server.
SendFails ==
  LET c == client IN
  /\ step = "send" /\ mate[c] = "gone" /\ sendBuf[c] # <<>>
  /\ \/ state' = [state EXCEPT ![c] = "DISCONNECTED"] /\ step' = "out done" /\ UNCHANGED loop
     \/ loop' = "exit" /\ step' = "next" /\ UNCHANGED state
  /\ UNCHANGED <<events, accepting, client, recvBuf, sendBuf, epollVars, socketVars,
                 mateVars, refusals>>

SwitchToInput ==
  /\ step = "switch in" /\ step' = "out done" /\ Modify(client, "in")
  /\ UNCHANGED <<loop, events, accepting, client, clientBufs, socketVars, mateVars, refusals>>

MutantDisconnected(c) == state[c] = "DISCONNECTED" \/ "rdhup" \in events[c]  \* in any state
Disconnected(c) ==
  state[c] = "DISCONNECTED" \/ ("rdhup" \in events[c] /\ state[c] = "RECEIVING")

\* EPOLLRDHUP, and the cleanup of a disconnected client.  Unread input makes the
\* close a reset, which takes with it what the client has not heard yet.
EventEnds ==
  LET c == client
  IN /\ step = "out done" /\ step' = "next" /\ client' = Nobody
     /\ events' = [d \in DOMAIN events \ {c} |-> events[d]]
     /\ IF Disconnected(c)
          THEN /\ sock' = [sock EXCEPT ![c] = "closed"]
               /\ edge' = [edge EXCEPT ![c] = FALSE]
               /\ state' = [state EXCEPT ![c] = "DISCONNECTED"]
               /\ recvBuf' = [recvBuf EXCEPT ![c] = <<>>]
               /\ sendBuf' = [sendBuf EXCEPT ![c] = <<>>]
               /\ wire' = [wire EXCEPT ![c] = IF inbox[c] = <<>> THEN @ ELSE <<>>]
          ELSE UNCHANGED <<sock, edge, clientBufs, wire>>
     /\ UNCHANGED <<loop, accepting, interest, inbox, mateVars, refusals>>

BatchDone ==
  /\ loop = "events" /\ client = Nobody /\ ~accepting /\ events = <<>>
  /\ loop' = "wait"
  /\ UNCHANGED <<events, accepting, client, step, clientBufs, epollVars, socketVars,
                 mateVars, refusals>>

EpollServerStep ==
  \/ Setup \/ Wait \/ NoNewClient \/ BatchDone
  \/ \E c \in Peers : NewClient(c) \/ Event(c)
  \/ RecvRequests \/ SwitchToOutput \/ SendResponses \/ SendFails
  \/ SwitchToInput \/ EventEnds

EpNext ==
  \/ EpollServerStep
  \/ \E c \in Peers : Dial(c) \/ Say(c) \/ Hear(c) \/ \E how \in {"done", "hasty", "gone"} : HangUp(c, how)

-----------------------------------------------------------------------------
\* The units of c, from the one that came back first to the one sent last.
Units(c) == heard[c] \o wire[c] \o sendBuf[c] \o inbox[c]

\* The server has closed with input unread: the client's connection is reset.
Reset(c) == sock[c] = "closed" /\ inbox[c] # <<>>

\* While a client is there and its connection was not reset, each unit it has
\* sent is in one place and all are in order; and of a client that was not hasty
\* no connection is reset: what it sent before it shut its side down has been
\* echoed when the server closes (epoll_server_example.c:149-189).
UnitsKept ==
  \A c \in Peers :
    /\ mate[c] # "gone" /\ ~Reset(c) => Units(c) = [k \in 1 .. said[c] |-> k]
    /\ mate[c] \in {"up", "done"} => ~Reset(c)

\* There is something for the server to do for c.
Due(c) == \/ interest[c] = "in" /\ (inbox[c] # <<>> \/ mate[c] # "up")
          \/ interest[c] = "out" /\ Len(wire[c]) < SndBuf

\* No edge is lost: when the server is about to wait for ever, epoll_wait will
\* report every client for whom there is something to do, whatever happened
\* between its event and the switch of its interest (112, 149-170).
NoEdgeMissed == loop = "wait" => \A c \in Opened : Due(c) => edge[c]

EchoKept == UnitsKept /\ NoEdgeMissed

\* Every unit a client sends comes back, in order and once, also those that
\* arrive while an earlier echo is being sent or does not fit, and whatever the
\* other clients do: the switches between EPOLLIN and EPOLLOUT lose no edge.
\* Only a client that is gone, or one whose reset ends the server, prevents it,
\* or its own haste: what it sent while an earlier echo was under way is thrown
\* away when it has shut its side down (epoll_server_example.c:149-178).
EveryByteEchoed ==
  \A c \in Peers : \A k \in 1 .. MaxUnits[c] :
    said[c] = k ~> \/ heard[c] = [i \in 1 .. said[c] |-> i] \/ said[c] > k
                   \/ mate[c] \in {"gone", "hasty"} \/ loop = "exit"
=============================================================================
