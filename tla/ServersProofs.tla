--------------------------- MODULE ServersProofs ---------------------------
(* The small servers, for any number of clients, lines, units, requests and  *)
(* blocks: with a reader per connection every client gets back its own       *)
(* lines, in order and without a gap; the epoll example loses, doubles and   *)
(* reorders nothing it has received; and no request of a connection of the   *)
(* web servers gets a wrong answer.  No fairness and nothing of the clients  *)
(* is assumed.                                                               *)
EXTENDS PerConnection, EpollEcho, HttpHandler, SequenceTheorems, TLAPS

(***************************************************************************)
(* A reader per connection                                                 *)
(***************************************************************************)
MainPlaces == {"start", "refused", "accept", "serve", "create", "fork", "close", "exit"}
ReaderPlaces ==
  {"none", "taken", "start", "read", "write", "close", "exit", "ended", "zombie", "reaped"}

ConnectionTypes ==
  /\ main \in [place : MainPlaces, connfd : Clients \cup {None}]
  /\ reader \in [Clients -> ReaderPlaces] /\ conn \in [Clients -> Clients \cup {None}]
  /\ sent \in [Clients -> Nat] /\ line \in [Clients -> Nat]
  /\ unread \in [Clients -> Seq(Nat)] /\ got \in [Clients -> Seq(Nat)]

\* A reader's descriptor is that of its own client, and main hands over a
\* client nobody serves yet.
Owned ==
  /\ \A c \in Clients : reader[c] \in {"read", "write"} => conn[c] = c
  /\ main.place \in {"fork", "create"} =>
       main.connfd \in Clients /\ reader[main.connfd] = "taken"

\* The lines of c that have left the kernel: echoed, and the one in the buffer.
Gone(c) == Len(got[c]) + (IF reader[c] = "write" THEN 1 ELSE 0)

\* Until its reader is killed, the lines of c are those echoed, the one in the
\* buffer and those in the kernel, in this order.
InOrder(c) ==
  /\ reader[c] = "write" => line[c] = Gone(c)
  /\ sent[c] = Gone(c) + Len(unread[c])
  /\ \A k \in 1 .. Len(unread[c]) : unread[c][k] = Gone(c) + k

Flow == \A c \in Clients : reader[c] \notin {"zombie", "reaped"} => InOrder(c)

PcInv == ConnectionTypes /\ Owned /\ Flow /\ EchoedInOrder

-----------------------------------------------------------------------------
\* At the start nobody has sent a line.
LEMMA InitPcInv == PcInit => PcInv
<1> SUFFICES ASSUME PcInit PROVE PcInv
  OBVIOUS
<1> USE DEF PcInit
<1>1. ConnectionTypes
  BY DEF ConnectionTypes, MainPlaces, ReaderPlaces
<1>2. Owned
  BY DEF Owned
<1>3. Flow /\ EchoedInOrder
  BY DEF Flow, EchoedInOrder, InOrder, Gone
<1> QED BY <1>1, <1>2, <1>3 DEF PcInv

\* A step on a line of c leaves the lines of the others in order.
LEMMA OthersKept ==
  ASSUME Flow, NEW c \in Clients,
         \A d \in Clients \ {c} : UNCHANGED <<sent[d], unread[d], got[d], line[d], reader[d]>>,
         reader'[c] \notin {"zombie", "reaped"} => InOrder(c)'
  PROVE  Flow'
<1> SUFFICES ASSUME NEW d \in Clients \ {c}, reader'[d] \notin {"zombie", "reaped"}
             PROVE  InOrder(d)'
  BY DEF Flow
<1>1. InOrder(d) /\ Gone(d)' = Gone(d)
  BY DEF Flow, Gone
<1>2. UNCHANGED <<sent[d], unread[d], line[d], reader[d]>>
  OBVIOUS
<1> QED BY <1>1, <1>2 DEF InOrder

\* A client's next line goes to the end of what the kernel holds.
LEMMA SendLineStep ==
  ASSUME PcInv, NEW c \in Clients, SendLine(c)
  PROVE  PcInv'
<1> USE DEF PcInv, SendLine
<1>1. ConnectionTypes'
  BY DEF ConnectionTypes, MainPlaces, ReaderPlaces
<1>2. Owned'
  BY DEF Owned
<1>3. reader[c] \notin {"zombie", "reaped"} => InOrder(c)'
  <2> SUFFICES ASSUME reader[c] \notin {"zombie", "reaped"} PROVE InOrder(c)'
    OBVIOUS
  <2> DEFINE q == unread[c]
  <2>1. q \in Seq(Nat) /\ sent[c] \in Nat /\ got[c] \in Seq(Nat) /\ InOrder(c) /\ Gone(c) \in Nat
    BY DEF ConnectionTypes, Flow, Gone
  <2>2. sent'[c] = sent[c] + 1 /\ unread'[c] = Append(q, sent[c] + 1)
    BY DEF ConnectionTypes
  <2>3. Gone(c)' = Gone(c) /\ reader' = reader /\ line' = line
    BY DEF Gone
  <2>4. Len(Append(q, sent[c] + 1)) = Len(q) + 1
        /\ \A k \in 1 .. Len(q) + 1 :
             Append(q, sent[c] + 1)[k] = IF k = Len(q) + 1 THEN sent[c] + 1 ELSE q[k]
    BY <2>1
  <2>5. (reader[c] = "write" => line[c] = Gone(c)) /\ sent[c] = Gone(c) + Len(q)
        /\ \A k \in 1 .. Len(q) : q[k] = Gone(c) + k
    BY <2>1 DEF InOrder
  <2>6. reader'[c] = "write" => line'[c] = Gone(c)'
    BY <2>3, <2>5
  <2> HIDE DEF SendLine, q
  <2>7. sent'[c] = Gone(c)' + Len(unread'[c])
    BY <2>1, <2>2, <2>3, <2>4, <2>5
  <2>8. \A k \in 1 .. Len(unread'[c]) : unread'[c][k] = Gone(c)' + k
    BY <2>1, <2>2, <2>3, <2>4, <2>5
  <2> QED BY <2>6, <2>7, <2>8 DEF InOrder
<1>4. Flow'
  <2>1. \A d \in Clients \ {c} : UNCHANGED <<sent[d], unread[d], got[d], line[d], reader[d]>>
    BY DEF ConnectionTypes
  <2>2. reader' = reader
    OBVIOUS
  <2> QED BY <2>1, <2>2, <1>3, OthersKept
<1>5. EchoedInOrder'
  BY DEF EchoedInOrder
<1> QED BY <1>1, <1>2, <1>4, <1>5 DEF PcInv

\* A reader takes the oldest line of its own client.
LEMMA ReadLineStep ==
  ASSUME PcInv, NEW c \in Clients, ReadLine(c)
  PROVE  PcInv'
<1> DEFINE q == unread[c]
<1>1. /\ reader[c] = "read" /\ conn[c] = c /\ q \in Seq(Nat) /\ q # <<>>
      /\ sent[c] \in Nat /\ got[c] \in Seq(Nat) /\ InOrder(c)
  BY DEF PcInv, ConnectionTypes, Owned, Flow, ReadLine, ReaderAt
<1>2. /\ line' = [line EXCEPT ![c] = Head(q)] /\ unread' = [unread EXCEPT ![c] = Tail(q)]
      /\ reader' = [reader EXCEPT ![c] = "write"]
      /\ UNCHANGED <<sent, got, main, conn>>
  BY <1>1 DEF ReadLine, clientVars
<1>3. /\ Head(q) \in Nat /\ Tail(q) \in Seq(Nat) /\ Len(Tail(q)) = Len(q) - 1
      /\ Head(q) = q[1] /\ Len(q) \in Nat \ {0}
      /\ \A k \in 1 .. Len(q) - 1 : Tail(q)[k] = q[k + 1]
  BY <1>1
<1>4. ConnectionTypes'
  <2> HIDE DEF q
  <2> QED BY <1>2, <1>3 DEF PcInv, ConnectionTypes, ReaderPlaces
<1>5. Owned'
  BY <1>1, <1>2 DEF PcInv, Owned, ConnectionTypes
<1>6. InOrder(c)'
  <2>1. Gone(c) = Len(got[c]) /\ Gone(c)' = Gone(c) + 1 /\ Gone(c) \in Nat
    BY <1>1, <1>2 DEF Gone, PcInv, ConnectionTypes
  <2>2. line'[c] = Head(q) /\ unread'[c] = Tail(q) /\ sent'[c] = sent[c]
    BY <1>2 DEF PcInv, ConnectionTypes
  <2>3. sent[c] = Gone(c) + Len(q) /\ \A k \in 1 .. Len(q) : q[k] = Gone(c) + k
    BY <1>1 DEF InOrder
  <2> HIDE DEF q
  <2>4. line'[c] = Gone(c)'
    BY <1>3, <2>1, <2>2, <2>3
  <2>5. sent'[c] = Gone(c)' + Len(unread'[c])
    BY <1>3, <2>1, <2>2, <2>3
  <2>6. \A k \in 1 .. Len(unread'[c]) : unread'[c][k] = Gone(c)' + k
    BY <1>3, <2>1, <2>2, <2>3
  <2> QED BY <2>4, <2>5, <2>6 DEF InOrder
<1>7. Flow'
  <2>1. \A d \in Clients \ {c} : UNCHANGED <<sent[d], unread[d], got[d], line[d], reader[d]>>
    BY <1>2 DEF PcInv, ConnectionTypes
  <2> QED BY <2>1, <1>6, OthersKept DEF PcInv
<1>8. EchoedInOrder'
  BY <1>2 DEF PcInv, EchoedInOrder
<1> QED BY <1>4, <1>5, <1>7, <1>8 DEF PcInv

\* It writes that line back to the same client.
LEMMA WriteStep ==
  ASSUME PcInv, NEW c \in Clients, Write(c)
  PROVE  PcInv'
<1> DEFINE g == got[c]
           echoed == Append(g, line[c])
<1>1. /\ reader[c] = "write" /\ conn[c] = c /\ g \in Seq(Nat) /\ line[c] \in Nat
      /\ line[c] = Len(g) + 1 /\ InOrder(c)
  BY DEF PcInv, ConnectionTypes, Owned, Flow, Write, ReaderAt, InOrder, Gone
<1>2. /\ got' = [got EXCEPT ![c] = echoed]
      /\ reader' = [reader EXCEPT ![c] = IF server = "http_server" THEN "close" ELSE "read"]
      /\ UNCHANGED <<sent, unread, line, main, conn>>
  BY <1>1 DEF Write, clientVars
<1>3. /\ echoed \in Seq(Nat) /\ Len(echoed) = Len(g) + 1
      /\ \A k \in 1 .. Len(g) + 1 : echoed[k] = IF k = Len(g) + 1 THEN line[c] ELSE g[k]
  BY <1>1
<1>4. ConnectionTypes'
  <2> HIDE DEF echoed
  <2> QED BY <1>2, <1>3 DEF PcInv, ConnectionTypes, ReaderPlaces
<1>5. Owned'
  BY <1>1, <1>2 DEF PcInv, Owned, ConnectionTypes
<1>6. got'[c] = echoed /\ \A d \in Clients \ {c} : got'[d] = got[d]
  BY <1>2 DEF PcInv, ConnectionTypes
<1>7. InOrder(c)'
  <2>1. reader'[c] # "write" /\ sent' = sent /\ unread' = unread
    BY <1>2 DEF PcInv, ConnectionTypes
  <2>2. Gone(c) = Len(g) + 1 /\ Gone(c)' = Len(g) + 1
    BY <1>1, <1>3, <1>6, <2>1 DEF Gone
  <2> QED BY <1>1, <2>1, <2>2 DEF InOrder
<1>8. Flow'
  <2>1. \A d \in Clients \ {c} : UNCHANGED <<sent[d], unread[d], got[d], line[d], reader[d]>>
    BY <1>2 DEF PcInv, ConnectionTypes
  <2> QED BY <2>1, <1>7, OthersKept DEF PcInv
<1>9. EchoedInOrder'
  <2>1. \A k \in 1 .. Len(g) : g[k] = k
    BY <1>1 DEF PcInv, EchoedInOrder
  <2>2. \A k \in DOMAIN echoed : echoed[k] = k
    BY <2>1, <1>1, <1>3
  <2> HIDE DEF echoed
  <2> QED BY <1>6, <2>2 DEF PcInv, EchoedInOrder
<1> QED BY <1>4, <1>5, <1>8, <1>9 DEF PcInv

\* A step that moves no line: nobody starts or stops writing, but for a reader
\* that is killed.
NoLineMoves ==
  /\ UNCHANGED <<sent, unread, got, line>>
  /\ \A c \in Clients :
       /\ reader'[c] \notin {"zombie", "reaped"} => reader[c] \notin {"zombie", "reaped"}
       /\ reader'[c] = "write" => reader[c] = "write"
       /\ reader[c] = "write" => reader'[c] \in {"write", "zombie"}

\* Then the lines stay in order.
LEMMA LinesKept ==
  ASSUME PcInv, NoLineMoves
  PROVE  Flow' /\ EchoedInOrder'
<1>1. ASSUME NEW c \in Clients, reader'[c] \notin {"zombie", "reaped"} PROVE InOrder(c)'
  <2>1. InOrder(c)
    BY <1>1 DEF PcInv, Flow, NoLineMoves
  <2>2. Gone(c)' = Gone(c)
    BY <1>1 DEF Gone, NoLineMoves
  <2> QED BY <1>1, <2>1, <2>2 DEF InOrder, NoLineMoves
<1>2. EchoedInOrder'
  BY DEF PcInv, EchoedInOrder, NoLineMoves
<1> QED BY <1>1, <1>2 DEF Flow

\* main: a client is accepted once, and handed to one reader.
LEMMA MainKeeps ==
  ASSUME PcInv, MainStep
  PROVE  PcInv'
<1> USE DEF PcInv, ConnectionTypes, MainPlaces, ReaderPlaces, MainGoes, At, childVars, clientVars
<1>1. CASE OpenListenfd \/ CreateServerSocket
  <2>1. ConnectionTypes' /\ Owned'
    BY <1>1 DEF OpenListenfd, CreateServerSocket, Owned
  <2>2. NoLineMoves
    BY <1>1 DEF OpenListenfd, CreateServerSocket, NoLineMoves
  <2> QED BY <2>1, <2>2, LinesKept
<1>2. CASE ForkChild
  <2>1. ConnectionTypes' /\ Owned'
    BY <1>2 DEF ForkChild, Owned
  <2>2. NoLineMoves
    BY <1>2 DEF ForkChild, Owned, NoLineMoves
  <2> QED BY <2>1, <2>2, LinesKept
<1>3. CASE ForkFails
  <2>1. ConnectionTypes' /\ Owned'
    BY <1>3 DEF ForkFails, Owned
  <2>2. NoLineMoves
    BY <1>3 DEF ForkFails, NoLineMoves
  <2> QED BY <2>1, <2>2, LinesKept
<1>4. CASE ParentClose
  <2>1. ConnectionTypes' /\ Owned'
    BY <1>4 DEF ParentClose, Owned
  <2>2. NoLineMoves
    BY <1>4 DEF ParentClose, NoLineMoves
  <2> QED BY <2>1, <2>2, LinesKept
<1>5. CASE PthreadCreate
  <2>1. ConnectionTypes' /\ Owned'
    BY <1>5 DEF PthreadCreate, Owned
  <2>2. NoLineMoves
    BY <1>5 DEF PthreadCreate, Owned, NoLineMoves
  <2> QED BY <2>1, <2>2, LinesKept
<1>6. ASSUME NEW c \in Clients, Accept(c) PROVE PcInv'
  <2>1. ConnectionTypes' /\ Owned'
    BY <1>6 DEF Accept, AfterAccept, Owned
  <2>2. NoLineMoves
    BY <1>6 DEF Accept, NoLineMoves
  <2> QED BY <2>1, <2>2, LinesKept
<1> QED BY <1>1, <1>2, <1>3, <1>4, <1>5, <1>6 DEF MainStep

\* SIGCHLD and its handler: only the dead are reaped.
LEMMA SignalKeeps ==
  ASSUME PcInv, SignalStep
  PROVE  PcInv'
<1> USE DEF PcInv, ConnectionTypes, MainPlaces, ReaderPlaces, clientVars
<1>1. CASE Sigchld \/ HandlerReturns
  <2>1. ConnectionTypes' /\ Owned'
    BY <1>1 DEF Sigchld, HandlerReturns, Owned
  <2>2. NoLineMoves
    BY <1>1 DEF Sigchld, HandlerReturns, NoLineMoves
  <2> QED BY <2>1, <2>2, LinesKept
<1>2. ASSUME NEW c \in Clients, Reap(c) PROVE PcInv'
  <2>1. ConnectionTypes' /\ Owned'
    BY <1>2 DEF Reap, Owned
  <2>2. NoLineMoves
    BY <1>2 DEF Reap, NoLineMoves
  <2> QED BY <2>1, <2>2, LinesKept
<1> QED BY <1>1, <1>2 DEF SignalStep

\* A process that ends moves no line; its reader is dead or stays where it was.
LEMMA EndsKeeps ==
  ASSUME PcInv, NEW c \in Clients, Ends(c), reader[c] # "taken"
  PROVE  PcInv'
<1> USE DEF PcInv
<1>1. /\ UNCHANGED <<peer, sent, unread, got, conn, line>>
      /\ reader' = IF Forks THEN [reader EXCEPT ![c] = "zombie"] ELSE reader
      /\ main' = IF Forks THEN main ELSE [main EXCEPT !.place = "exit"]
  BY DEF Ends, MainGoes, clientVars
<1>2. ConnectionTypes' /\ Owned'
  BY <1>1 DEF ConnectionTypes, MainPlaces, ReaderPlaces, Owned
<1>3. NoLineMoves
  <2>1. reader' = reader \/ reader' = [reader EXCEPT ![c] = "zombie"]
    BY <1>1
  <2> QED BY <1>1, <2>1 DEF NoLineMoves, ConnectionTypes
<1> QED BY <1>2, <1>3, LinesKept

\* A reader that does not find its client's name ends, or main does; no line moves.
LEMMA NameFailsKeeps ==
  ASSUME PcInv, NEW c \in Clients, NameFails(c)
  PROVE  PcInv'
<1> USE DEF PcInv
<1>1. /\ UNCHANGED <<sent, unread, got, conn, line>>
      /\ reader' = IF Forks THEN [reader EXCEPT ![c] = "exit"] ELSE reader
      /\ main' = IF Forks THEN main ELSE [main EXCEPT !.place = "exit"]
  BY DEF NameFails, MainGoes, clientVars
<1>2. reader[c] = "start"
  BY DEF NameFails, ReaderAt
<1>3. ConnectionTypes' /\ Owned'
  <2>1. ConnectionTypes'
    BY <1>1 DEF ConnectionTypes, MainPlaces, ReaderPlaces
  <2>2. Owned'
    BY <1>1, <1>2 DEF ConnectionTypes, Owned
  <2> QED BY <2>1, <2>2
<1>4. NoLineMoves
  BY <1>1, <1>2 DEF NoLineMoves, ConnectionTypes
<1> QED BY <1>3, <1>4, LinesKept

\* The reader of c.
LEMMA ReaderKeeps ==
  ASSUME PcInv, NEW c \in Clients, ReaderStep(c)
  PROVE  PcInv'
<1> USE DEF PcInv, ConnectionTypes, MainPlaces, ReaderPlaces, MainGoes, ReaderAt, clientVars, childVars
<1>1. CASE Start(c)
  <2>1. ConnectionTypes' /\ Owned'
    BY <1>1 DEF Start, Arg, Owned
  <2>2. NoLineMoves
    BY <1>1 DEF Start, NoLineMoves
  <2> QED BY <2>1, <2>2, LinesKept
<1>2. CASE ReadEof(c)
  <2>1. ConnectionTypes' /\ Owned'
    BY <1>2 DEF ReadEof, Owned
  <2>2. NoLineMoves
    BY <1>2 DEF ReadEof, NoLineMoves
  <2> QED BY <2>1, <2>2, LinesKept
<1>3. CASE Close(c)
  <2>1. ConnectionTypes' /\ Owned'
    BY <1>3 DEF Close, Owned
  <2>2. NoLineMoves
    BY <1>3 DEF Close, NoLineMoves
  <2> QED BY <2>1, <2>2, LinesKept
<1>4. CASE Exit(c) \/ PeerGone(c)
  BY <1>4, EndsKeeps DEF Exit, PeerGone
<1>5. CASE ReadLine(c)
  BY <1>5, ReadLineStep
<1>6. CASE Write(c)
  BY <1>6, WriteStep
<1>7. CASE NameFails(c)
  BY <1>7, NameFailsKeeps
<1> QED BY <1>1, <1>2, <1>3, <1>4, <1>5, <1>6, <1>7 DEF ReaderStep

\* Connecting and leaving move no line either.
LEMMA ClientKeeps ==
  ASSUME PcInv, NEW c \in Clients, ClientStep(c)
  PROVE  PcInv'
<1>1. CASE SendLine(c)
  BY <1>1, SendLineStep
<1>2. CASE Connect(c) \/ \E how \in {"done", "gone"} : Leave(c, how)
  <2> UNCHANGED <<main, reader, conn, sent, line, unread, got>>
    BY <1>2 DEF Connect, Leave
  <2> QED BY DEF PcInv, ConnectionTypes, MainPlaces, ReaderPlaces, Owned, Flow, InOrder, Gone, EchoedInOrder
<1> QED BY <1>1, <1>2 DEF ClientStep

-----------------------------------------------------------------------------
\* The strengthened invariant: whose connection a reader has, and where each
\* line of a client is.
THEOREM Invariance == PcSpec => []PcInv
<1>1. PcInv /\ [PcNext]_connVars => PcInv'
  <2> SUFFICES ASSUME PcInv, [PcNext]_connVars PROVE PcInv'
    OBVIOUS
  <2>1. CASE UNCHANGED connVars
    BY <2>1 DEF connVars, clientVars, PcInv, ConnectionTypes, Owned, Flow, InOrder, Gone, EchoedInOrder
  <2>2. CASE PcNext
    BY <2>2, MainKeeps, SignalKeeps, ReaderKeeps, ClientKeeps DEF PcNext
  <2> QED BY <2>1, <2>2
<1> QED BY <1>1, InitPcInv, PTL DEF PcSpec

\* echo and handle_client: the lines that come back to a client are its own, in
\* the order it sent them (echoservert.c:25-34).
THEOREM OwnLines == PcSpec => []EchoedInOrder
<1>1. PcInv => EchoedInOrder
  BY DEF PcInv
<1> QED BY <1>1, Invariance, PTL

(***************************************************************************)
(* The epoll example                                                       *)
(***************************************************************************)
\* The steps of an event, in their order.
EventSteps == {"recv", "switch out", "send", "switch in", "out done"}

EpollTypes ==
  /\ loop \in {"setup", "wait", "events", "exit"} /\ accepting \in BOOLEAN
  /\ client \in Peers \cup {Nobody} /\ step \in EventSteps \cup {"next"}
  /\ state \in [Peers -> {"RECEIVING", "SENDING", "DISCONNECTED"}]
  /\ recvBuf \in [Peers -> Seq(Nat)] /\ sendBuf \in [Peers -> Seq(Nat)]
  /\ interest \in [Peers -> {"in", "out"}] /\ edge \in [Peers -> BOOLEAN]
  /\ sock \in [Peers -> {"none", "backlog", "open", "closed"}]
  /\ inbox \in [Peers -> Seq(Nat)] /\ wire \in [Peers -> Seq(Nat)]
  /\ mate \in [Peers -> {"up", "done", "hasty", "gone"}]
  /\ said \in [Peers -> Nat] /\ heard \in [Peers -> Seq(Nat)]

\* An event is handled while the batch is, and a batch is of open connections.
BatchInv ==
  /\ loop \in {"setup", "wait"} => DOMAIN events = {}
  /\ \A c \in DOMAIN events : c \in Peers /\ sock[c] = "open" /\ events[c] \subseteq {"in", "out", "rdhup"}
  /\ IF client = Nobody THEN step = "next"
     ELSE client \in DOMAIN events /\ (step = "next" <=> loop = "exit")
          /\ (step # "next" => loop = "events")

\* Between its events a client is being received from, or sent to what is left.
\* What is sent is only nothing if the client had nothing to say but its end.
RestIn(c) == interest[c] = "in" /\ state[c] = "RECEIVING" /\ sendBuf[c] = <<>> /\ recvBuf[c] = <<>>
SomethingLeft(c) ==
  state[c] = "SENDING" /\ (sendBuf[c] = <<>> => mate[c] # "up" /\ inbox[c] = <<>>)
RestOut(c) == interest[c] = "out" /\ SomethingLeft(c)
Doomed(c) == state[c] = "DISCONNECTED" /\ mate[c] = "gone"

\* The flags of an event that is not handled yet, which are some steps old.
FlagsHold(c) ==
  /\ "in" \in events[c] <=> interest[c] = "in"
  /\ "out" \in events[c] => interest[c] = "out"
  /\ interest[c] = "in" => inbox[c] # <<>> \/ mate[c] # "up"
  /\ interest[c] = "out" /\ "out" \notin events[c] /\ Len(wire[c]) < SndBuf => edge[c]

\* Nothing has come behind the echo of a client that the event says has ended.
AllEchoed(c) == "rdhup" \in events[c] /\ mate[c] = "done" => inbox[c] = <<>>

InEvent(c) ==
  /\ step = "recv" => RestIn(c) /\ "out" \notin events[c] /\ (inbox[c] # <<>> \/ mate[c] # "up")
  /\ step = "switch out" =>
       interest[c] = "in" /\ "out" \notin events[c] /\ (SomethingLeft(c) \/ Doomed(c))
  /\ step = "send" => RestOut(c)
  /\ step = "switch in" =>
       interest[c] = "out" /\ state[c] = "RECEIVING" /\ sendBuf[c] = <<>> /\ recvBuf[c] = <<>>
       /\ AllEchoed(c)
  /\ step = "out done" =>
       \/ ((RestIn(c) /\ AllEchoed(c)) \/ RestOut(c)) /\ (Due(c) => edge[c])
       \/ Doomed(c)

Placed(c) ==
  sock[c] # "closed" =>
    IF c = client /\ step # "next" THEN InEvent(c)
    ELSE /\ RestIn(c) \/ RestOut(c)
         /\ c \in DOMAIN events /\ c # client => FlagsHold(c)
         /\ sock[c] = "open" /\ c \notin DOMAIN events /\ Due(c) => edge[c]

\* A client that shuts its side down waits for one unit at most.
Ended(c) ==
  /\ mate[c] = "done" => said[c] <= Len(heard[c]) + 1
  /\ sock[c] = "closed" => mate[c] # "up"
  /\ c \in DOMAIN events /\ "rdhup" \in events[c] => mate[c] # "up"
  /\ Len(wire[c]) <= SndBuf

Kept(c) ==
  /\ mate[c] # "gone" /\ ~Reset(c) => Units(c) = [k \in 1 .. said[c] |-> k]
  /\ mate[c] \in {"up", "done"} => ~Reset(c)

ClientInv(c) == Placed(c) /\ Ended(c) /\ Kept(c)

EpollInv == EpollTypes /\ BatchInv /\ \A c \in Peers : ClientInv(c)


-----------------------------------------------------------------------------
(* Sequences: how a unit moves from one place to the next *)

LEMMA NoUnits == <<>> \in Seq(Nat)
BY EmptySeq

LEMMA CatsRegroup ==
  \A s, t, u \in Seq(Nat) : (s \o t) \o u = s \o (t \o u)
<1> TAKE s, t, u \in Seq(Nat)
<1> QED BY SMTT(30)

LEMMA CatLength ==
  \A s, t \in Seq(Nat) :
    s \o t \in Seq(Nat) /\ Len(s) \in Nat /\ Len(t) \in Nat /\ Len(s \o t) = Len(s) + Len(t)
OBVIOUS

LEMMA AppendsAre ==
  \A s \in Seq(Nat), n \in Nat : Append(s, n) = s \o <<n>>
<1> TAKE s \in Seq(Nat), n \in Nat
<1> QED BY AppendIsConcat

LEMMA SplitAt ==
  ASSUME NEW c \in Seq(Nat), NEW n \in 0 .. Len(c)
  PROVE  /\ SubSeq(c, 1, n) \in Seq(Nat) /\ SubSeq(c, n + 1, Len(c)) \in Seq(Nat)
         /\ Len(SubSeq(c, 1, n)) = n /\ Len(SubSeq(c, n + 1, Len(c))) = Len(c) - n
         /\ SubSeq(c, 1, n) \o SubSeq(c, n + 1, Len(c)) = c
<1>1. /\ SubSeq(c, 1, n) \in Seq(Nat) /\ SubSeq(c, n + 1, Len(c)) \in Seq(Nat)
      /\ Len(SubSeq(c, 1, n)) = n /\ Len(SubSeq(c, n + 1, Len(c))) = Len(c) - n
  OBVIOUS
<1>2. 1 \in 1 .. Len(c) + 1 /\ n \in 1 - 1 .. Len(c) /\ Len(c) \in n .. Len(c)
  OBVIOUS
<1>3. SubSeq(c, 1, n) \o SubSeq(c, n + 1, Len(c)) = SubSeq(c, 1, Len(c))
  BY <1>2, ConcatAdjacentSubSeq
<1>4. SubSeq(c, 1, Len(c)) = c
  BY SubSeqFull
<1> QED BY <1>1, <1>3, <1>4

\* A unit is said: s is what has been taken from the client's input.
LEMMA CatSaid ==
  \A s, t \in Seq(Nat) : \A n \in Nat : s \o Append(t, n) = Append(s \o t, n)
<1> TAKE s, t \in Seq(Nat)
<1> TAKE n \in Nat
<1> DEFINE n1 == <<n>>
<1>1. n1 \in Seq(Nat) /\ s \o t \in Seq(Nat)
  OBVIOUS
<1>2. Append(t, n) = t \o n1 /\ Append(s \o t, n) = (s \o t) \o n1
  BY <1>1, AppendsAre
<1> HIDE DEF n1
<1>3. (s \o t) \o n1 = s \o (t \o n1)
  BY <1>1, CatsRegroup
<1> QED BY <1>2, <1>3

\* The client hears one.
LEMMA CatHeard ==
  \A a, b \in Seq(Nat) : b # <<>> => Append(a, Head(b)) \o Tail(b) = a \o b
<1> TAKE a, b \in Seq(Nat)
<1> HAVE b # <<>>
<1> DEFINE h == <<Head(b)>>
           t == Tail(b)
<1>1. Head(b) \in Nat /\ h \in Seq(Nat) /\ t \in Seq(Nat)
  BY HeadTailProperties
<1>2. Append(a, Head(b)) = a \o h /\ b = h \o t
  <2>1. Append(a, Head(b)) = a \o h
    BY <1>1, AppendsAre
  <2>2. b = h \o t
    <3>1. h \o t \in Seq(Nat) /\ Len(h \o t) = Len(b)
      BY <1>1
    <3>2. \A k \in 1 .. Len(b) : (h \o t)[k] = b[k]
      BY <1>1
    <3> QED BY <3>1, <3>2, SeqEqual
  <2> QED BY <2>1, <2>2
<1> HIDE DEF h, t
<1>3. (a \o h) \o t = a \o (h \o t)
  BY <1>1, CatsRegroup
<1>4. Append(a, Head(b)) \o t = a \o b
  BY <1>2, <1>3
<1> QED BY <1>4 DEF t

\* All that has come, and nothing more, is in the buffer.
LEMMA CatReceived ==
  \A s, t \in Seq(Nat) : s \o t \o <<>> = s \o <<>> \o t
<1> TAKE s, t \in Seq(Nat)
<1>1. s \o t \in Seq(Nat)
  OBVIOUS
<1>2. s \o <<>> = s /\ (s \o t) \o <<>> = s \o t
  BY <1>1, ConcatEmptySeq
<1> QED BY <1>2

\* The units said so far and the next one.
LEMMA NextUnit ==
  ASSUME NEW n \in Nat
  PROVE  Append([k \in 1 .. n |-> k], n + 1) = [k \in 1 .. n + 1 |-> k]
<1> DEFINE s == [k \in 1 .. n |-> k]
           t == [k \in 1 .. n + 1 |-> k]
<1>1. s \in Seq(Nat) /\ Len(s) = n /\ t \in Seq(Nat) /\ Len(t) = n + 1
  OBVIOUS
<1>2. Append(s, n + 1) \in Seq(Nat) /\ Len(Append(s, n + 1)) = n + 1
  BY <1>1
<1>3. \A k \in 1 .. n + 1 : Append(s, n + 1)[k] = t[k]
  BY <1>1
<1> QED BY <1>1, <1>2, <1>3, SeqEqual

-----------------------------------------------------------------------------
(* The steps *)

LEMMA InitEpoll == EpInit => EpollInv
<1> SUFFICES ASSUME EpInit PROVE EpollInv
  OBVIOUS
<1> USE DEF EpInit
<1>1. EpollTypes
  <2>1. <<>> \in Seq(Nat)
    OBVIOUS
  <2>2. /\ recvBuf \in [Peers -> Seq(Nat)] /\ sendBuf \in [Peers -> Seq(Nat)]
        /\ inbox \in [Peers -> Seq(Nat)] /\ wire \in [Peers -> Seq(Nat)]
        /\ heard \in [Peers -> Seq(Nat)]
    BY <2>1
  <2>3. said \in [Peers -> Nat]
    OBVIOUS
  <2> QED BY <2>2, <2>3 DEF EpollTypes
<1>2. BatchInv
  <2>1. DOMAIN events = {}
    OBVIOUS
  <2> QED BY <2>1 DEF BatchInv
<1>3. ASSUME NEW c \in Peers PROVE ClientInv(c)
  <2>1. Placed(c)
    BY DEF Placed, RestIn
  <2>2. Ended(c)
    BY EpollAssumption DEF Ended
  <2>3. Kept(c)
    <3>1. Units(c) = <<>> \o <<>> \o <<>> \o <<>>
      BY DEF Units
    <3>2. <<>> \o <<>> \o <<>> \o <<>> = [k \in 1 .. 0 |-> k]
      OBVIOUS
    <3> QED BY <3>1, <3>2 DEF Kept, Reset
  <2> QED BY <2>1, <2>2, <2>3 DEF ClientInv
<1> QED BY <1>1, <1>2, <1>3 DEF EpollInv

\* What a step leaves of client d: everything.
Same(d) ==
  /\ UNCHANGED <<state[d], recvBuf[d], sendBuf[d], interest[d], edge[d], sock[d], inbox[d],
                  wire[d], mate[d], said[d], heard[d]>>
  /\ d \in DOMAIN events' <=> d \in DOMAIN events
  /\ d \in DOMAIN events => events'[d] = events[d]

LEMMA OthersStay ==
  ASSUME NEW d \in Peers, BatchInv, ClientInv(d), Same(d), d = client' <=> d = client,
         d = client => step' = step
  PROVE  ClientInv(d)'
<1>1. Due(d)' = Due(d)
  BY DEF Same, Due
<1>2. (RestIn(d)' <=> RestIn(d)) /\ (SomethingLeft(d)' <=> SomethingLeft(d))
      /\ (RestOut(d)' <=> RestOut(d)) /\ (Doomed(d)' <=> Doomed(d))
  BY DEF Same, RestIn, SomethingLeft, RestOut, Doomed
<1>3. d \in DOMAIN events => (FlagsHold(d)' <=> FlagsHold(d))
  BY DEF Same, FlagsHold
<1>4. Placed(d)'
  <2> SUFFICES ASSUME sock[d] # "closed" PROVE Placed(d)'
    BY DEF Same, Placed
  <2>1. CASE d = client /\ step # "next"
    <3>1. InEvent(d) /\ step' = step /\ d = client'
      BY <2>1 DEF ClientInv, Placed
    <3>2. d \in DOMAIN events
      BY <2>1, EpollAssumption DEF BatchInv
    <3>3. AllEchoed(d)' <=> AllEchoed(d)
      BY <3>2 DEF Same, AllEchoed
    <3>4. InEvent(d)'
      BY <1>1, <1>2, <3>1, <3>2, <3>3 DEF Same, InEvent
    <3> QED BY <2>1, <3>1, <3>4 DEF Placed
  <2>2. CASE ~(d = client /\ step # "next")
    <3>1. /\ RestIn(d) \/ RestOut(d)
          /\ d \in DOMAIN events /\ d # client => FlagsHold(d)
          /\ sock[d] = "open" /\ d \notin DOMAIN events /\ Due(d) => edge[d]
      BY <2>2 DEF ClientInv, Placed
    <3>2. ~(d = client' /\ step' # "next")
      BY <2>2
    <3> QED BY <1>1, <1>2, <1>3, <3>1, <3>2 DEF Same, Placed
  <2> QED BY <2>1, <2>2
<1>5. Ended(d)'
  BY DEF ClientInv, Same, Ended
<1>6. Kept(d)'
  BY DEF ClientInv, Same, Kept, Reset, Units
<1> QED BY <1>4, <1>5, <1>6 DEF ClientInv

LEMMA DialStep ==
  ASSUME EpollInv, NEW c \in Peers, Dial(c)
  PROVE  EpollInv'
<1> USE DEF Dial, clientBufs, epollVars, mateVars
<1>1. EpollTypes'
  BY DEF EpollInv, EpollTypes
<1>2. c \notin DOMAIN events
  BY DEF EpollInv, BatchInv
<1>3. BatchInv'
  BY <1>2 DEF EpollInv, BatchInv, EpollTypes
<1>4. ASSUME NEW d \in Peers, d # c PROVE ClientInv(d)'
  BY <1>4, OthersStay DEF EpollInv, EpollTypes, Same
<1>5. ClientInv(c)'
  <2> USE DEF EpollInv, EpollTypes
  <2>1. ClientInv(c) /\ sock'[c] = "backlog" /\ ~(c = client /\ step # "next")
    BY <1>2, EpollAssumption DEF BatchInv
  <2>2. Placed(c)'
    BY <1>2, <2>1 DEF ClientInv, Placed, RestIn, RestOut, SomethingLeft
  <2>3. Ended(c)'
    BY <2>1 DEF ClientInv, Ended
  <2>4. Kept(c)'
    BY <2>1 DEF ClientInv, Kept, Reset, Units
  <2> QED BY <2>2, <2>3, <2>4 DEF ClientInv
<1> QED BY <1>1, <1>3, <1>4, <1>5 DEF EpollInv

\* What a client does does not touch the server.
LEMMA SayStep ==
  ASSUME EpollInv, NEW c \in Peers, Say(c)
  PROVE  EpollInv'
<1> USE DEF Say, clientBufs, epollVars
<1>1. EpollTypes'
  <2>0. EpollTypes
    BY DEF EpollInv
  <2>a. inbox \in [Peers -> Seq(Nat)] /\ said \in [Peers -> Nat]
    BY <2>0 DEF EpollTypes
  <2>b. inbox[c] \in Seq(Nat) /\ said[c] \in Nat
    BY <2>a
  <2>1. EpollTypes /\ inbox[c] \in Seq(Nat) /\ said[c] + 1 \in Nat
    BY <2>0, <2>b
  <2>2. said' = [said EXCEPT ![c] = said[c] + 1] /\ said'[c] = said[c] + 1
    BY <2>1 DEF EpollTypes
  <2>3. inbox' = [inbox EXCEPT ![c] = Append(inbox[c], said[c] + 1)]
    BY <2>2
  <2>4. Append(inbox[c], said[c] + 1) \in Seq(Nat)
    BY <2>1
  <2>5. inbox' \in [Peers -> Seq(Nat)]
    BY ONLY <2>1, <2>3, <2>4 DEF EpollTypes
  <2>6. said' \in [Peers -> Nat] /\ edge' \in [Peers -> BOOLEAN]
    BY <2>1, <2>2 DEF EpollTypes
  <2> QED BY <2>1, <2>5, <2>6 DEF EpollTypes
<1>2. BatchInv'
  BY DEF EpollInv, BatchInv
<1>3. ASSUME NEW d \in Peers, d # c PROVE ClientInv(d)'
  BY <1>3, OthersStay DEF EpollInv, EpollTypes, Same
<1>4. ClientInv(c)'
  <2> USE DEF EpollInv, EpollTypes
  <2>1. /\ ClientInv(c) /\ sock[c] \in {"backlog", "open"} /\ mate[c] = "up"
        /\ said'[c] = said[c] + 1 /\ inbox'[c] = Append(inbox[c], said[c] + 1)
        /\ inbox'[c] # <<>> /\ edge'[c] = (edge[c] \/ interest[c] = "in")
    <3>1. /\ ClientInv(c) /\ sock[c] \in {"backlog", "open"} /\ mate[c] = "up"
          /\ said'[c] = said[c] + 1 /\ edge'[c] = (edge[c] \/ interest[c] = "in")
      BY DEF Linked
    <3>2. inbox'[c] = Append(inbox[c], said[c] + 1)
      BY <3>1
    <3>3. inbox[c] \in Seq(Nat) /\ said[c] + 1 \in Nat
      OBVIOUS
    <3>4. inbox'[c] # <<>>
      BY <3>2, <3>3
    <3> QED BY <3>1, <3>2, <3>4
  <2>2. Placed(c)'
    <3>1. CASE c = client /\ step # "next"
      <4>1. InEvent(c)
        BY <2>1, <3>1 DEF ClientInv, Placed
      <4>2. c \in DOMAIN events
        BY <3>1, EpollAssumption DEF BatchInv
      <4>3. AllEchoed(c)'
        BY <2>1 DEF AllEchoed
      <4>4. (RestIn(c)' <=> RestIn(c)) /\ (RestOut(c) <=> RestOut(c)')
            /\ (SomethingLeft(c) => SomethingLeft(c)') /\ ~Doomed(c)
        BY <2>1 DEF RestIn, RestOut, SomethingLeft, Doomed
      <4>5. (Due(c) => edge[c]) => (Due(c)' => edge'[c])
        BY <2>1 DEF Due
      <4>6. InEvent(c)'
        BY <2>1, <4>1, <4>3, <4>4, <4>5 DEF InEvent
      <4> QED BY <3>1, <4>6 DEF Placed
    <3>2. CASE ~(c = client /\ step # "next")
      BY <2>1, <3>2 DEF ClientInv, Placed, RestIn, RestOut, SomethingLeft, FlagsHold, Due
    <3> QED BY <3>1, <3>2
  <2>3. Ended(c)'
    BY <2>1 DEF ClientInv, Ended
  <2>4. Kept(c)'
    <3>1. Units(c)' = heard[c] \o wire[c] \o sendBuf[c] \o Append(inbox[c], said[c] + 1)
      BY <2>1 DEF Units
    <3>2. Units(c)' = Append(Units(c), said[c] + 1)
      <4> DEFINE taken == heard[c] \o wire[c] \o sendBuf[c]
                 next == said[c] + 1
      <4>1. taken \in Seq(Nat) /\ inbox[c] \in Seq(Nat) /\ next \in Nat
        OBVIOUS
      <4>2. taken \o Append(inbox[c], next) = Append(taken \o inbox[c], next)
        <5> HIDE DEF taken, next
        <5> QED BY <4>1, CatSaid
      <4> QED BY <3>1, <4>2 DEF Units
    <3>3. Units(c)' = [k \in 1 .. said'[c] |-> k]
      BY <2>1, <3>2, NextUnit DEF ClientInv, Kept, Reset
    <3> QED BY <2>1, <3>3 DEF Kept, Reset
  <2> QED BY <2>2, <2>3, <2>4 DEF ClientInv
<1> QED BY <1>1, <1>2, <1>3, <1>4 DEF EpollInv

LEMMA HearStep ==
  ASSUME EpollInv, NEW c \in Peers, Hear(c)
  PROVE  EpollInv'
<1> DEFINE first == Head(wire[c])
           rest == Tail(wire[c])
           more == Append(heard[c], first)
<1>0. /\ EpollTypes /\ wire[c] \in Seq(Nat) /\ wire[c] # <<>> /\ heard[c] \in Seq(Nat)
      /\ mate[c] # "gone"
  BY DEF EpollInv, EpollTypes, Hear
<1>1. /\ rest \in Seq(Nat) /\ Len(rest) = Len(wire[c]) - 1 /\ Len(wire[c]) \in Nat
      /\ more \in Seq(Nat) /\ Len(more) = Len(heard[c]) + 1
  BY <1>0
<1>2. /\ wire' = [wire EXCEPT ![c] = rest] /\ heard' = [heard EXCEPT ![c] = more]
      /\ edge' = [edge EXCEPT ![c] = @ \/ (interest[c] = "out" /\ Len(wire[c]) = SndBuf)]
      /\ UNCHANGED <<loop, events, accepting, client, step, state, recvBuf, sendBuf, interest,
                     sock, inbox, mate, said, refusals>>
  BY DEF Hear, clientBufs
<1> HIDE DEF rest, more
<1> USE <1>2
<1>2a. /\ wire'[c] = rest /\ heard'[c] = more
       /\ edge'[c] = (edge[c] \/ (interest[c] = "out" /\ Len(wire[c]) = SndBuf))
  BY <1>0 DEF EpollTypes
<1>3. EpollTypes'
  <2>1. wire' \in [Peers -> Seq(Nat)] /\ heard' \in [Peers -> Seq(Nat)]
    BY <1>0, <1>1 DEF EpollTypes
  <2>2. edge' \in [Peers -> BOOLEAN]
    BY <1>0 DEF EpollTypes
  <2> QED BY <1>0, <2>1, <2>2 DEF EpollTypes
<1>4. BatchInv'
  BY DEF EpollInv, BatchInv
<1>5. ASSUME NEW d \in Peers, d # c PROVE ClientInv(d)'
  BY <1>5, OthersStay DEF EpollInv, EpollTypes, Same
<1>6. ClientInv(c)'
  <2>0. ClientInv(c)
    BY DEF EpollInv
  <2>1. Len(wire[c]) <= SndBuf
    BY <2>0 DEF ClientInv, Ended
  <2>1a. Len(wire'[c]) < SndBuf => Len(wire[c]) < SndBuf \/ Len(wire[c]) = SndBuf
    BY <1>1, <2>1, EpollAssumption
  <2>1b. interest[c] = "out" /\ Len(wire'[c]) < SndBuf => Len(wire[c]) < SndBuf \/ edge'[c]
    BY <1>2a, <2>1a
  <2>2. Placed(c)'
    <3>1. (Due(c) => edge[c]) => (Due(c)' => edge'[c])
      BY <1>2a, <2>1b DEF Due
    <3>2. c \in DOMAIN events /\ FlagsHold(c) => FlagsHold(c)'
      BY <1>2a, <2>1b DEF FlagsHold
    <3>3. /\ (RestIn(c)' <=> RestIn(c)) /\ (RestOut(c) <=> RestOut(c)')
          /\ (SomethingLeft(c) <=> SomethingLeft(c)') /\ (Doomed(c) <=> Doomed(c)')
          /\ (AllEchoed(c) <=> AllEchoed(c)')
      BY DEF RestIn, RestOut, SomethingLeft, Doomed, AllEchoed
    <3>4. InEvent(c) => InEvent(c)'
      BY <3>1, <3>3 DEF InEvent
    <3> QED BY <2>0, <3>1, <3>2, <3>3, <3>4 DEF ClientInv, Placed
  <2>3. Ended(c)'
    <3>1. Len(heard'[c]) = Len(heard[c]) + 1 /\ Len(wire'[c]) = Len(wire[c]) - 1
      BY <1>1, <1>2a
    <3>2. Len(heard[c]) \in Nat /\ said[c] \in Nat /\ SndBuf \in Nat
      BY <1>0, EpollAssumption DEF EpollTypes
    <3>3. Len(wire'[c]) <= SndBuf
      BY <1>1, <2>1, <3>1, <3>2
    <3>4. mate'[c] = "done" => said'[c] <= Len(heard'[c]) + 1
      BY <2>0, <3>1, <3>2 DEF ClientInv, Ended
    <3>5. /\ sock'[c] = "closed" => mate'[c] # "up"
          /\ c \in DOMAIN events' /\ "rdhup" \in events'[c] => mate'[c] # "up"
      BY <2>0 DEF ClientInv, Ended
    <3> QED BY <3>3, <3>4, <3>5 DEF Ended
  <2>4. Kept(c)'
    <3>1. heard'[c] \o wire'[c] = heard[c] \o wire[c]
      BY <1>0, <1>2a, CatHeard DEF rest, more
    <3>2. Units(c)' = Units(c)
      BY <3>1 DEF Units
    <3> QED BY <1>0, <2>0, <3>2 DEF ClientInv, Kept, Reset
  <2> QED BY <2>2, <2>3, <2>4 DEF ClientInv
<1> QED BY <1>3, <1>4, <1>5, <1>6 DEF EpollInv

LEMMA HangUpStep ==
  ASSUME EpollInv, NEW c \in Peers, NEW how \in {"done", "hasty", "gone"}, HangUp(c, how)
  PROVE  EpollInv'
<1> USE DEF HangUp, clientBufs, socketVars
<1>1. EpollTypes'
  BY DEF EpollInv, EpollTypes
<1>2. BatchInv'
  BY DEF EpollInv, BatchInv
<1>3. ASSUME NEW d \in Peers, d # c PROVE ClientInv(d)'
  BY <1>3, OthersStay DEF EpollInv, EpollTypes, Same
<1>4. ClientInv(c)'
  <2>1. /\ ClientInv(c) /\ sock[c] \in {"backlog", "open"} /\ mate[c] = "up"
        /\ mate'[c] = how /\ edge'[c] /\ how # "up"
    BY DEF Linked, EpollInv, EpollTypes
  <2>2. c \in DOMAIN events => "rdhup" \notin events[c]
    BY <2>1 DEF ClientInv, Ended
  <2>3. Placed(c)'
    <3>1. CASE c = client /\ step # "next"
      <4>1. InEvent(c) /\ c \in DOMAIN events
        BY <2>1, <3>1, EpollAssumption DEF EpollInv, BatchInv, ClientInv, Placed
      <4>2. AllEchoed(c)'
        BY <2>2, <4>1 DEF AllEchoed
      <4>3. (RestIn(c)' <=> RestIn(c)) /\ (RestOut(c) => RestOut(c)')
            /\ (SomethingLeft(c) => SomethingLeft(c)') /\ ~Doomed(c)
        BY <2>1 DEF RestIn, RestOut, SomethingLeft, Doomed
      <4>4. InEvent(c)'
        BY <2>1, <4>1, <4>2, <4>3 DEF InEvent
      <4> QED BY <3>1, <4>4 DEF Placed
    <3>2. CASE ~(c = client /\ step # "next")
      BY <2>1, <3>2 DEF ClientInv, Placed, RestIn, RestOut, SomethingLeft, FlagsHold
    <3> QED BY <3>1, <3>2
  <2>4. Ended(c)'
    <3>1. how = "done" => said[c] <= Len(heard[c]) + 1
      BY DEF EpollInv, EpollTypes
    <3> QED BY <2>1, <3>1 DEF ClientInv, Ended
  <2>5. Kept(c)'
    BY <2>1 DEF ClientInv, Kept, Reset, Units
  <2> QED BY <2>3, <2>4, <2>5 DEF ClientInv
<1> QED BY <1>1, <1>2, <1>3, <1>4 DEF EpollInv

LEMMA SetupStep == EpollInv /\ Setup => EpollInv'
<1> SUFFICES ASSUME EpollInv, Setup PROVE EpollInv'
  OBVIOUS
<1> USE DEF Setup, clientBufs, epollVars, socketVars, mateVars
<1>1. EpollTypes'
  BY DEF EpollInv, EpollTypes
<1>2. BatchInv'
  BY DEF EpollInv, BatchInv
<1>3. ASSUME NEW d \in Peers PROVE ClientInv(d)'
  BY OthersStay DEF EpollInv, Same
<1> QED BY <1>1, <1>2, <1>3 DEF EpollInv

\* Whoever has something due is on the ready list, and its flags say what.
LEMMA WaitStep == EpollInv /\ Wait => EpollInv'
<1> SUFFICES ASSUME EpollInv, Wait PROVE EpollInv'
  OBVIOUS
<1> USE DEF Wait, clientBufs, socketVars, mateVars
<1>1. EpollTypes'
  BY DEF EpollInv, EpollTypes
<1>2. client = Nobody /\ step = "next" /\ DOMAIN events = {} /\ Ready \subseteq Peers
  BY DEF EpollInv, BatchInv, Ready, Opened
<1>3. /\ DOMAIN events' = Ready
      /\ \A c \in Ready : /\ events'[c] = Flags(c) /\ Flags(c) # {} /\ sock[c] = "open"
                          /\ Flags(c) \subseteq {"in", "out", "rdhup"}
  BY DEF Ready, Opened, Flags, FlagsOf
<1>4. BatchInv'
  BY <1>2, <1>3 DEF BatchInv
<1>5. ASSUME NEW c \in Peers PROVE ClientInv(c)'
  <2>0. /\ ClientInv(c) /\ edge'[c] = FALSE /\ interest[c] \in {"in", "out"}
        /\ c # client' /\ c # client
    BY <1>2, EpollAssumption DEF EpollInv, EpollTypes
  <2>1. RestIn(c)' \/ RestOut(c)' \/ sock[c] = "closed"
    BY <1>2, <2>0 DEF ClientInv, Placed, RestIn, RestOut, SomethingLeft
  <2>2. c \in Ready => FlagsHold(c)'
    BY <1>3, <2>0 DEF FlagsHold, Flags, FlagsOf
  <2>3. Due(c) => Flags(c) # {}
    BY DEF Due, Flags, FlagsOf
  <2>4. sock[c] = "open" /\ c \notin Ready => ~Due(c)
    BY <1>2, <2>0, <2>3 DEF ClientInv, Placed, Ready, Opened
  <2>5. Due(c)' <=> Due(c)
    BY DEF Due
  <2>6. Placed(c)'
    BY <1>3, <2>0, <2>1, <2>2, <2>4, <2>5 DEF Placed
  <2>7. Ended(c)'
    BY <1>3, <2>0 DEF ClientInv, Ended, Flags, FlagsOf
  <2>8. Kept(c)'
    BY <2>0 DEF ClientInv, Kept, Reset, Units
  <2> QED BY <2>6, <2>7, <2>8 DEF ClientInv
<1> QED BY <1>1, <1>4, <1>5 DEF EpollInv

LEMMA NewClientStep ==
  ASSUME EpollInv, NEW c \in Peers, NewClient(c)
  PROVE  EpollInv'
<1> USE DEF NewClient, clientBufs, mateVars
<1>1. EpollTypes'
  BY DEF EpollInv, EpollTypes
<1>2. c \notin DOMAIN events /\ sock[c] = "backlog" /\ c # client /\ ClientInv(c)
  BY EpollAssumption DEF EpollInv, BatchInv, Waiting
<1>3. BatchInv'
  BY <1>2 DEF EpollInv, BatchInv, EpollTypes
<1>4. ASSUME NEW d \in Peers, d # c PROVE ClientInv(d)'
  BY <1>4, OthersStay DEF EpollInv, EpollTypes, Same
<1>5. ClientInv(c)'
  <2>1. sock'[c] = "open" /\ edge'[c] = (Flags(c) # {})
    BY DEF EpollInv, EpollTypes
  <2>2. Due(c)' => Flags(c) # {}
    BY DEF Due, Flags, FlagsOf
  <2>3. Placed(c)'
    BY <1>2, <2>1, <2>2 DEF ClientInv, Placed, RestIn, RestOut, SomethingLeft
  <2>4. Ended(c)'
    BY <1>2, <2>1 DEF ClientInv, Ended
  <2>5. Kept(c)'
    BY <1>2, <2>1 DEF ClientInv, Kept, Reset, Units
  <2> QED BY <2>3, <2>4, <2>5 DEF ClientInv
<1> QED BY <1>1, <1>3, <1>4, <1>5 DEF EpollInv

LEMMA NoNewClientStep == EpollInv /\ NoNewClient => EpollInv'
<1> SUFFICES ASSUME EpollInv, NoNewClient PROVE EpollInv'
  OBVIOUS
<1> USE DEF NoNewClient, clientBufs, epollVars, socketVars, mateVars
<1>1. EpollTypes' /\ BatchInv'
  BY DEF EpollInv, EpollTypes, BatchInv
<1>2. ASSUME NEW d \in Peers PROVE ClientInv(d)'
  BY OthersStay DEF EpollInv, Same
<1> QED BY <1>1, <1>2 DEF EpollInv

LEMMA BatchDoneStep == EpollInv /\ BatchDone => EpollInv'
<1> SUFFICES ASSUME EpollInv, BatchDone PROVE EpollInv'
  OBVIOUS
<1> USE DEF BatchDone, clientBufs, epollVars, socketVars, mateVars
<1>1. DOMAIN events = {}
  OBVIOUS
<1>2. EpollTypes' /\ BatchInv'
  BY <1>1 DEF EpollInv, EpollTypes, BatchInv
<1>3. ASSUME NEW d \in Peers PROVE ClientInv(d)'
  BY OthersStay DEF EpollInv, Same
<1> QED BY <1>2, <1>3 DEF EpollInv

LEMMA EventStep ==
  ASSUME EpollInv, NEW c \in Peers, Event(c)
  PROVE  EpollInv'
<1> USE DEF Event, clientBufs, epollVars, socketVars, mateVars
<1>0. /\ EpollTypes /\ client' = c /\ loop = "events" /\ step = "next" /\ c \in DOMAIN events
      /\ sock[c] = "open" /\ c # client /\ step' \in {"recv", "send", "out done"}
  BY EpollAssumption DEF EpollInv, BatchInv, AfterInput
<1>1. EpollTypes'
  BY <1>0 DEF EpollTypes, EventSteps
<1>2. BatchInv'
  BY <1>0, EpollAssumption DEF EpollInv, BatchInv
<1>3. ASSUME NEW d \in Peers, d # c PROVE ClientInv(d)'
  BY <1>0, <1>3, EpollAssumption, OthersStay DEF EpollInv, Same
<1>4. ClientInv(c)'
  <2>1. ClientInv(c) /\ (RestIn(c) \/ RestOut(c)) /\ FlagsHold(c)
    BY <1>0 DEF EpollInv, ClientInv, Placed
  <2>2. /\ RestIn(c) <=> RestIn(c)'
        /\ RestOut(c) <=> RestOut(c)'
        /\ Due(c) <=> Due(c)'
    BY DEF RestIn, RestOut, SomethingLeft, Due
  <2>3. interest[c] = "in" => RestIn(c)
    BY <2>1 DEF RestOut
  <2>4. interest[c] = "out" => RestOut(c)
    BY <2>1 DEF RestIn
  <2>5. CASE "in" \in events[c]
    <3>1. /\ step' = "recv" /\ RestIn(c) /\ "out" \notin events[c]
          /\ inbox[c] # <<>> \/ mate[c] # "up"
      BY <2>1, <2>3, <2>5 DEF FlagsHold
    <3> QED BY <1>0, <2>1, <2>2, <3>1 DEF Placed, InEvent, ClientInv, Ended, Kept, Reset, Units
  <2>6. CASE "in" \notin events[c] /\ "out" \in events[c]
    <3>1. step' = "send" /\ RestOut(c)
      BY <2>1, <2>4, <2>6 DEF FlagsHold, AfterInput
    <3> QED BY <1>0, <2>1, <2>2, <3>1 DEF Placed, InEvent, ClientInv, Ended, Kept, Reset, Units
  <2>7. CASE "in" \notin events[c] /\ "out" \notin events[c]
    <3>1. step' = "out done" /\ interest[c] = "out"
      BY <1>0, <2>1, <2>7 DEF FlagsHold, AfterInput, EpollTypes
    <3>2. RestOut(c) /\ (Due(c) => edge[c])
      BY <2>1, <2>4, <2>7, <3>1 DEF FlagsHold, Due
    <3> QED BY <1>0, <2>1, <2>2, <3>1, <3>2 DEF Placed, InEvent, ClientInv, Ended, Kept, Reset, Units
  <2> QED BY <2>5, <2>6, <2>7
<1> QED BY <1>1, <1>2, <1>3, <1>4 DEF EpollInv

\* The client whose event is handled.
LEMMA TheClient ==
  ASSUME EpollInv, step # "next"
  PROVE  /\ EpollTypes /\ client \in Peers /\ client \in DOMAIN events /\ sock[client] = "open"
         /\ loop = "events" /\ ClientInv(client) /\ InEvent(client)
         /\ interest[client] \in {"in", "out"} /\ mate[client] \in {"up", "done", "hasty", "gone"}
         /\ state[client] \in {"RECEIVING", "SENDING", "DISCONNECTED"}
         /\ heard[client] \in Seq(Nat) /\ wire[client] \in Seq(Nat)
         /\ sendBuf[client] \in Seq(Nat) /\ inbox[client] \in Seq(Nat) /\ said[client] \in Nat
<1>1. /\ EpollTypes /\ client \in Peers /\ client \in DOMAIN events /\ sock[client] = "open"
      /\ loop = "events" /\ ClientInv(client)
  BY DEF EpollInv, BatchInv
<1>2. InEvent(client)
  BY <1>1 DEF ClientInv, Placed
<1> QED BY <1>1, <1>2 DEF EpollTypes

\* A step of the server that leaves it in the event.
LEMMA StillInEvent ==
  ASSUME EpollInv, step # "next", step' \in EventSteps, UNCHANGED <<loop, events, client, sock>>
  PROVE  BatchInv'
BY DEF EpollInv, BatchInv, EventSteps

LEMMA RecvStep == EpollInv /\ RecvRequests => EpollInv'
<1> SUFFICES ASSUME EpollInv, RecvRequests PROVE EpollInv'
  OBVIOUS
<1>c. PICK c \in Peers : c = client
  BY TheClient DEF RecvRequests
<1> USE <1>c
<1>0. /\ EpollTypes /\ c \in DOMAIN events /\ sock[c] = "open"
      /\ ClientInv(c) /\ RestIn(c) /\ "out" \notin events[c]
      /\ inbox[c] # <<>> \/ mate[c] # "up"
      /\ heard[c] \in Seq(Nat) /\ wire[c] \in Seq(Nat) /\ inbox[c] \in Seq(Nat)
  BY TheClient DEF RecvRequests, InEvent
<1>1. /\ step' = "switch out" /\ inbox' = [inbox EXCEPT ![c] = <<>>]
      /\ UNCHANGED <<loop, events, accepting, client, interest, edge, sock, wire, mate, said,
                     heard, refusals>>
  BY DEF RecvRequests, epollVars, mateVars
<1>2. \/ /\ state' = [state EXCEPT ![c] = "SENDING"]
         /\ recvBuf' = [recvBuf EXCEPT ![c] = inbox[c]]
         /\ sendBuf' = [sendBuf EXCEPT ![c] = inbox[c]]
      \/ /\ mate[c] = "gone" /\ state' = [state EXCEPT ![c] = "DISCONNECTED"]
         /\ UNCHANGED <<recvBuf, sendBuf>>
  <2>1. RecvData(c) = inbox[c]
    <3>1. <<>> \o inbox[c] = inbox[c]
      BY <1>0, ConcatEmptySeq
    <3> QED BY <1>0, <3>1 DEF RecvData, RestIn
  <2>2. [recvBuf EXCEPT ![c] = inbox[c]][c] = inbox[c]
    BY <1>0 DEF EpollTypes
  <2> QED BY <2>1, <2>2 DEF RecvRequests
<1>3. EpollTypes'
  <2>1. inbox' \in [Peers -> Seq(Nat)]
    <3>1. <<>> \in Seq(Nat)
      OBVIOUS
    <3> QED BY <1>0, <1>1, <3>1 DEF EpollTypes
  <2>2. /\ state' \in [Peers -> {"RECEIVING", "SENDING", "DISCONNECTED"}]
        /\ recvBuf' \in [Peers -> Seq(Nat)] /\ sendBuf' \in [Peers -> Seq(Nat)]
    BY <1>0, <1>2 DEF EpollTypes
  <2> QED BY <1>0, <1>1, <2>1, <2>2 DEF EpollTypes, EventSteps
<1>4. BatchInv'
  BY <1>1, StillInEvent DEF EventSteps, RecvRequests
<1>5. ASSUME NEW d \in Peers, d # c PROVE ClientInv(d)'
  <2>1. Same(d)
    BY <1>0, <1>1, <1>2, <1>5 DEF EpollTypes, Same
  <2> QED BY <1>1, <1>5, <2>1, OthersStay DEF EpollInv
<1>6. ClientInv(c)'
  <2>1. inbox'[c] = <<>> /\ interest[c] = "in" /\ sendBuf[c] = <<>>
    BY <1>0, <1>1 DEF EpollTypes, RestIn
  <2>2. Ended(c)'
    BY <1>0, <1>1 DEF ClientInv, Ended
  <2>3. CASE /\ state' = [state EXCEPT ![c] = "SENDING"]
             /\ sendBuf' = [sendBuf EXCEPT ![c] = inbox[c]]
    <3>1. state'[c] = "SENDING" /\ sendBuf'[c] = inbox[c]
      BY <1>0, <2>3 DEF EpollTypes
    <3>2. SomethingLeft(c)'
      BY <1>0, <1>1, <2>1, <3>1 DEF SomethingLeft
    <3>3. Placed(c)'
      BY <1>0, <1>1, <2>1, <3>2 DEF Placed, InEvent
    <3>4. Kept(c)'
      <4> DEFINE taken == heard[c] \o wire[c]
      <4>1. taken \in Seq(Nat)
        BY <1>0
      <4>2. taken \o inbox[c] \o <<>> = taken \o <<>> \o inbox[c]
        <5> HIDE DEF taken
        <5> QED BY <1>0, <4>1, CatReceived
      <4>3. Units(c)' = Units(c)
        BY <1>1, <2>1, <3>1, <4>2 DEF Units
      <4> QED BY <1>0, <1>1, <2>1, <4>3 DEF ClientInv, Kept, Reset
    <3> QED BY <2>2, <3>3, <3>4 DEF ClientInv
  <2>4. CASE mate[c] = "gone" /\ state' = [state EXCEPT ![c] = "DISCONNECTED"]
    <3>1. state'[c] = "DISCONNECTED" /\ mate'[c] = "gone"
      BY <1>0, <1>1, <2>4 DEF EpollTypes
    <3>2. Placed(c)'
      BY <1>0, <1>1, <2>1, <3>1 DEF Placed, InEvent, Doomed
    <3>3. Kept(c)'
      BY <3>1 DEF Kept, Reset
    <3> QED BY <2>2, <3>2, <3>3 DEF ClientInv
  <2> QED BY <1>2, <2>3, <2>4
<1> QED BY <1>3, <1>4, <1>5, <1>6 DEF EpollInv

LEMMA SwitchOutStep == EpollInv /\ SwitchToOutput => EpollInv'
<1> SUFFICES ASSUME EpollInv, SwitchToOutput PROVE EpollInv'
  OBVIOUS
<1> DEFINE c == client
<1> USE DEF SwitchToOutput, Modify, clientBufs, socketVars, mateVars
<1>0. /\ EpollTypes /\ c \in Peers /\ c \in DOMAIN events /\ sock[c] = "open" /\ ClientInv(c)
      /\ "out" \notin events[c] /\ (SomethingLeft(c) \/ Doomed(c)) /\ step' = "out done"
  BY TheClient DEF InEvent, AfterInput
<1>1. EpollTypes'
  BY <1>0 DEF EpollTypes, EventSteps
<1>2. BatchInv'
  BY <1>0, StillInEvent DEF EventSteps
<1>3. ASSUME NEW d \in Peers, d # c PROVE ClientInv(d)'
  BY <1>3, OthersStay DEF EpollInv, EpollTypes, Same
<1>4. ClientInv(c)'
  <2>1. interest'[c] = "out" /\ edge'[c] = (edge[c] \/ FlagsOf(c, "out") # {})
    BY <1>0 DEF EpollTypes
  <2>2. Due(c)' => edge'[c]
    BY <2>1 DEF Due, FlagsOf
  <2>3. Placed(c)'
    BY <1>0, <2>1, <2>2 DEF Placed, InEvent, RestOut, SomethingLeft, Doomed
  <2> QED BY <1>0, <2>3 DEF ClientInv, Ended, Kept, Reset, Units
<1> QED BY <1>1, <1>2, <1>3, <1>4 DEF EpollInv

LEMMA SwitchInStep == EpollInv /\ SwitchToInput => EpollInv'
<1> SUFFICES ASSUME EpollInv, SwitchToInput PROVE EpollInv'
  OBVIOUS
<1> DEFINE c == client
<1> USE DEF SwitchToInput, Modify, clientBufs, socketVars, mateVars
<1>0. /\ EpollTypes /\ c \in Peers /\ c \in DOMAIN events /\ sock[c] = "open" /\ ClientInv(c)
      /\ state[c] = "RECEIVING" /\ sendBuf[c] = <<>> /\ recvBuf[c] = <<>> /\ AllEchoed(c)
  BY TheClient DEF InEvent
<1>1. EpollTypes'
  BY <1>0 DEF EpollTypes, EventSteps
<1>2. BatchInv'
  BY StillInEvent DEF EventSteps
<1>3. ASSUME NEW d \in Peers, d # c PROVE ClientInv(d)'
  BY <1>3, OthersStay DEF EpollInv, EpollTypes, Same
<1>4. ClientInv(c)'
  <2>1. interest'[c] = "in" /\ edge'[c] = (edge[c] \/ FlagsOf(c, "in") # {})
    BY <1>0 DEF EpollTypes
  <2>2. Due(c)' => edge'[c]
    BY <2>1 DEF Due, FlagsOf
  <2>3. Placed(c)'
    BY <1>0, <2>1, <2>2 DEF Placed, InEvent, RestIn, AllEchoed
  <2> QED BY <1>0, <2>3 DEF ClientInv, Ended, Kept, Reset, Units
<1> QED BY <1>1, <1>2, <1>3, <1>4 DEF EpollInv

LEMMA SendFailsStep == EpollInv /\ SendFails => EpollInv'
<1> SUFFICES ASSUME EpollInv, SendFails PROVE EpollInv'
  OBVIOUS
<1> DEFINE c == client
<1> USE DEF SendFails, epollVars, socketVars, mateVars
<1>0. /\ EpollTypes /\ c \in Peers /\ c \in DOMAIN events /\ sock[c] = "open" /\ ClientInv(c)
      /\ RestOut(c) /\ mate[c] = "gone" /\ loop = "events"
  BY TheClient DEF InEvent
<1>1. EpollTypes'
  BY <1>0 DEF EpollTypes, EventSteps
<1>2. BatchInv'
  BY <1>0 DEF EpollInv, BatchInv
<1>3. ASSUME NEW d \in Peers, d # c PROVE ClientInv(d)'
  BY <1>3, OthersStay DEF EpollInv, EpollTypes, Same
<1>4. Placed(c)'
  <2>1. CASE step' = "out done"
    <3>1. state'[c] = "DISCONNECTED"
      BY <1>0, <2>1 DEF EpollTypes
    <3> QED BY <1>0, <2>1, <3>1 DEF Placed, InEvent, Doomed
  <2>2. CASE step' = "next" /\ UNCHANGED state
    BY <1>0, <2>2 DEF Placed, RestOut, SomethingLeft
  <2> QED BY <2>1, <2>2
<1>5. ClientInv(c)'
  BY <1>0, <1>4 DEF ClientInv, Ended, Kept, Reset, Units
<1> QED BY <1>1, <1>2, <1>3, <1>5 DEF EpollInv

LEMMA EventEndsStep == EpollInv /\ EventEnds => EpollInv'
<1> SUFFICES ASSUME EpollInv, EventEnds PROVE EpollInv'
  OBVIOUS
<1>c. PICK c \in Peers : c = client
  BY TheClient DEF EventEnds
<1> USE <1>c
<1>0. /\ EpollTypes /\ c \in DOMAIN events /\ sock[c] = "open" /\ ClientInv(c) /\ loop = "events"
      /\ \/ ((RestIn(c) /\ AllEchoed(c)) \/ RestOut(c)) /\ (Due(c) => edge[c])
         \/ Doomed(c)
  BY TheClient DEF EventEnds, InEvent
<1>1. /\ client' = Nobody /\ step' = "next"
      /\ DOMAIN events' = DOMAIN events \ {c} /\ \A d \in DOMAIN events' : events'[d] = events[d]
      /\ UNCHANGED <<loop, accepting, interest, inbox, mate, said, heard, refusals>>
  BY DEF EventEnds, mateVars
<1>2. CASE Disconnected(c)
  <2>1. /\ sock' = [sock EXCEPT ![c] = "closed"] /\ edge' = [edge EXCEPT ![c] = FALSE]
        /\ state' = [state EXCEPT ![c] = "DISCONNECTED"]
        /\ recvBuf' = [recvBuf EXCEPT ![c] = <<>>] /\ sendBuf' = [sendBuf EXCEPT ![c] = <<>>]
        /\ wire' = [wire EXCEPT ![c] = IF inbox[c] = <<>> THEN wire[c] ELSE <<>>]
    BY <1>2 DEF EventEnds
  <2>2. EpollTypes'
    BY <1>0, <1>1, <2>1, NoUnits DEF EpollTypes, EventSteps
  <2>3. BatchInv'
    <3>1. ASSUME NEW d \in DOMAIN events' PROVE d \in Peers /\ sock'[d] = sock[d]
      <4>1. d \in Peers /\ d # c
        BY <1>1 DEF EpollInv, BatchInv
      <4> QED BY <1>0, <2>1, <4>1 DEF EpollTypes
    <3> QED BY <1>0, <1>1, <3>1 DEF EpollInv, BatchInv
  <2>4. ASSUME NEW d \in Peers, d # c PROVE ClientInv(d)'
    <3>1. Same(d)
      BY <1>0, <1>1, <2>1, <2>4 DEF EpollTypes, Same
    <3>2. d # client /\ d # client'
      BY <1>1, <2>4, EpollAssumption
    <3> QED BY <3>1, <3>2, OthersStay DEF EpollInv
  <2>5. /\ sock'[c] = "closed" /\ sendBuf'[c] = <<>>
        /\ state[c] = "DISCONNECTED" \/ ("rdhup" \in events[c] /\ state[c] = "RECEIVING")
    BY <1>0, <1>2, <2>1 DEF EpollTypes, Disconnected
  <2>6. Doomed(c) \/ ("rdhup" \in events[c] /\ RestIn(c) /\ AllEchoed(c))
    BY <1>0, <2>5 DEF RestIn, RestOut, SomethingLeft
  <2>7. mate[c] # "up"
    BY <1>0, <2>6 DEF ClientInv, Ended, Doomed
  <2>8. Placed(c)'
    BY <2>5 DEF Placed
  <2>9. Ended(c)'
    <3>1. Len(wire'[c]) <= SndBuf
      <4>1. wire'[c] = wire[c] \/ wire'[c] = <<>>
        BY <1>0, <2>1 DEF EpollTypes
      <4> QED BY <1>0, <4>1, EpollAssumption DEF ClientInv, Ended
    <3> QED BY <1>0, <1>1, <2>7, <3>1 DEF ClientInv, Ended
  <2>10. Kept(c)'
    <3>1. CASE Doomed(c)
      BY <1>1, <3>1 DEF Doomed, Kept, Reset
    <3>2. CASE "rdhup" \in events[c] /\ RestIn(c) /\ AllEchoed(c)
      <4>1. ~Reset(c)' => Units(c)' = Units(c) /\ ~Reset(c)
        <5>1. inbox[c] = <<>> => wire'[c] = wire[c]
          BY <1>0, <2>1 DEF EpollTypes
        <5> QED BY <1>0, <1>1, <2>5, <3>2, <5>1 DEF Units, RestIn, Reset
      <4> QED BY <1>0, <1>1, <2>7, <3>2, <4>1 DEF ClientInv, Kept, Reset, AllEchoed
    <3> QED BY <2>6, <3>1, <3>2
  <2>11. ClientInv(c)'
    BY <2>8, <2>9, <2>10 DEF ClientInv
  <2> QED BY <2>2, <2>3, <2>4, <2>11 DEF EpollInv
<1>3. CASE ~Disconnected(c)
  <2>1. UNCHANGED <<sock, edge, state, recvBuf, sendBuf, wire>>
    BY <1>3 DEF EventEnds, clientBufs
  <2>2. EpollTypes'
    BY <1>0, <1>1, <2>1 DEF EpollTypes, EventSteps
  <2>3. BatchInv'
    BY <1>0, <1>1, <2>1 DEF EpollInv, BatchInv
  <2>4. ASSUME NEW d \in Peers, d # c PROVE ClientInv(d)'
    <3>1. Same(d)
      BY <1>0, <1>1, <2>1, <2>4 DEF Same
    <3>2. d # client /\ d # client'
      BY <1>1, <2>4, EpollAssumption
    <3> QED BY <3>1, <3>2, OthersStay DEF EpollInv
  <2>5. (RestIn(c) \/ RestOut(c)) /\ (Due(c) => edge[c])
    BY <1>0, <1>3 DEF Disconnected, Doomed
  <2>6. Placed(c)'
    BY <1>0, <1>1, <2>1, <2>5 DEF Placed, RestIn, RestOut, SomethingLeft, Due
  <2>7. ClientInv(c)'
    BY <1>0, <1>1, <2>1, <2>6 DEF ClientInv, Ended, Kept, Reset, Units
  <2> QED BY <2>2, <2>3, <2>4, <2>7 DEF EpollInv
<1> QED BY <1>2, <1>3

\* Of b units a buffer with w in it takes all or as many as fit.
LEMMA TakesWhatFits ==
  \A w, b, n \in Int :
    w \in 0 .. SndBuf /\ b >= 0 /\ n = (IF SndBuf - w < b THEN SndBuf - w ELSE b) =>
      n >= 0 /\ n <= b /\ w + n <= SndBuf /\ (n # b => w + n = SndBuf)
BY EpollAssumption

LEMMA OneShort ==
  \A u, h, w, b, i \in Nat : u <= h + 1 /\ u = h + w + b + i => b = 0 \/ i = 0
OBVIOUS

\* What was sent stays in order; what is not sent found no room.
LEMMA SendStep == EpollInv /\ SendResponses => EpollInv'
<1> SUFFICES ASSUME EpollInv, SendResponses PROVE EpollInv'
  OBVIOUS
<1>c. PICK c \in Peers : c = client
  BY TheClient DEF SendResponses
<1> USE <1>c
<1>0. /\ EpollTypes /\ c \in DOMAIN events /\ sock[c] = "open" /\ ClientInv(c) /\ RestOut(c)
      /\ heard[c] \in Seq(Nat) /\ wire[c] \in Seq(Nat) /\ sendBuf[c] \in Seq(Nat)
      /\ inbox[c] \in Seq(Nat) /\ said[c] \in Nat
  BY TheClient DEF SendResponses, InEvent
<1> DEFINE n == Sendable(c)
           now == SubSeq(sendBuf[c], 1, n)
           later == SubSeq(sendBuf[c], n + 1, Len(sendBuf[c]))
<1>1. /\ wire' = [wire EXCEPT ![c] = wire[c] \o now]
      /\ sendBuf' = [sendBuf EXCEPT ![c] = later]
      /\ UNCHANGED <<loop, events, accepting, client, interest, edge, sock, inbox, mate, said,
                     heard, refusals>>
      /\ IF n = Len(sendBuf[c])
           THEN /\ recvBuf' = [recvBuf EXCEPT ![c] = <<>>]
                /\ state' = [state EXCEPT ![c] = "RECEIVING"] /\ step' = "switch in"
           ELSE /\ recvBuf' = [recvBuf EXCEPT ![c] = recvBuf[c]]
                /\ state' = [state EXCEPT ![c] = state[c]] /\ step' = "out done"
  BY DEF SendResponses, epollVars, mateVars
<1>2. /\ n \in 0 .. Len(sendBuf[c]) /\ Len(wire[c]) + n <= SndBuf
      /\ n # Len(sendBuf[c]) => Len(wire[c]) + n = SndBuf
  <2>1. Len(wire[c]) \in Nat /\ Len(sendBuf[c]) \in Nat /\ Len(wire[c]) <= SndBuf /\ SndBuf \in Nat
    BY <1>0, EpollAssumption DEF ClientInv, Ended
  <2>2. n = (IF SndBuf - Len(wire[c]) < Len(sendBuf[c]) THEN SndBuf - Len(wire[c])
             ELSE Len(sendBuf[c]))
    BY DEF Sendable
  <2>3. n \in Int /\ Len(wire[c]) \in Int /\ Len(sendBuf[c]) \in Int
        /\ Len(wire[c]) \in 0 .. SndBuf /\ Len(sendBuf[c]) >= 0
    BY <2>1, <2>2
  <2> HIDE DEF n
  <2>4. n >= 0 /\ n <= Len(sendBuf[c]) /\ Len(wire[c]) + n <= SndBuf
        /\ (n # Len(sendBuf[c]) => Len(wire[c]) + n = SndBuf)
    BY ONLY <2>2, <2>3, TakesWhatFits
  <2> QED BY <2>3, <2>4
<1>3. /\ now \in Seq(Nat) /\ later \in Seq(Nat) /\ Len(now) = n
      /\ Len(later) = Len(sendBuf[c]) - n /\ now \o later = sendBuf[c]
  <2> HIDE DEF n
  <2> QED BY <1>0, <1>2, SplitAt
<1> HIDE DEF n, now, later
<1>4. wire[c] \o now \in Seq(Nat) /\ Len(wire[c] \o now) = Len(wire[c]) + n
  BY <1>0, <1>3, CatLength
<1>5. wire'[c] = wire[c] \o now /\ sendBuf'[c] = later
  BY <1>0, <1>1 DEF EpollTypes
<1>6. EpollTypes'
  <2>1. wire' \in [Peers -> Seq(Nat)] /\ sendBuf' \in [Peers -> Seq(Nat)]
    BY <1>0, <1>1, <1>3, <1>4 DEF EpollTypes
  <2>2. /\ recvBuf' \in [Peers -> Seq(Nat)] /\ step' \in EventSteps
        /\ state' \in [Peers -> {"RECEIVING", "SENDING", "DISCONNECTED"}]
    <3>1. state[c] \in {"RECEIVING", "SENDING", "DISCONNECTED"} /\ recvBuf[c] \in Seq(Nat)
      BY <1>0 DEF EpollTypes
    <3>2. CASE n = Len(sendBuf[c])
      <4>1. /\ recvBuf' = [recvBuf EXCEPT ![c] = <<>>]
            /\ state' = [state EXCEPT ![c] = "RECEIVING"] /\ step' = "switch in"
        BY <1>1, <3>2
      <4> QED BY ONLY <1>0, <4>1, NoUnits DEF EpollTypes, EventSteps
    <3>3. CASE n # Len(sendBuf[c])
      BY <1>0, <1>1, <3>1, <3>3 DEF EpollTypes, EventSteps
    <3> QED BY <3>2, <3>3
  <2> QED BY <1>0, <1>1, <2>1, <2>2 DEF EpollTypes
<1>7. BatchInv'
  BY <1>1, StillInEvent DEF EventSteps, SendResponses
<1>8. ASSUME NEW d \in Peers, d # c PROVE ClientInv(d)'
  <2>1. Same(d)
    BY <1>0, <1>1, <1>8 DEF EpollTypes, Same
  <2> QED BY <1>1, <1>8, <2>1, OthersStay DEF EpollInv
<1>9. ClientInv(c)'
  <2>1. Placed(c)'
    <3>1. CASE n = Len(sendBuf[c])
      <4>1. state'[c] = "RECEIVING" /\ recvBuf'[c] = <<>> /\ interest[c] = "out"
        BY <1>0, <1>1, <3>1 DEF EpollTypes, RestOut
      <4>2. sendBuf'[c] = <<>>
        BY <1>3, <1>5, <3>1
      <4>3. AllEchoed(c)'
        <5> SUFFICES ASSUME mate[c] = "done", inbox[c] # <<>> PROVE FALSE
          BY <1>1 DEF AllEchoed
        <5>1. sendBuf[c] # <<>>
          BY <1>0 DEF RestOut, SomethingLeft
        <5>2. Units(c) = [k \in 1 .. said[c] |-> k] /\ said[c] <= Len(heard[c]) + 1
          BY <1>0 DEF ClientInv, Ended, Kept, Reset
        <5>3. Len(Units(c)) = said[c]
          BY <1>0, <5>2
        <5> DEFINE hw == heard[c] \o wire[c]
                   hws == hw \o sendBuf[c]
        <5>4. /\ hw \in Seq(Nat) /\ Len(hw) = Len(heard[c]) + Len(wire[c])
              /\ Len(heard[c]) \in Nat /\ Len(wire[c]) \in Nat
          BY <1>0, CatLength
        <5>5. hws \in Seq(Nat) /\ Len(hws) = Len(hw) + Len(sendBuf[c])
          <6> HIDE DEF hw
          <6> QED BY <1>0, <5>4, CatLength
        <5>6. Len(hws \o inbox[c]) = Len(hws) + Len(inbox[c])
          <6> HIDE DEF hws
          <6> QED BY <1>0, <5>5, CatLength
        <5>7. Len(hws \o inbox[c]) = said[c]
          BY <5>3 DEF Units
        <5>8. Len(sendBuf[c]) \in Nat \ {0} /\ Len(inbox[c]) \in Nat \ {0}
          BY <1>0, <5>1
        <5>9. said[c] \in Nat
          BY <1>0
        <5>10. said[c] = Len(heard[c]) + Len(wire[c]) + Len(sendBuf[c]) + Len(inbox[c])
          <6> HIDE DEF hw, hws
          <6> QED BY <5>4, <5>5, <5>6, <5>7
        <5>11. said[c] <= Len(heard[c]) + 1
          BY <5>2
        <5> QED BY ONLY <5>4, <5>8, <5>9, <5>10, <5>11, OneShort
      <4> QED BY <1>0, <1>1, <3>1, <4>1, <4>2, <4>3 DEF Placed, InEvent
    <3>2. CASE n # Len(sendBuf[c])
      <4>1. state'[c] = "SENDING" /\ interest[c] = "out"
        BY <1>0, <1>1, <3>2 DEF EpollTypes, RestOut, SomethingLeft
      <4>2. sendBuf'[c] # <<>>
        BY <1>2, <1>3, <1>5, <3>2
      <4>3. Len(wire'[c]) = SndBuf
        BY <1>2, <1>4, <1>5, <3>2
      <4>4. RestOut(c)' /\ ~Due(c)'
        <5>1. interest'[c] = "out"
          BY <1>1, <4>1
        <5>2. ~(Len(wire'[c]) < SndBuf)
          BY <4>3, EpollAssumption
        <5> QED BY <4>1, <4>2, <5>1, <5>2 DEF RestOut, SomethingLeft, Due
      <4> QED BY <1>1, <3>2, <4>4 DEF Placed, InEvent
    <3> QED BY <3>1, <3>2
  <2>2. Ended(c)'
    BY <1>0, <1>1, <1>2, <1>4, <1>5 DEF ClientInv, Ended
  <2>3. Kept(c)'
    <3>1. (heard[c] \o (wire[c] \o now)) \o later = (heard[c] \o wire[c]) \o sendBuf[c]
      <4> DEFINE taken == heard[c] \o wire[c]
      <4>1. taken \in Seq(Nat)
        BY <1>0
      <4>2. heard[c] \o (wire[c] \o now) = taken \o now
        <5> DEFINE h == heard[c]
                   w == wire[c]
        <5>0. h \in Seq(Nat) /\ w \in Seq(Nat)
          BY <1>0
        <5>1. (h \o w) \o now = h \o (w \o now)
          <6> HIDE DEF h, w
          <6> QED BY <1>3, <5>0, CatsRegroup
        <5> QED BY <5>1
      <4> HIDE DEF taken
      <4>3. (taken \o now) \o later = taken \o (now \o later)
        BY <1>3, <4>1, CatsRegroup
      <4> QED BY <1>3, <4>2, <4>3 DEF taken
    <3>2. Units(c)' = Units(c)
      BY <1>1, <1>5, <3>1 DEF Units
    <3> QED BY <1>0, <1>1, <3>2 DEF ClientInv, Kept, Reset
  <2> QED BY <2>1, <2>2, <2>3 DEF ClientInv
<1> QED BY <1>6, <1>7, <1>8, <1>9 DEF EpollInv

LEMMA NextEpoll == EpollInv /\ [EpNext]_epollEchoVars => EpollInv'
<1> SUFFICES ASSUME EpollInv, [EpNext]_epollEchoVars PROVE EpollInv'
  OBVIOUS
<1>1. CASE \E c \in Peers : Dial(c) \/ Say(c) \/ Hear(c)
                            \/ \E how \in {"done", "hasty", "gone"} : HangUp(c, how)
  BY <1>1, DialStep, SayStep, HearStep, HangUpStep
<1>2. CASE \E c \in Peers : NewClient(c) \/ Event(c)
  BY <1>2, NewClientStep, EventStep
<1>3. CASE Setup \/ Wait \/ NoNewClient \/ BatchDone
  BY <1>3, SetupStep, WaitStep, NoNewClientStep, BatchDoneStep
<1>4. CASE \/ RecvRequests \/ SwitchToOutput \/ SendResponses \/ SendFails
           \/ SwitchToInput \/ EventEnds
  BY <1>4, RecvStep, SwitchOutStep, SendStep, SendFailsStep, SwitchInStep, EventEndsStep
<1>5. CASE UNCHANGED epollEchoVars
  <2> USE <1>5 DEF epollEchoVars, clientBufs, epollVars, socketVars, mateVars
  <2>1. EpollTypes' /\ BatchInv'
    BY DEF EpollInv, EpollTypes, BatchInv
  <2>2. ASSUME NEW d \in Peers PROVE ClientInv(d)'
    BY OthersStay DEF EpollInv, Same
  <2> QED BY <2>1, <2>2 DEF EpollInv
<1> QED BY <1>1, <1>2, <1>3, <1>4, <1>5 DEF EpNext, EpollServerStep

LEMMA EpollImpliesKept == EpollInv => EchoKept
<1> SUFFICES ASSUME EpollInv PROVE EchoKept
  OBVIOUS
<1>1. UnitsKept
  BY DEF EpollInv, ClientInv, Kept, UnitsKept
<1>2. NoEdgeMissed
  <2> SUFFICES ASSUME loop = "wait", NEW c \in Opened, Due(c) PROVE edge[c]
    BY DEF NoEdgeMissed
  <2>1. c \in Peers /\ sock[c] = "open" /\ c \notin DOMAIN events /\ client = Nobody
    BY DEF Opened, EpollInv, BatchInv
  <2> QED BY <2>1, EpollAssumption DEF EpollInv, ClientInv, Placed
<1> QED BY <1>1, <1>2 DEF EchoKept

\* EchoKept, of every number of clients, units and refusals and of every size of
\* the send buffer: no unit is lost, doubled or swapped between the sockets and
\* the buffers, and no wait of the event loop overlooks a client with something
\* due (epoll_server_example.c:106-189).
THEOREM EchoIsKept == EpInit /\ [][EpNext]_epollEchoVars => []EchoKept
<1>1. EpInit => EpollInv
  BY InitEpoll
<1>2. EpollInv /\ [EpNext]_epollEchoVars => EpollInv'
  BY NextEpoll
<1>3. EpollInv => EchoKept
  BY EpollImpliesKept
<1> QED BY <1>1, <1>2, <1>3, PTL

(***************************************************************************)
(* A connection of the web servers                                         *)
(***************************************************************************)
Current == Len(asked)
Kind == asked[Current]

\* Nothing is claimed of a connection whose client has left, has no name, has
\* asked for a directory or, of the forking server, for what calls for an error.
Disclaimed ==
  \/ left \/ handler = "unnamed" \/ "directory" \in ToSet(asked)
  \/ program = "forking" /\ ToSet(asked) \cap ForkingErrors # {}

HandlerTypes ==
  /\ answers \in Seq([status : Nat, length : Nat, body : Nat]) /\ Len(answers) <= Current
  /\ pieces \in Seq(Seq(Nat)) /\ Len(pieces) = Current
  /\ status \in Nat /\ position \in Nat

\* A request of which nothing or one half has come, or that has been torn.
Fresh == pieces[Current] = <<>> /\ coming = Text /\ bytesRead = 0 /\ request \in Leftovers
Half ==
  /\ program = "threaded" /\ pieces[Current] = <<1>> /\ coming = <<Text[2], Text[3]>>
  /\ bytesRead = 1 /\ request \in [0 .. 2 * Size -> ToSet(Text) \cup {Nul}]
  /\ request[0] = Text[1] /\ request[1] \in {Text[2], Nul}
  /\ \A i \in 2 .. 2 * Size : request[i] = Nul
Pieced == program = "threaded" /\ Torn(Current) /\ coming \in {<<>>, <<Text[3]>>}

Receiving ==
  \/ Len(answers) = Current /\ coming = <<>> /\ bytesRead = 0 /\ request \in Leftovers
  \/ Len(answers) + 1 = Current /\ (Fresh \/ Half \/ Pieced)

BeforeHead == {"parse", "open", "error", "head"}

\* Between requests the connection is as at its start, whatever was torn before.
Place ==
  /\ handler \in {"start", "recv"} => Receiving
  /\ handler \in BeforeHead => Len(answers) + 1 = Current
  /\ handler \in {"read", "sent"} => Len(answers) = Current /\ Current > 0
  /\ program = "threaded" /\ handler \in BeforeHead \cup {"read", "sent"} =>
       coming = <<>> /\ bytesRead = 0

WholeFile == [Head200 EXCEPT !.body = Blocks]

\* What is known of the request in hand, if it was not torn.
InHand ==
  /\ handler = "parse" => Whole(String(request))
  /\ handler = "open" => httpr = Kind /\ Kind \notin {"old", "put"}
  /\ handler = "error" => ErrorHead(status) = Expected(Kind)
  /\ handler = "head" => httpr = Kind /\ position = 0 /\ Expected(Kind) = WholeFile
  /\ handler = "read" =>
       /\ httpr = Kind /\ position <= Blocks /\ Expected(Kind) = WholeFile
       /\ answers[Current] = [Head200 EXCEPT !.body = position]

\* Of the answers that are complete.
Fine(k) == NotCovered(k) \/ (k \in DOMAIN asked /\ RightAnswer(k))
AllFine == \A k \in DOMAIN answers : Fine(k) \/ (k = Len(answers) /\ handler = "read")

Claims == HandlerTypes /\ Place /\ (~Torn(Current) => InHand) /\ AllFine

HandlerInv ==
  /\ asked \in Seq(Kinds) /\ left \in BOOLEAN /\ program \in {"threaded", "forking"}
  /\ ~Disclaimed => Claims

-----------------------------------------------------------------------------
(* The buffer *)

Cells == {"first", "second", "rest", "nul"}

LEMMA TextLength == Text \in Seq(Cells) /\ Len(Text) = 3 /\ Size = 3
BY DEF Text, Size, Cells

LEMMA TextIs == Text[1] = "first" /\ Text[2] = "second" /\ Text[3] = "rest" /\ Nul = "nul"
BY DEF Text, Nul

LEMMA BeginningIs ==
  ASSUME NEW t \in Seq(Cells), NEW n \in 0 .. Len(t)
  PROVE  Len(SubSeq(t, 1, n)) = n /\ \A i \in 1 .. n : SubSeq(t, 1, n)[i] = t[i]
OBVIOUS

LEMMA SameBeginning ==
  ASSUME NEW s \in Seq(Cells), NEW t \in Seq(Cells), Len(s) >= 2, Len(t) >= 2, s[1] = t[1], s[2] = t[2]
  PROVE  SubSeq(s, 1, 2) = SubSeq(t, 1, 2)
<1> DEFINE p == SubSeq(s, 1, 2)
           q == SubSeq(t, 1, 2)
<1>1. p \in Seq(Cells) /\ Len(p) = 2 /\ p[1] = s[1] /\ p[2] = s[2]
  OBVIOUS
<1>2. q \in Seq(Cells) /\ Len(q) = 2 /\ q[1] = t[1] /\ q[2] = t[2]
  OBVIOUS
<1> HIDE DEF p, q
<1>3. \A i \in 1 .. Len(p) : p[i] = q[i]
  <2>1. \A i \in 1 .. 2 : i = 1 \/ i = 2
    OBVIOUS
  <2> QED BY <1>1, <1>2, <2>1
<1>4. p = q
  BY <1>1, <1>2, <1>3, SeqEqual
<1> QED BY <1>4 DEF p, q

LEMMA ClearedIs == Cleared = [i \in 0 .. 6 |-> "nul"]
BY TextLength DEF Cleared, Nul

\* A buffer with a piece of t in it.
LEMMA PutIs ==
  ASSUME NEW b \in [0 .. 6 -> Cells], NEW t \in Seq(Cells), NEW n \in 0 .. Len(t), NEW o \in 0 .. 1
  PROVE  Put(b, o, SubSeq(t, 1, n)) =
           [i \in 0 .. 6 |-> IF i \in o .. o + n - 1 THEN t[i - o + 1] ELSE b[i]]
<1> DEFINE p == SubSeq(t, 1, n)
<1>1. Len(p) = n /\ \A i \in 1 .. n : p[i] = t[i]
  BY BeginningIs
<1> HIDE DEF p
<1>2. Put(b, o, p) = [i \in 0 .. 6 |-> IF i \in o .. o + n - 1 THEN p[i - o + 1] ELSE b[i]]
  BY <1>1 DEF Put
<1>3. \A i \in 0 .. 6 : i \in o .. o + n - 1 => p[i - o + 1] = t[i - o + 1]
  BY <1>1
<1>4. Put(b, o, p) = [i \in 0 .. 6 |-> IF i \in o .. o + n - 1 THEN t[i - o + 1] ELSE b[i]]
  BY <1>2, <1>3
<1> QED BY <1>4 DEF p

LEMMA LeftoverIs ==
  ASSUME NEW b \in Leftovers
  PROVE  /\ b \in [0 .. 6 -> Cells]
         /\ b[0] \in {"first", "nul"} /\ b[1] \in {"second", "nul"}
         /\ \A i \in 2 .. 6 : b[i] = "nul"
<1>1. PICK n \in 0 .. Size - 1 : b = Put(Cleared, 0, SubSeq(Text, 1, n))
  BY DEF Leftovers
<1>2. n \in 0 .. 2 /\ n \in 0 .. Len(Text)
  BY TextLength
<1>3. Cleared \in [0 .. 6 -> Cells] /\ \A i \in 0 .. 6 : Cleared[i] = "nul"
  BY ClearedIs DEF Cells
<1>4. b = [i \in 0 .. 6 |-> IF i \in 0 .. 0 + n - 1 THEN Text[i - 0 + 1] ELSE Cleared[i]]
  <2>1. Put(Cleared, 0, SubSeq(Text, 1, n)) =
          [i \in 0 .. 6 |-> IF i \in 0 .. 0 + n - 1 THEN Text[i - 0 + 1] ELSE Cleared[i]]
    BY <1>2, <1>3, TextLength, PutIs
  <2> QED BY <1>1, <2>1
<1>5. b = [i \in 0 .. 6 |-> IF i \in 0 .. n - 1 THEN Text[i + 1] ELSE "nul"]
  BY <1>2, <1>3, <1>4
<1>6. n = 0 \/ n = 1 \/ n = 2
  BY <1>2
<1>7. ASSUME NEW i \in 0 .. 6
      PROVE  b[i] = "nul" \/ (i = 0 /\ b[i] = "first") \/ (i = 1 /\ b[i] = "second")
  BY <1>5, <1>6, TextIs
<1>8. b \in [0 .. 6 -> Cells]
  BY <1>5, <1>7 DEF Cells
<1> QED BY <1>7, <1>8

LEMMA NothingLeftOver == Buffer \in Leftovers
<1>1. Len(SubSeq(Text, 1, 0)) = 0 /\ 0 \in 0 .. Size - 1
  BY TextLength, BeginningIs
<1>2. Put(Cleared, 0, SubSeq(Text, 1, 0)) = Cleared
  BY <1>1, ClearedIs DEF Put
<1> QED BY <1>1, <1>2 DEF Leftovers, Buffer

\* The string ends at the first NUL.
LEMMA StringIs ==
  ASSUME NEW b, DOMAIN b = 0 .. 6, NEW e \in 0 .. 6, b[e] = "nul", \A i \in 0 .. e - 1 : b[i] # "nul"
  PROVE  String(b) = [i \in 1 .. e |-> b[i - 1]]
<1> DEFINE First(n) == b[n] = Nul /\ \A i \in 0 .. n - 1 : b[i] # Nul
           end == CHOOSE n \in DOMAIN b : First(n)
<1>1. e \in DOMAIN b /\ First(e)
  BY DEF Nul
<1>2. end \in DOMAIN b /\ First(end)
  BY <1>1, Zenon
<1>3. ASSUME NEW n \in 0 .. 6, First(n) PROVE n = e
  <2>1. ~(n < e) /\ ~(e < n)
    BY <1>1, <1>3
  <2> QED BY <2>1
<1>4. end = e
  BY <1>2, <1>3
<1> QED BY <1>4 DEF String

\* What the buffer holds when n units of a request have come at once.
LEMMA FirstPiece ==
  ASSUME NEW b \in Leftovers, NEW n \in 1 .. 3, NEW buf, buf = Put(b, 0, SubSeq(Text, 1, n))
  PROVE  /\ buf \in [0 .. 6 -> Cells] /\ buf[0] = "first"
         /\ buf[1] \in {"second", "nul"} /\ (n > 1 => buf[1] = "second")
         /\ buf[2] = (IF n = 3 THEN "rest" ELSE "nul") /\ \A i \in 3 .. 6 : buf[i] = "nul"
<1>1. /\ b \in [0 .. 6 -> Cells] /\ b[1] \in {"second", "nul"} /\ \A i \in 2 .. 6 : b[i] = "nul"
  BY LeftoverIs
<1>2. n \in 0 .. Len(Text)
  BY TextLength
<1>3. buf = [i \in 0 .. 6 |-> IF i \in 0 .. 0 + n - 1 THEN Text[i - 0 + 1] ELSE b[i]]
  BY <1>1, <1>2, TextLength, PutIs
<1>4. buf = [i \in 0 .. 6 |-> IF i \in 0 .. n - 1 THEN Text[i + 1] ELSE b[i]]
  BY <1>3
<1>5. n = 1 \/ n = 2 \/ n = 3
  OBVIOUS
<1>6. buf[0] = "first" /\ buf[1] \in {"second", "nul"} /\ (n > 1 => buf[1] = "second")
  BY <1>1, <1>4, <1>5, TextIs
<1>7. buf[2] = (IF n = 3 THEN "rest" ELSE "nul") /\ \A i \in 3 .. 6 : buf[i] = "nul"
  BY <1>1, <1>4, <1>5, TextIs
<1>8. \A i \in 0 .. 6 : buf[i] \in Cells
  <2>1. \A i \in 0 .. 6 : i = 0 \/ i = 1 \/ i = 2 \/ i \in 3 .. 6
    OBVIOUS
  <2> QED BY <1>6, <1>7, <2>1 DEF Cells
<1> QED BY <1>4, <1>6, <1>7, <1>8

\* The second piece of a request that came in two.
LEMMA SecondPiece ==
  ASSUME Half, NEW n \in 1 .. 2, NEW buf, buf = Put(request, bytesRead, SubSeq(coming, 1, n))
  PROVE  /\ buf \in [0 .. 6 -> Cells] /\ buf[0] = "first" /\ buf[1] = "second"
         /\ buf[2] = (IF n = 2 THEN "rest" ELSE "nul") /\ \A i \in 3 .. 6 : buf[i] = "nul"
<1>1. /\ coming = <<"second", "rest">> /\ bytesRead = 1 /\ request[0] = "first"
      /\ \A i \in 2 .. 6 : request[i] = "nul"
  BY TextIs, TextLength DEF Half
<1>2. request \in [0 .. 6 -> Cells]
  BY TextIs, TextLength DEF Half, Cells, ToSet
<1>3. coming \in Seq(Cells) /\ n \in 0 .. Len(coming)
  BY <1>1 DEF Cells
<1>4. buf = [i \in 0 .. 6 |-> IF i \in 1 .. 1 + n - 1 THEN coming[i - 1 + 1] ELSE request[i]]
  <2>1. Put(request, 1, SubSeq(coming, 1, n)) =
          [i \in 0 .. 6 |-> IF i \in 1 .. 1 + n - 1 THEN coming[i - 1 + 1] ELSE request[i]]
    BY <1>2, <1>3, PutIs
  <2> QED BY <1>1, <2>1
<1>5. buf = [i \in 0 .. 6 |-> IF i \in 1 .. n THEN coming[i] ELSE request[i]]
  <2>1. \A i \in 0 .. 6 : i - 1 + 1 = i /\ (i \in 1 .. 1 + n - 1 <=> i \in 1 .. n)
    OBVIOUS
  <2>2. \A i \in 0 .. 6 : buf[i] = IF i \in 1 .. n THEN coming[i] ELSE request[i]
    BY <1>4, <2>1
  <2> QED BY <1>4, <2>2
<1>6. n = 1 \/ n = 2
  OBVIOUS
<1>7. /\ buf[0] = "first" /\ buf[1] = "second"
      /\ buf[2] = (IF n = 2 THEN "rest" ELSE "nul") /\ \A i \in 3 .. 6 : buf[i] = "nul"
  BY <1>1, <1>5, <1>6
<1>8. \A i \in 0 .. 6 : buf[i] \in Cells
  <2>1. \A i \in 0 .. 6 : i = 0 \/ i = 1 \/ i = 2 \/ i \in 3 .. 6
    OBVIOUS
  <2> QED BY <1>7, <2>1 DEF Cells
<1> QED BY <1>5, <1>7, <1>8

\* A string that begins with both halves is whole.
LEMMA WholeIs ==
  ASSUME NEW b \in [0 .. 6 -> Cells],
         b[0] = "first", b[1] = "second", b[2] \in {"rest", "nul"}, b[3] = "nul"
  PROVE  Whole(String(b)) /\ (Text[3] \in ToSet(String(b)) <=> b[2] = "rest")
<1>1. PICK e \in {2, 3} : /\ e = 3 <=> b[2] = "rest"
                          /\ b[e] = "nul" /\ \A i \in 0 .. e - 1 : b[i] # "nul"
  <2>1. CASE b[2] = "nul"
    <3>1. \A i \in 0 .. 1 : b[i] # "nul"
      OBVIOUS
    <3> QED BY <2>1, <3>1
  <2>2. CASE b[2] = "rest"
    <3>1. \A i \in 0 .. 2 : b[i] # "nul"
      BY <2>2
    <3> QED BY <2>2, <3>1
  <2> QED BY <2>1, <2>2
<1> DEFINE text == [i \in 1 .. e |-> b[i - 1]]
<1>2. String(b) = text
  <2>1. e \in 0 .. 6 /\ DOMAIN b = 0 .. 6
    BY <1>1
  <2> QED BY <1>1, <2>1, StringIs
<1>3. text \in Seq(Cells) /\ Len(text) = e /\ e >= 2 /\ text[1] = "first" /\ text[2] = "second"
  BY <1>1
<1>4. text[3] = b[2] \/ e = 2
  BY <1>1
<1> HIDE DEF text
<1>5. Whole(text)
  <2>1. SubSeq(text, 1, 2) = SubSeq(Text, 1, 2)
    BY <1>3, TextLength, TextIs, SameBeginning
  <2> QED BY <1>3, <2>1 DEF Whole
<1>6. Text[3] \in ToSet(text) <=> b[2] = "rest"
  <2>1. ToSet(text) = {text[i] : i \in 1 .. e}
    BY <1>3 DEF ToSet
  <2>2. CASE e = 2
    BY <1>1, <1>3, <2>1, <2>2, TextIs
  <2>3. CASE e = 3
    BY <1>1, <1>4, <2>1, <2>3, TextIs
  <2> QED BY <1>1, <2>2, <2>3
<1> QED BY <1>2, <1>5, <1>6

\* The first half, with or without a left over second one, is no request yet.
LEMMA NotYet ==
  ASSUME NEW b \in [0 .. 6 -> Cells], b[0] = "first", b[1] \in {"second", "nul"}, b[2] = "nul"
  PROVE  Text[3] \notin ToSet(String(b))
<1>1. PICK e \in {1, 2} : b[e] = "nul" /\ \A i \in 0 .. e - 1 : b[i] # "nul"
  <2>1. CASE b[1] = "nul"
    <3>1. \A i \in 0 .. 0 : b[i] # "nul"
      OBVIOUS
    <3> QED BY <2>1, <3>1
  <2>2. CASE b[1] = "second"
    <3>1. \A i \in 0 .. 1 : b[i] # "nul"
      BY <2>2
    <3> QED BY <2>2, <3>1
  <2> QED BY <2>1, <2>2
<1> DEFINE text == [i \in 1 .. e |-> b[i - 1]]
<1>2. String(b) = text
  <2>1. e \in 0 .. 6 /\ DOMAIN b = 0 .. 6
    BY <1>1
  <2> QED BY <1>1, <2>1, StringIs
<1>3. ToSet(text) = {b[i - 1] : i \in 1 .. e}
  BY DEF ToSet
<1>4. ASSUME NEW i \in 1 .. e PROVE b[i - 1] # "rest"
  <2>1. i - 1 = 0 \/ i - 1 = 1
    BY <1>1
  <2> QED BY <2>1
<1> QED BY <1>2, <1>3, <1>4, TextIs

-----------------------------------------------------------------------------
(* The steps *)

\* The request in hand is one of those something is claimed of.
LEMMA KindClaimed ==
  ASSUME HandlerInv, ~Disclaimed, Current > 0
  PROVE  /\ Kind \in Kinds \ {"directory"} /\ Current \in DOMAIN asked /\ Kind = Last(asked)
         /\ program = "forking" => Kind = "found"
<1>1. asked \in Seq(Kinds) /\ Current \in DOMAIN asked /\ Kind = Last(asked) /\ Kind \in Kinds
  BY DEF HandlerInv, Current, Kind, Last
<1>2. Kind \in ToSet(asked)
  BY <1>1 DEF ToSet, Kind
<1> QED BY <1>1, <1>2 DEF Disclaimed, Kinds, ForkingErrors

LEMMA DisclaimedStays ==
  ASSUME HandlerInv, HhNext
  PROVE  Disclaimed => Disclaimed'
<1>1. program' = program /\ (left => left') /\ (handler = "unnamed" => handler' = "unnamed")
  BY DEF HhNext, HandlerStep, Quit, Ask, Receive, ReceiveOnce, GetName, PeerDisconnected, Parse, OpenFile,
         SendHead, SendErrorResponse, SendBlock, EndOfFile, ReadFails, RequestDone
<1>2. asked' = asked \/ \E kind \in Kinds : asked' = Append(asked, kind)
  BY DEF HhNext, HandlerStep, Quit, Ask, Receive, ReceiveOnce, GetName, PeerDisconnected, Parse, OpenFile,
         SendHead, SendErrorResponse, SendBlock, EndOfFile, ReadFails, RequestDone
<1>3. ToSet(asked) \subseteq ToSet(asked')
  <2>1. CASE asked' = asked
    BY <2>1 DEF ToSet
  <2>2. CASE \E kind \in Kinds : asked' = Append(asked, kind)
    <3>1. PICK kind \in Kinds : asked' = Append(asked, kind)
      BY <2>2
    <3>2. ASSUME NEW i \in DOMAIN asked PROVE i \in DOMAIN asked' /\ asked'[i] = asked[i]
      BY <3>1 DEF HandlerInv
    <3> QED BY <3>2 DEF ToSet
  <2> QED BY <1>2, <2>1, <2>2
<1> QED BY <1>1, <1>3 DEF Disclaimed

LEMMA AnswersAre ==
  ASSUME HandlerTypes
  PROVE  DOMAIN answers = 1 .. Len(answers) /\ Len(answers) \in Nat
<1> DEFINE S == [status : Nat, length : Nat, body : Nat]
<1>1. answers \in Seq(S)
  BY DEF HandlerTypes
<1> HIDE DEF S
<1> QED BY ONLY <1>1

\* An answer that was right and has not been touched is right.
LEMMA FineStays ==
  ASSUME NEW k \in DOMAIN answers, Fine(k), ~Disclaimed, program' = program,
         k \in DOMAIN asked, k \in DOMAIN asked', asked'[k] = asked[k],
         k \in DOMAIN answers', answers'[k] = answers[k],
         k \in DOMAIN pieces, k \in DOMAIN pieces', pieces'[k] = pieces[k]
  PROVE  Fine(k)'
<1>1. Expected(asked[k])' = Expected(asked[k])
  BY DEF Expected
<1>2. RightAnswer(k) => RightAnswer(k)'
  BY <1>1 DEF RightAnswer, Expected
<1>3. Torn(k) => Torn(k)'
  BY DEF Torn
<1>4. NotCovered(k) => NotCovered(k)'
  BY <1>3 DEF NotCovered, Disclaimed
<1> QED BY <1>2, <1>4 DEF Fine

LEMMA AllFineStays ==
  ASSUME HandlerTypes, asked \in Seq(Kinds), AllFine, ~Disclaimed,
         UNCHANGED <<program, asked, answers, pieces>>, handler # "read" \/ handler' = "read"
  PROVE  AllFine'
<1> SUFFICES ASSUME NEW k \in DOMAIN answers PROVE Fine(k)' \/ (k = Len(answers) /\ handler' = "read")
  BY DEF AllFine
<1>1. k \in DOMAIN asked /\ k \in DOMAIN pieces
  <2>1. DOMAIN answers = 1 .. Len(answers) /\ Len(answers) \in Nat
    BY AnswersAre
  <2>2. k \in 1 .. Current
    BY <2>1 DEF HandlerTypes, Current
  <2>3. DOMAIN asked = 1 .. Current /\ DOMAIN pieces = 1 .. Current
    BY DEF HandlerTypes, Current
  <2> QED BY <2>2, <2>3
<1> QED BY <1>1, FineStays DEF AllFine

LEMMA InitHandler == HhInit => HandlerInv
<1> SUFFICES ASSUME HhInit PROVE HandlerInv
  OBVIOUS
<1> USE DEF HhInit
<1>1. asked \in Seq(Kinds) /\ Current = 0 /\ DOMAIN answers = {}
  BY DEF Current
<1>2. HandlerTypes
  BY <1>1 DEF HandlerTypes
<1>3. Place
  BY <1>1 DEF Place, Receiving, BeforeHead
<1>4. InHand /\ AllFine
  BY <1>1 DEF InHand, AllFine
<1> QED BY <1>1, <1>2, <1>3, <1>4 DEF HandlerInv, Claims

\* Only the place changes: the connection is still as at its start.
LEMMA GetNameStep ==
  ASSUME HandlerInv, GetName, ~Disclaimed, ~Disclaimed'
  PROVE  Claims'
<1>1. HandlerTypes /\ Place /\ AllFine /\ asked \in Seq(Kinds)
  BY DEF HandlerInv, Claims
<1>2. /\ handler = "start" /\ handler' = "recv"
      /\ UNCHANGED <<program, asked, coming, left, request, bytesRead, httpr, status,
                     position, answers, pieces>>
  BY DEF GetName, Disclaimed
<1>3. Current' = Current /\ Leftovers' = Leftovers /\ (Torn(Current)' <=> Torn(Current))
  BY <1>2 DEF Current, Leftovers, Torn
<1>4. (Fresh <=> Fresh') /\ (Half <=> Half') /\ (Pieced <=> Pieced')
  BY <1>2, <1>3 DEF Fresh, Half, Pieced, Text, Size, Nul
<1>5. Receiving'
  BY <1>1, <1>2, <1>3, <1>4 DEF Place, Receiving
<1>6. HandlerTypes' /\ Place' /\ InHand'
  BY <1>1, <1>2, <1>3, <1>5 DEF HandlerTypes, Place, InHand, BeforeHead
<1>7. AllFine'
  BY <1>1, <1>2, AllFineStays
<1> QED BY <1>6, <1>7 DEF Claims

LEMMA AskStep ==
  ASSUME HandlerInv, NEW kind \in Kinds, Ask(kind), ~Disclaimed, ~Disclaimed'
  PROVE  Claims'
<1>0. /\ Claims /\ HandlerTypes /\ asked \in Seq(Kinds) /\ Len(answers) = Current
      /\ handler \in {"start", "recv", "ended"}
  BY DEF HandlerInv, Claims, Ask, Answered, Current, Disclaimed
<1>1. /\ asked' = Append(asked, kind) /\ coming' = coming \o Text /\ pieces' = Append(pieces, <<>>)
      /\ UNCHANGED <<program, left, handler, request, bytesRead, httpr, status, position, answers>>
  BY DEF Ask
<1>2. /\ Current \in Nat /\ Current' = Current + 1 /\ Len(pieces) = Current
      /\ \A k \in 1 .. Current : asked'[k] = asked[k] /\ k \in DOMAIN asked /\ k \in DOMAIN asked'
  BY <1>0, <1>1 DEF HandlerTypes, Current
<1>3. /\ pieces' \in Seq(Seq(Nat)) /\ Len(pieces') = Current'
      /\ \A k \in 1 .. Current : pieces'[k] = pieces[k] /\ k \in DOMAIN pieces /\ k \in DOMAIN pieces'
      /\ pieces'[Current'] = <<>>
  <2>1. pieces \in Seq(Seq(Nat)) /\ <<>> \in Seq(Nat)
    BY <1>0 DEF HandlerTypes
  <2> QED BY <1>1, <1>2, <2>1
<1>4. HandlerTypes'
  BY <1>0, <1>1, <1>2, <1>3 DEF HandlerTypes
<1>5. Place'
  <2>1. CASE handler \in {"start", "recv"}
    <3>1. coming = <<>> /\ bytesRead = 0 /\ request \in Leftovers
      BY <1>0, <1>2, <2>1 DEF Claims, Place, Receiving
    <3>2. coming' = Text
      BY <1>1, <3>1, TextLength
    <3>3. Fresh'
      BY <1>1, <1>3, <3>1, <3>2 DEF Fresh, Leftovers
    <3>4. Len(answers') + 1 = Current'
      BY <1>0, <1>1, <1>2
    <3> QED BY <1>1, <2>1, <3>3, <3>4 DEF Place, Receiving, BeforeHead
  <2>2. CASE handler = "ended"
    BY <1>1, <2>2 DEF Place, BeforeHead
  <2> QED BY <1>0, <2>1, <2>2
<1>6. InHand'
  BY <1>0, <1>1 DEF InHand
<1>7. AllFine'
  <2> SUFFICES ASSUME NEW k \in DOMAIN answers PROVE Fine(k)'
    BY <1>1 DEF AllFine
  <2>1. k \in 1 .. Current
    BY <1>0 DEF HandlerTypes
  <2>2. Fine(k)
    BY <1>0 DEF Claims, AllFine
  <2> QED BY <1>1, <1>2, <1>3, <2>1, <2>2, FineStays
<1> QED BY <1>4, <1>5, <1>6, <1>7 DEF Claims

-----------------------------------------------------------------------------
(* recv *)

LEMMA NotEmpty ==
  ASSUME NEW s, Len(s) > 0
  PROVE  s # <<>>
<1>1. Len(<<>>) = 0
  OBVIOUS
<1> QED BY <1>1

LEMMA TakenIs ==
  ASSUME NEW t \in Seq(Nat), NEW k \in Nat, k <= Len(t), NEW i \in 1 .. k
  PROVE  SubSeq(t, 1, k)[i] = t[i]
OBVIOUS

LEMMA PrefixOfPrefix ==
  ASSUME NEW s \in Seq(Nat), NEW n \in Nat, NEW t \in Seq(Nat), IsPrefix(Append(s, n), t)
  PROVE  IsPrefix(s, t)
<1>1. Append(s, n) \in Seq(Nat) /\ Len(Append(s, n)) = Len(s) + 1 /\ Len(s) + 1 <= Len(t)
  BY DEF IsPrefix
<1>2. SubSeq(Append(s, n), 1, Len(s) + 1) = SubSeq(t, 1, Len(s) + 1)
  BY <1>1 DEF IsPrefix
<1>3. ASSUME NEW i \in 1 .. Len(s) PROVE s[i] = t[i]
  <2> DEFINE a == Append(s, n)
             k == Len(s) + 1
  <2>1. a \in Seq(Nat) /\ k <= Len(a) /\ k <= Len(t) /\ k \in Nat /\ i \in 1 .. k /\ a[i] = s[i]
    BY <1>1
  <2>2. SubSeq(a, 1, k) = SubSeq(t, 1, k)
    BY <1>2
  <2> HIDE DEF a, k
  <2>3. SubSeq(a, 1, k)[i] = a[i] /\ SubSeq(t, 1, k)[i] = t[i]
    BY <2>1, TakenIs
  <2> QED BY <2>1, <2>2, <2>3
<1>4. /\ SubSeq(s, 1, Len(s)) = [i \in 1 .. Len(s) |-> s[i]]
      /\ SubSeq(t, 1, Len(s)) = [i \in 1 .. Len(s) |-> t[i]]
  BY <1>1
<1>5. SubSeq(s, 1, Len(s)) = SubSeq(t, 1, Len(s))
  BY <1>3, <1>4
<1> QED BY <1>1, <1>5 DEF IsPrefix

LEMMA FirstOfPrefix ==
  ASSUME NEW s \in Seq(Nat), NEW t \in Seq(Nat), IsPrefix(s, t), NEW i \in 1 .. Len(s)
  PROVE  i <= Len(t) /\ s[i] = t[i]
<1> DEFINE k == Len(s)
<1>1. k \in Nat /\ k <= Len(t) /\ SubSeq(s, 1, k) = SubSeq(t, 1, k)
  BY DEF IsPrefix
<1>2. SubSeq(s, 1, k)[i] = s[i] /\ SubSeq(t, 1, k)[i] = t[i]
  BY <1>1
<1> QED BY <1>1, <1>2

\* The pieces that tear a request, from the first on, and at the second half.
LEMMA NoPrefix ==
  ASSUME NEW s \in Seq(Nat), NEW t \in Seq(Nat), NEW i \in 1 .. Len(s), i > Len(t) \/ s[i] # t[i]
  PROVE  ~IsPrefix(s, t)
BY FirstOfPrefix

LEMMA TornPieces ==
  \A s \in {<<2>>, <<1, 1>>} : s # <<>> /\ \A good \in {<<3>>, <<1, 2>>} : ~IsPrefix(s, good)
<1> TAKE s \in {<<2>>, <<1, 1>>}
<1>1. s \in Seq(Nat) /\ s # <<>>
  <2>1. Len(<<2>>) = 1 /\ Len(<<1, 1>>) = 2 /\ <<2>> \in Seq(Nat) /\ <<1, 1>> \in Seq(Nat)
    OBVIOUS
  <2>2. CASE s = <<2>>
    BY ONLY <2>1, <2>2, NotEmpty
  <2>3. CASE s = <<1, 1>>
    BY ONLY <2>1, <2>3, NotEmpty
  <2> QED BY <2>2, <2>3
<1>2. ~IsPrefix(s, <<3>>)
  <2>1. <<3>> \in Seq(Nat) /\ 1 \in 1 .. Len(s) /\ s[1] # <<3>>[1]
    BY <1>1
  <2> QED BY <1>1, <2>1, NoPrefix
<1>3. ~IsPrefix(s, <<1, 2>>)
  <2>1. <<1, 2>> \in Seq(Nat) /\ Len(s) \in 1 .. Len(s) /\ s[Len(s)] # <<1, 2>>[Len(s)]
    BY <1>1
  <2> QED BY <1>1, <2>1, NoPrefix
<1> QED BY <1>1, <1>2, <1>3

\* One more piece does not mend a request that has been torn.
LEMMA TornStays ==
  ASSUME NEW k \in DOMAIN pieces, NEW n \in Nat, pieces \in Seq(Seq(Nat)), program = "threaded",
         program' = program, pieces' = [pieces EXCEPT ![k] = Append(@, n)], Torn(k)
  PROVE  Torn(k)'
<1>1. pieces[k] \in Seq(Nat) /\ k \in DOMAIN pieces' /\ pieces'[k] = Append(pieces[k], n)
  OBVIOUS
<1>2. pieces'[k] # <<>>
  <2>1. Len(pieces'[k]) = Len(pieces[k]) + 1 /\ Len(pieces[k]) \in Nat
    BY <1>1
  <2>2. Len(pieces'[k]) > 0
    BY <2>1
  <2> QED BY ONLY <2>2, NotEmpty
<1>3. <<3>> \in Seq(Nat) /\ <<1, 2>> \in Seq(Nat)
  OBVIOUS
<1>4. \A good \in {<<3>>, <<1, 2>>} : IsPrefix(pieces'[k], good) => IsPrefix(pieces[k], good)
  BY <1>1, <1>3, PrefixOfPrefix
<1> QED BY <1>1, <1>2, <1>4 DEF Torn

\* A piece of the request in hand is counted; the answers stay as they are.
LEMMA PieceCounted ==
  ASSUME HandlerInv, ~Disclaimed, NEW n \in 1 .. 3, Current > 0, handler = "recv",
         pieces' = [pieces EXCEPT ![Len(pieces)] = Append(@, n)],
         UNCHANGED <<program, asked, left, httpr, status, position, answers>>,
         Len(answers) + 1 = Current
  PROVE  /\ HandlerTypes' /\ AllFine' /\ Current' = Current /\ Current \in DOMAIN pieces
         /\ Current' \in DOMAIN pieces'
         /\ pieces'[Current'] = Append(pieces[Current], n)
         /\ pieces' = [pieces EXCEPT ![Current] = Append(@, n)]
         /\ pieces \in Seq(Seq(Nat))
<1>1. HandlerTypes /\ asked \in Seq(Kinds) /\ AllFine
  BY DEF HandlerInv, Claims
<1>2. Current \in Nat /\ Current' = Current /\ Len(pieces) = Current /\ pieces \in Seq(Seq(Nat))
  BY <1>1 DEF HandlerTypes, Current
<1>3. Current \in DOMAIN pieces /\ pieces[Current] \in Seq(Nat)
  BY <1>2
<1>4. Append(pieces[Current], n) \in Seq(Nat)
  BY <1>3
<1>5. /\ pieces' \in Seq(Seq(Nat)) /\ Len(pieces') = Current /\ DOMAIN pieces' = DOMAIN pieces
      /\ pieces'[Current] = Append(pieces[Current], n)
      /\ \A k \in 1 .. Current : k # Current => pieces'[k] = pieces[k]
  <2> DEFINE p == Append(pieces[Current], n)
             c == Current
  <2>1. pieces' = [pieces EXCEPT ![c] = p] /\ p \in Seq(Nat) /\ c \in DOMAIN pieces /\ Len(pieces) = c
    BY <1>2, <1>3, <1>4
  <2>2. pieces' \in Seq(Seq(Nat)) /\ Len(pieces') = c /\ DOMAIN pieces' = DOMAIN pieces
    <3> HIDE DEF p, c
    <3> QED BY ONLY <2>1, <1>2
  <2>3. pieces'[c] = p /\ \A k \in 1 .. c : k # c => pieces'[k] = pieces[k]
    <3> HIDE DEF p, c
    <3> QED BY ONLY <2>1, <1>2
  <2> QED BY <2>2, <2>3
<1>6. HandlerTypes'
  BY <1>1, <1>2, <1>5 DEF HandlerTypes
<1>7. AllFine'
  <2> SUFFICES ASSUME NEW k \in DOMAIN answers PROVE Fine(k)'
    BY DEF AllFine
  <2>1. k \in 1 .. Current /\ k # Current /\ k \in DOMAIN asked /\ k \in DOMAIN pieces
    <3>1. k \in 1 .. Len(answers) /\ Len(answers) \in Nat
      BY <1>1, AnswersAre
    <3>2. k \in 1 .. Current /\ k # Current
      BY <1>2, <3>1
    <3>3. DOMAIN asked = 1 .. Current /\ DOMAIN pieces = 1 .. Current
      BY <1>1, <1>2 DEF Current
    <3> QED BY <3>2, <3>3
  <2>2. Fine(k)
    BY <1>1 DEF AllFine
  <2>3. asked'[k] = asked[k] /\ answers'[k] = answers[k] /\ k \in DOMAIN answers' /\ k \in DOMAIN asked'
    BY <2>1
  <2> QED BY <1>5, <2>1, <2>2, <2>3, FineStays
<1> QED BY <1>2, <1>3, <1>5, <1>6, <1>7

\* What is left of a request behind its first units.
LEMMA OneLeft ==
  ASSUME NEW s \in Seq(Cells), Len(s) > 0
  PROVE  SubSeq(s, Len(s), Len(s)) = <<s[Len(s)]>>
<1> DEFINE e == SubSeq(s, Len(s), Len(s))
<1>1. e \in Seq(Cells) /\ Len(e) = 1 /\ e[1] = s[Len(s)]
  OBVIOUS
<1> HIDE DEF e
<1>2. e = <<e[1]>>
  BY ONLY <1>1
<1> QED BY <1>1, <1>2 DEF e

LEMMA TwoLeft ==
  ASSUME NEW s \in Seq(Cells), Len(s) = 3
  PROVE  SubSeq(s, 2, 3) = <<s[2], s[3]>>
<1> DEFINE e == SubSeq(s, 2, 3)
<1>1. e \in Seq(Cells) /\ Len(e) = 2 /\ e[1] = s[2] /\ e[2] = s[3]
  OBVIOUS
<1> HIDE DEF e
<1>2. e = <<e[1], e[2]>>
  BY ONLY <1>1
<1> QED BY <1>1, <1>2 DEF e

LEMMA TwoPieces ==
  ASSUME NEW n \in Nat
  PROVE  Append(<<1>>, n) = <<1, n>>
<1> DEFINE e == Append(<<1>>, n)
<1>1. e \in Seq(Nat) /\ Len(e) = 2 /\ e[1] = 1 /\ e[2] = n
  OBVIOUS
<1> HIDE DEF e
<1>2. e = <<e[1], e[2]>>
  BY ONLY <1>1
<1> QED BY <1>1, <1>2 DEF e

LEMMA NoneLeft ==
  ASSUME NEW s \in Seq(Cells)
  PROVE  SubSeq(s, Len(s) + 1, Len(s)) = <<>>
OBVIOUS

\* The first piece at the threaded server.
LEMMA FreshReceived ==
  ASSUME Fresh, NEW n \in 1 .. 3, Receive(n), ~left,
         Current \in DOMAIN pieces, Current' = Current, pieces'[Current'] = Append(pieces[Current], n),
         Current' \in DOMAIN pieces'
  PROVE  \/ handler' = "recv" /\ (Half' \/ Pieced')
         \/ handler' = "parse" /\ coming' = <<>> /\ bytesRead' = 0 /\ Whole(String(request'))
<1> DEFINE buf == Put(request, bytesRead, SubSeq(coming, 1, n))
<1>1. /\ program = "threaded" /\ program' = program /\ handler = "recv"
      /\ coming' = SubSeq(coming, n + 1, Len(coming))
      /\ IF Text[3] \in ToSet(String(buf))
           THEN request' = [buf EXCEPT ![n] = Nul] /\ bytesRead' = 0 /\ handler' = "parse"
           ELSE request' = buf /\ bytesRead' = n /\ UNCHANGED handler
  BY DEF Receive
<1>2. request \in Leftovers /\ coming = Text /\ bytesRead = 0 /\ pieces[Current] = <<>>
  BY DEF Fresh
<1>3. buf = Put(request, 0, SubSeq(Text, 1, n))
  BY <1>2
<1> HIDE DEF buf
<1>4. /\ buf \in [0 .. 6 -> Cells] /\ buf[0] = "first"
      /\ buf[1] \in {"second", "nul"} /\ (n > 1 => buf[1] = "second")
      /\ buf[2] = (IF n = 3 THEN "rest" ELSE "nul") /\ \A i \in 3 .. 6 : buf[i] = "nul"
  BY <1>2, <1>3, FirstPiece
<1>5. pieces'[Current'] = <<n>>
  BY <1>2
<1>6. CASE n = 1
  <2>1. Text[3] \notin ToSet(String(buf))
    BY <1>4, <1>6, NotYet
  <2>2. handler' = "recv" /\ request' = buf /\ bytesRead' = 1
    BY <1>1, <1>6, <2>1
  <2>3. coming' = <<Text[2], Text[3]>>
    <3>1. SubSeq(Text, 2, 3) = <<Text[2], Text[3]>>
      BY TextLength, TwoLeft
    <3>2. coming' = SubSeq(Text, 2, 3)
      BY <1>1, <1>2, <1>6, TextLength
    <3> QED BY <3>1, <3>2
  <2>4. Half'
    <3>1. request' \in [0 .. 2 * Size -> ToSet(Text) \cup {Nul}]
      <4>1. Cells = ToSet(Text) \cup {Nul}
        BY TextIs, TextLength DEF Cells, ToSet
      <4> QED BY <1>4, <2>2, <4>1, TextLength
    <3>2. /\ request'[0] = Text[1] /\ request'[1] \in {Text[2], Nul}
          /\ \A i \in 2 .. 2 * Size : request'[i] = Nul
      <4>1. \A i \in 2 .. 6 : i = 2 \/ i \in 3 .. 6
        OBVIOUS
      <4> QED BY <1>4, <1>6, <2>2, <4>1, TextIs, TextLength
    <3> QED BY <1>1, <1>5, <1>6, <2>2, <2>3, <3>1, <3>2 DEF Half, Size, Text, Nul
  <2> QED BY <2>2, <2>4
<1>7. CASE n = 2
  <2>1. Text[3] \notin ToSet(String(buf))
    BY <1>4, <1>7, NotYet
  <2>2. handler' = "recv"
    BY <1>1, <2>1
  <2>3. coming' = <<Text[3]>>
    <3>1. SubSeq(Text, 3, 3) = <<Text[3]>>
      BY TextLength, OneLeft
    <3>2. coming' = SubSeq(Text, 3, 3)
      BY <1>1, <1>2, <1>7, TextLength
    <3> QED BY <3>1, <3>2
  <2>4. pieces'[Current'] = <<2>>
    BY <1>5, <1>7
  <2>5. Torn(Current)'
    BY <1>1, <2>4, TornPieces DEF Torn
  <2>6. Pieced'
    BY <1>1, <2>3, <2>5 DEF Pieced, Text
  <2> QED BY <2>2, <2>6
<1>8. CASE n = 3
  <2>1. Text[3] \in ToSet(String(buf))
    BY <1>4, <1>8, WholeIs
  <2>2. handler' = "parse" /\ request' = [buf EXCEPT ![3] = Nul] /\ bytesRead' = 0
    BY <1>1, <1>8, <2>1
  <2>3. coming' = <<>>
    BY <1>1, <1>2, <1>8, TextLength, NoneLeft
  <2>4. /\ request' \in [0 .. 6 -> Cells] /\ request'[0] = "first" /\ request'[1] = "second"
        /\ request'[2] = "rest" /\ request'[3] = "nul"
    BY <1>4, <1>8, <2>2, TextIs DEF Cells
  <2>5. Whole(String(request'))
    BY <2>4, WholeIs
  <2> QED BY <2>2, <2>3, <2>5
<1> QED BY <1>6, <1>7, <1>8

\* The second piece, of a request that is not torn yet.
LEMMA HalfReceived ==
  ASSUME Half, NEW n \in 1 .. 2, Receive(n), ~left,
         Current \in DOMAIN pieces, Current' = Current, pieces'[Current'] = Append(pieces[Current], n),
         Current' \in DOMAIN pieces'
  PROVE  \/ handler' = "recv" /\ Pieced'
         \/ handler' = "parse" /\ coming' = <<>> /\ bytesRead' = 0 /\ Whole(String(request'))
<1> DEFINE buf == Put(request, bytesRead, SubSeq(coming, 1, n))
<1>1. /\ program = "threaded" /\ program' = program /\ handler = "recv"
      /\ coming' = SubSeq(coming, n + 1, Len(coming))
      /\ IF Text[3] \in ToSet(String(buf))
           THEN request' = [buf EXCEPT ![n] = Nul] /\ bytesRead' = 0 /\ handler' = "parse"
           ELSE request' = buf /\ bytesRead' = n /\ UNCHANGED handler
  BY DEF Receive
<1>2. /\ buf \in [0 .. 6 -> Cells] /\ buf[0] = "first" /\ buf[1] = "second"
      /\ buf[2] = (IF n = 2 THEN "rest" ELSE "nul") /\ \A i \in 3 .. 6 : buf[i] = "nul"
  <2> DEFINE b == buf
  <2>1. b = Put(request, bytesRead, SubSeq(coming, 1, n))
    OBVIOUS
  <2> HIDE DEF b
  <2>2. /\ b \in [0 .. 6 -> Cells] /\ b[0] = "first" /\ b[1] = "second"
        /\ b[2] = (IF n = 2 THEN "rest" ELSE "nul") /\ \A i \in 3 .. 6 : b[i] = "nul"
    BY <2>1, SecondPiece
  <2> QED BY <2>2 DEF b
<1> HIDE DEF buf
<1>3. coming = <<Text[2], Text[3]>> /\ pieces[Current] = <<1>>
  BY DEF Half
<1>4. coming \in Seq(Cells) /\ Len(coming) = 2 /\ coming[2] = Text[3]
  BY <1>3, TextIs DEF Cells
<1>5. pieces'[Current'] = <<1, n>>
  BY <1>3, TwoPieces
<1>6. CASE n = 1
  <2>1. Text[3] \notin ToSet(String(buf))
    BY <1>2, <1>6, NotYet
  <2>2. handler' = "recv"
    BY <1>1, <2>1
  <2>3. coming' = <<Text[3]>>
    BY <1>1, <1>4, <1>6, OneLeft
  <2>4. pieces'[Current'] = <<1, 1>>
    BY <1>5, <1>6
  <2>5. Torn(Current)'
    BY <1>1, <2>4, TornPieces DEF Torn
  <2>6. Pieced'
    BY <1>1, <2>3, <2>5 DEF Pieced, Text
  <2> QED BY <2>2, <2>6
<1>7. CASE n = 2
  <2>1. Text[3] \in ToSet(String(buf))
    BY <1>2, <1>7, WholeIs
  <2>2. handler' = "parse" /\ request' = [buf EXCEPT ![2] = Nul] /\ bytesRead' = 0
    BY <1>1, <1>7, <2>1
  <2>3. coming' = <<>>
    BY <1>1, <1>4, <1>7, NoneLeft
  <2>4. /\ request' \in [0 .. 6 -> Cells] /\ request'[0] = "first" /\ request'[1] = "second"
        /\ request'[2] = "nul" /\ request'[3] = "nul"
    BY <1>2, <1>7, <2>2, TextIs DEF Cells
  <2>5. Whole(String(request'))
    BY <2>4, WholeIs
  <2> QED BY <2>2, <2>3, <2>5
<1> QED BY <1>6, <1>7

\* A piece of a request that has been torn.
LEMMA PiecedReceived ==
  ASSUME Pieced, NEW n \in DOMAIN coming, Receive(n), ~left,
         Current \in DOMAIN pieces, Current' = Current, pieces \in Seq(Seq(Nat)),
         pieces' = [pieces EXCEPT ![Current] = Append(@, n)]
  PROVE  /\ Torn(Current)'
         /\ \/ handler' = "recv" /\ Pieced'
            \/ handler' = "parse" /\ coming' = <<>> /\ bytesRead' = 0
<1>1. /\ program = "threaded" /\ program' = program /\ handler = "recv"
      /\ coming' = SubSeq(coming, n + 1, Len(coming))
      /\ (handler' = "parse" /\ bytesRead' = 0) \/ handler' = handler
  BY DEF Receive
<1>2. coming = <<Text[3]>> /\ n = 1 /\ coming \in Seq(Cells) /\ Len(coming) = 1
  <2>1. coming # <<>>
    OBVIOUS
  <2>2. coming = <<"rest">>
    BY <2>1, TextIs DEF Pieced
  <2>3. n = 1 /\ coming \in Seq(Cells) /\ Len(coming) = 1
    BY <2>2 DEF Cells
  <2> QED BY <2>2, <2>3, TextIs
<1>3. coming' = <<>>
  BY <1>1, <1>2, NoneLeft
<1>4. Torn(Current)'
  <2>1. Torn(Current) /\ n \in Nat
    BY <1>2 DEF Pieced
  <2> DEFINE k == Current
  <2>2. Torn(k) /\ k \in DOMAIN pieces /\ pieces' = [pieces EXCEPT ![k] = Append(@, n)]
    BY <2>1
  <2> HIDE DEF k
  <2>3. Torn(k)'
    BY <1>1, <2>1, <2>2, TornStays DEF k
  <2> QED BY <2>3 DEF k
<1>5. Pieced' \/ handler' = "parse"
  BY <1>1, <1>3, <1>4 DEF Pieced, Text
<1> QED BY <1>1, <1>3, <1>4, <1>5

LEMMA ReceiveStep ==
  ASSUME HandlerInv, NEW n \in DOMAIN coming, Receive(n), ~Disclaimed, ~Disclaimed'
  PROVE  Claims'
<1>1. /\ program = "threaded" /\ handler = "recv" /\ ~left
      /\ pieces' = [pieces EXCEPT ![Len(pieces)] = Append(@, n)]
      /\ UNCHANGED <<program, asked, left, httpr, status, position, answers>>
  BY DEF Receive, Disclaimed
<1>2. HandlerTypes /\ Place
  BY DEF HandlerInv, Claims
<1>3. Len(answers) + 1 = Current /\ (Fresh \/ Half \/ Pieced)
  <2>1. coming # <<>>
    OBVIOUS
  <2> QED BY <1>1, <1>2, <2>1 DEF Place, Receiving
<1>4. n \in 1 .. 3
  <2>1. CASE Fresh
    BY <2>1, TextLength DEF Fresh
  <2>2. CASE Half
    BY <2>2 DEF Half
  <2>3. CASE Pieced
    <3>1. coming = <<Text[3]>>
      BY <2>3 DEF Pieced
    <3> QED BY <3>1
  <2> QED BY <1>3, <2>1, <2>2, <2>3
<1>5. Current > 0
  BY <1>2, <1>3, AnswersAre
<1>6. /\ HandlerTypes' /\ AllFine' /\ Current' = Current /\ Current \in DOMAIN pieces
      /\ Current' \in DOMAIN pieces'
      /\ pieces'[Current'] = Append(pieces[Current], n)
      /\ pieces' = [pieces EXCEPT ![Current] = Append(@, n)]
      /\ pieces \in Seq(Seq(Nat))
  BY <1>1, <1>3, <1>4, <1>5, PieceCounted
<1>7. \/ handler' = "recv" /\ (Half' \/ Pieced')
      \/ handler' = "parse" /\ coming' = <<>> /\ bytesRead' = 0
           /\ (Whole(String(request')) \/ Torn(Current)')
  <2>1. CASE Fresh
    BY <1>1, <1>4, <1>6, <2>1, FreshReceived
  <2>2. CASE Half
    <3>1. n \in 1 .. 2
      BY <2>2 DEF Half
    <3> QED BY <1>1, <1>6, <2>2, <3>1, HalfReceived
  <2>3. CASE Pieced
    BY <1>1, <1>6, <2>3, PiecedReceived
  <2> QED BY <1>3, <2>1, <2>2, <2>3
<1>8. Len(answers') + 1 = Current'
  BY <1>1, <1>3, <1>6
<1>9. Place'
  BY <1>7, <1>8 DEF Place, Receiving, BeforeHead
<1>10. ~Torn(Current)' => InHand'
  BY <1>7 DEF InHand
<1> QED BY <1>6, <1>9, <1>10 DEF Claims

LEMMA ReceiveOnceStep ==
  ASSUME HandlerInv, NEW n \in DOMAIN coming, ReceiveOnce(n), ~Disclaimed, ~Disclaimed'
  PROVE  Claims'
<1>1. /\ program = "forking" /\ handler = "recv" /\ ~left
      /\ pieces' = [pieces EXCEPT ![Len(pieces)] = Append(@, n)]
      /\ request' = [Put(request, 0, SubSeq(coming, 1, n)) EXCEPT ![n] = Nul] /\ handler' = "parse"
      /\ UNCHANGED <<program, asked, left, httpr, status, position, answers>>
  BY DEF ReceiveOnce, Disclaimed
<1>2. HandlerTypes /\ Place
  BY DEF HandlerInv, Claims
<1>3. Len(answers) + 1 = Current /\ Fresh
  <2>1. coming # <<>>
    OBVIOUS
  <2>2. ~Half /\ ~Pieced
    BY <1>1 DEF Half, Pieced
  <2> QED BY <1>1, <1>2, <2>1, <2>2 DEF Place, Receiving
<1>4. n \in 1 .. 3
  BY <1>3, TextLength DEF Fresh
<1>5. Current > 0
  BY <1>2, <1>3, AnswersAre
<1>6. /\ HandlerTypes' /\ AllFine' /\ Current' = Current /\ Current \in DOMAIN pieces
      /\ Current' \in DOMAIN pieces'
      /\ pieces'[Current'] = Append(pieces[Current], n)
  BY <1>1, <1>3, <1>4, <1>5, PieceCounted
<1>7. pieces'[Current'] = <<n>>
  <2>1. pieces[Current] = <<>>
    BY <1>3 DEF Fresh
  <2> QED BY <1>6, <2>1
<1>8. ASSUME n = 1 PROVE Torn(Current)'
  <2>1. pieces'[Current'] # <<>> /\ pieces'[Current'][1] = 1
    <3>1. <<1>> # <<>> /\ <<1>>[1] = 1
      <4>1. Len(<<1>>) = 1
        OBVIOUS
      <4>2. <<1>> # <<>>
        BY ONLY <4>1, NotEmpty
      <4> QED BY <4>2
    <3> QED BY <1>7, <1>8, <3>1
  <2> QED BY <1>1, <1>6, <2>1 DEF Torn
<1>9. ASSUME n > 1 PROVE Whole(String(request'))
  <2> DEFINE buf == Put(request, 0, SubSeq(coming, 1, n))
  <2>1. buf = Put(request, 0, SubSeq(Text, 1, n)) /\ request \in Leftovers
    BY <1>3 DEF Fresh
  <2>2. request' = [buf EXCEPT ![n] = Nul]
    BY <1>1
  <2> HIDE DEF buf
  <2>3. /\ buf \in [0 .. 6 -> Cells] /\ buf[0] = "first" /\ (n > 1 => buf[1] = "second")
        /\ buf[2] = (IF n = 3 THEN "rest" ELSE "nul") /\ \A i \in 3 .. 6 : buf[i] = "nul"
    BY <1>4, <2>1, FirstPiece
  <2>4. n = 2 \/ n = 3
    BY <1>4, <1>9
  <2>5. /\ request' \in [0 .. 6 -> Cells] /\ request'[0] = "first" /\ request'[1] = "second"
        /\ request'[2] \in {"rest", "nul"} /\ request'[3] = "nul"
    BY <2>2, <2>3, <2>4, TextIs DEF Cells
  <2> QED BY <2>5, WholeIs
<1>10. Torn(Current)' \/ Whole(String(request'))
  <2>1. n = 1 \/ n > 1
    BY <1>4
  <2> QED BY <1>8, <1>9, <2>1
<1>11. Len(answers') + 1 = Current'
  BY <1>1, <1>3, <1>6
<1>12. Place'
  BY <1>1, <1>11 DEF Place, Receiving, BeforeHead
<1>13. ~Torn(Current)' => InHand'
  BY <1>1, <1>10 DEF InHand
<1> QED BY <1>6, <1>12, <1>13 DEF Claims

-----------------------------------------------------------------------------
(* The request and the answer *)

\* Only what is in hand changes; the answers given before stay right.
LEMMA OneMoreAnswer ==
  ASSUME HandlerInv, ~Disclaimed, Len(answers) + 1 = Current, handler # "read",
         UNCHANGED <<program, asked, left, pieces>>,
         NEW s \in Nat, NEW l \in Nat, NEW b \in Nat,
         answers' = Append(answers, [status |-> s, length |-> l, body |-> b]),
         status' \in Nat, position' \in Nat,
         handler' = "read" \/ Fine(Current)'
  PROVE  HandlerTypes' /\ AllFine' /\ Current' = Current /\ Len(answers') = Current /\ Current > 0
         /\ answers'[Current] = [status |-> s, length |-> l, body |-> b]
<1> DEFINE S == [status : Nat, length : Nat, body : Nat]
           a == [status |-> s, length |-> l, body |-> b]
<1>1. answers \in Seq(S) /\ a \in S /\ answers' = Append(answers, a)
  BY DEF HandlerInv, Claims, HandlerTypes
<1>2. Current' = Current /\ Current \in Nat
  BY DEF Current, HandlerInv
<1> HIDE DEF S, a
<1>3. answers' \in Seq(S) /\ Len(answers') = Current /\ answers'[Current] = a /\ Current > 0
  BY <1>1, <1>2
<1>4. \A k \in DOMAIN answers' : k = Current \/ (k \in DOMAIN answers /\ answers'[k] = answers[k])
  BY <1>1, <1>2, <1>3
<1>5. HandlerTypes /\ AllFine /\ asked \in Seq(Kinds)
  BY DEF HandlerInv, Claims
<1>6. HandlerTypes'
  BY <1>2, <1>3, <1>5 DEF HandlerTypes, S
<1>7. AllFine'
  <2> SUFFICES ASSUME NEW k \in DOMAIN answers'
               PROVE  Fine(k)' \/ (k = Len(answers') /\ handler' = "read")
    BY DEF AllFine
  <2>1. CASE k = Current
    BY <1>2, <1>3, <2>1
  <2>2. CASE k \in DOMAIN answers /\ answers'[k] = answers[k]
    <3>1. k \in DOMAIN asked /\ k \in DOMAIN pieces
      <4>1. k \in 1 .. Current
        BY <1>2, <1>5, <2>2, AnswersAre
      <4>2. DOMAIN asked = 1 .. Current /\ DOMAIN pieces = 1 .. Current
        BY <1>5 DEF Current, HandlerTypes
      <4> QED BY <4>1, <4>2
    <3>2. Fine(k)
      BY <1>5, <2>2 DEF AllFine
    <3> QED BY <2>2, <3>1, <3>2, FineStays
  <2> QED BY <1>4, <2>1, <2>2
<1> QED BY <1>2, <1>3, <1>6, <1>7 DEF a

LEMMA ExpectedError ==
  ASSUME NEW kind \in Kinds
  PROVE  /\ kind = "put" => Expected(kind) = ErrorHead(501)
         /\ kind = "old" => Expected(kind) = ErrorHead(500)
<1>1. OpenStatus("put") = OK /\ OpenStatus("old") = OK
  BY DEF OpenStatus
<1>2. ASSUME kind = "put" PROVE Expected(kind) = ErrorHead(501)
  BY <1>1, <1>2 DEF Expected, ErrorHead, Head200, OK
<1>3. ASSUME kind = "old" PROVE Expected(kind) = ErrorHead(500)
  BY <1>1, <1>3 DEF Expected, ErrorHead, Head200, OK
<1> QED BY <1>2, <1>3

LEMMA ParseStep ==
  ASSUME HandlerInv, Parse, ~Disclaimed, ~Disclaimed'
  PROVE  Claims'
<1>1. HandlerTypes /\ Place /\ AllFine /\ (~Torn(Current) => InHand) /\ asked \in Seq(Kinds)
  BY DEF HandlerInv, Claims
<1> DEFINE kind == Last(asked)
           text == String(request)
           bad == IF program = "threaded" THEN ThreadedStatus(text, kind) ELSE ForkingStatus(text, kind)
<1>2. /\ handler = "parse" /\ status' = bad
      /\ httpr' = (IF bad = OK THEN kind ELSE "freed")
      /\ handler' = (IF bad = OK \/ program = "forking" THEN "open" ELSE "error")
      /\ UNCHANGED <<program, asked, coming, left, request, bytesRead, position, answers, pieces>>
  BY DEF Parse
<1>3. Len(answers) + 1 = Current /\ Current > 0
      /\ (program = "threaded" => coming = <<>> /\ bytesRead = 0)
  <2>1. Len(answers) + 1 = Current /\ (program = "threaded" => coming = <<>> /\ bytesRead = 0)
    BY <1>1, <1>2 DEF Place, BeforeHead
  <2> QED BY <1>1, <2>1, AnswersAre
<1>4. /\ Kind \in Kinds \ {"directory"} /\ Kind = kind
      /\ program = "forking" => Kind = "found"
  BY <1>3, KindClaimed
<1>5. bad \in {501, 500, 200} /\ bad \in Nat
  BY DEF ThreadedStatus, ForkingStatus, OK
<1>6. Whole(text) =>
        /\ bad = OK => kind \notin {"old", "put"}
        /\ bad # OK => program = "threaded" /\ ErrorHead(bad) = Expected(kind)
  <2> SUFFICES ASSUME Whole(text)
               PROVE  /\ bad = OK => kind \notin {"old", "put"}
                      /\ bad # OK => program = "threaded" /\ ErrorHead(bad) = Expected(kind)
    OBVIOUS
  <2>1. CASE program = "forking"
    <3>1. bad = OK /\ kind \notin {"old", "put"}
      BY <1>4, <2>1 DEF ForkingStatus
    <3> QED BY <2>1, <3>1
  <2>2. CASE program = "threaded" /\ kind = "put"
    <3>1. bad = 501
      BY <2>2 DEF ThreadedStatus
    <3>2. Expected(kind) = ErrorHead(501)
      BY <1>4, <2>2, ExpectedError
    <3> QED BY <2>2, <3>1, <3>2 DEF OK
  <2>3. CASE program = "threaded" /\ kind = "old"
    <3>1. bad = 500
      BY <2>3 DEF ThreadedStatus
    <3>2. Expected(kind) = ErrorHead(500)
      BY <1>4, <2>3, ExpectedError
    <3> QED BY <2>3, <3>1, <3>2 DEF OK
  <2>4. CASE program = "threaded" /\ kind # "put" /\ kind # "old"
    <3>1. bad = OK
      BY <2>4 DEF ThreadedStatus
    <3> QED BY <2>4, <3>1
  <2>5. program = "threaded" \/ program = "forking"
    BY DEF HandlerInv
  <2> QED BY <2>1, <2>2, <2>3, <2>4, <2>5
<1> HIDE DEF bad, text
<1>7. Current' = Current /\ Kind' = Kind /\ (Torn(Current)' <=> Torn(Current))
  BY <1>2 DEF Current, Kind, Torn
<1>8. HandlerTypes'
  BY <1>1, <1>2, <1>5, <1>7 DEF HandlerTypes
<1>9. AllFine'
  BY <1>1, <1>2, AllFineStays
<1>10. Place'
  BY <1>2, <1>3, <1>7 DEF Place, BeforeHead
<1>11. ~Torn(Current)' => InHand'
  <2> SUFFICES ASSUME ~Torn(Current) PROVE InHand'
    BY <1>7
  <2>1. Whole(text)
    BY <1>1, <1>2 DEF InHand, text
  <2>2. CASE bad = OK
    BY <1>2, <1>4, <1>6, <1>7, <2>1, <2>2 DEF InHand
  <2>3. CASE bad # OK
    <3>1. handler' = "error" /\ ErrorHead(status') = Expected(Kind)
      BY <1>2, <1>4, <1>6, <2>1, <2>3
    <3>2. Expected(Kind)' = Expected(Kind)
      BY <1>2, <1>7 DEF Expected
    <3> QED BY <3>1, <3>2 DEF InHand, ErrorHead
  <2> QED BY <2>2, <2>3
<1> QED BY <1>8, <1>9, <1>10, <1>11 DEF Claims

LEMMA OpenFileStep ==
  ASSUME HandlerInv, OpenFile, ~Disclaimed, ~Disclaimed'
  PROVE  Claims'
<1>1. HandlerTypes /\ Place /\ AllFine /\ (~Torn(Current) => InHand) /\ asked \in Seq(Kinds)
  BY DEF HandlerInv, Claims
<1>2. /\ handler = "open" /\ position' = 0
      /\ status' \in (IF httpr = "freed" THEN {403, 404, 500} ELSE {OpenStatus(httpr)})
      /\ \/ handler' = (IF status' = OK THEN "head" ELSE "error")
         \/ program = "forking" /\ status' # OK /\ handler' = "killed"
      /\ UNCHANGED <<program, asked, coming, left, request, bytesRead, httpr, answers, pieces>>
  BY DEF OpenFile
<1>3. Len(answers) + 1 = Current /\ Current > 0
      /\ (program = "threaded" => coming = <<>> /\ bytesRead = 0)
  <2>1. Len(answers) + 1 = Current /\ (program = "threaded" => coming = <<>> /\ bytesRead = 0)
    BY <1>1, <1>2 DEF Place, BeforeHead
  <2> QED BY <1>1, <2>1, AnswersAre
<1>4. /\ Kind \in Kinds \ {"directory"}
      /\ program = "forking" => Kind = "found"
  BY <1>3, KindClaimed
<1>5. Current' = Current /\ Kind' = Kind /\ (Torn(Current)' <=> Torn(Current))
  BY <1>2 DEF Current, Kind, Torn
<1>6. status' \in {403, 404, 500, 200}
  BY <1>2 DEF OpenStatus, OK
<1>7. HandlerTypes'
  BY <1>1, <1>2, <1>5, <1>6 DEF HandlerTypes
<1>8. AllFine'
  BY <1>1, <1>2, AllFineStays
<1>9. handler' \in {"head", "error", "killed"}
  BY <1>2
<1>10. Place'
  BY <1>2, <1>3, <1>5, <1>9 DEF Place, BeforeHead
<1>11. ~Torn(Current)' => InHand'
  <2> SUFFICES ASSUME ~Torn(Current) PROVE InHand'
    BY <1>5
  <2>1. httpr = Kind /\ Kind \notin {"old", "put"}
    BY <1>1, <1>2 DEF InHand
  <2>2. status' = OpenStatus(Kind)
    BY <1>2, <1>4, <2>1 DEF Kinds
  <2>3. Expected(Kind) = (IF OpenStatus(Kind) # OK THEN ErrorHead(OpenStatus(Kind)) ELSE WholeFile)
    BY <1>4, <2>1 DEF Expected, WholeFile
  <2>4. Expected(Kind)' = Expected(Kind) /\ WholeFile' = WholeFile
    BY <1>2, <1>5 DEF Expected, WholeFile
  <2>5. handler' = "error" => ErrorHead(status') = Expected(Kind)
    BY <1>2, <2>2, <2>3
  <2>6. handler' = "head" => httpr' = Kind /\ position' = 0 /\ Expected(Kind) = WholeFile
    BY <1>2, <2>1, <2>2, <2>3
  <2> QED BY <1>5, <1>9, <2>4, <2>5, <2>6 DEF InHand, ErrorHead
<1> QED BY <1>7, <1>8, <1>10, <1>11 DEF Claims

LEMMA SendHeadStep ==
  ASSUME HandlerInv, SendHead, ~Disclaimed, ~Disclaimed'
  PROVE  Claims'
<1>1. HandlerTypes /\ Place /\ (~Torn(Current) => InHand) /\ asked \in Seq(Kinds)
  BY DEF HandlerInv, Claims
<1>2. /\ handler = "head" /\ ~left /\ answers' = Append(answers, Head200) /\ handler' = "read"
      /\ UNCHANGED <<program, asked, coming, left, request, bytesRead, httpr, status,
                     position, pieces>>
  BY DEF SendHead, Transmit, Disclaimed
<1>3. Len(answers) + 1 = Current /\ (program = "threaded" => coming = <<>> /\ bytesRead = 0)
  BY <1>1, <1>2 DEF Place, BeforeHead
<1>4. answers' = Append(answers, [status |-> 200, length |-> Blocks, body |-> 0]) /\ Blocks \in Nat
  BY <1>2, HandlerAssumption DEF Head200, OK
<1>5. status' \in Nat /\ position' \in Nat
  BY <1>1, <1>2 DEF HandlerTypes
<1>6. /\ HandlerTypes' /\ AllFine' /\ Current' = Current /\ Len(answers') = Current /\ Current > 0
      /\ answers'[Current] = [status |-> 200, length |-> Blocks, body |-> 0]
  <2>1. \A b \in Nat : b = Blocks => answers' = Append(answers, [status |-> 200, length |-> b, body |-> 0])
    BY <1>4
  <2>2. handler # "read"
    BY <1>2
  <2>3. HandlerTypes' /\ AllFine' /\ Current' = Current /\ Len(answers') = Current /\ Current > 0
    BY <1>2, <1>3, <1>4, <1>5, <2>2, OneMoreAnswer
  <2>4. answers'[Current] = [status |-> 200, length |-> Blocks, body |-> 0]
    BY <1>2, <1>3, <1>4, <1>5, <2>2, OneMoreAnswer
  <2> QED BY <2>3, <2>4
<1>7. Place'
  BY <1>2, <1>3, <1>6 DEF Place, BeforeHead
<1>8. ~Torn(Current)' => InHand'
  <2>1. Kind' = Kind /\ (Torn(Current)' <=> Torn(Current))
    BY <1>2, <1>6 DEF Kind, Torn
  <2> SUFFICES ASSUME ~Torn(Current) PROVE InHand'
    BY <2>1
  <2>2. httpr = Kind /\ position = 0 /\ Expected(Kind) = WholeFile
    BY <1>1, <1>2 DEF InHand
  <2>3. Expected(Kind)' = Expected(Kind) /\ WholeFile' = WholeFile
    BY <1>2, <2>1 DEF Expected, WholeFile
  <2>4. answers'[Current] = [Head200 EXCEPT !.body = 0] /\ 0 <= Blocks
    BY <1>6, HandlerAssumption DEF Head200, OK
  <2> QED BY <1>2, <1>6, <2>1, <2>2, <2>3, <2>4 DEF InHand, Head200
<1> QED BY <1>6, <1>7, <1>8 DEF Claims

LEMMA SendErrorStep ==
  ASSUME HandlerInv, SendErrorResponse, ~Disclaimed, ~Disclaimed'
  PROVE  Claims'
<1>1. HandlerTypes /\ Place /\ (~Torn(Current) => InHand) /\ asked \in Seq(Kinds)
  BY DEF HandlerInv, Claims
<1>2. /\ handler = "error" /\ ~left /\ handler' = "sent"
      /\ answers' = Append(answers, [status |-> status, length |-> 1, body |-> 1])
      /\ UNCHANGED <<program, asked, coming, left, request, bytesRead, httpr, status,
                     position, pieces>>
  BY DEF SendErrorResponse, Transmit, Disclaimed, ErrorHead
<1>3. Len(answers) + 1 = Current /\ (program = "threaded" => coming = <<>> /\ bytesRead = 0)
  BY <1>1, <1>2 DEF Place, BeforeHead
<1>4. status \in Nat /\ status' \in Nat /\ position' \in Nat
  BY <1>1, <1>2 DEF HandlerTypes
<1>5. Current' = Current /\ Kind' = Kind /\ Current \in Nat
  BY <1>1, <1>2 DEF Current, Kind
<1>6. Fine(Current)'
  <2>1. CASE Torn(Current)
    <3>1. Torn(Current)'
      BY <1>2, <1>5, <2>1 DEF Torn
    <3> QED BY <3>1 DEF Fine, NotCovered
  <2>2. CASE ~Torn(Current)
    <3>1. ErrorHead(status) = Expected(Kind)
      BY <1>1, <1>2, <2>2 DEF InHand
    <3>2. Expected(Kind)' = Expected(Kind)
      BY <1>2, <1>5 DEF Expected
    <3>3. Current \in DOMAIN answers' /\ answers'[Current] = ErrorHead(status)
      <4> DEFINE a == [status |-> status, length |-> 1, body |-> 1]
                 S == [status : Nat, length : Nat, body : Nat]
      <4>1. answers \in Seq(S) /\ answers' = Append(answers, a) /\ Len(answers) + 1 = Current
        BY <1>1, <1>2, <1>3 DEF HandlerTypes
      <4> HIDE DEF a, S
      <4>2. Current \in DOMAIN answers' /\ answers'[Current] = a
        BY <4>1
      <4> QED BY <4>2 DEF a, ErrorHead
    <3>4. Current \in DOMAIN asked
      BY <1>1, <1>3, AnswersAre DEF Current
    <3> QED BY <1>2, <1>5, <3>1, <3>2, <3>3, <3>4 DEF Fine, RightAnswer, Kind
  <2> QED BY <2>1, <2>2
<1>7. HandlerTypes' /\ AllFine' /\ Len(answers') = Current /\ Current > 0
  <2>1. handler # "read"
    BY <1>2
  <2>2. \A s \in Nat : s = status => answers' = Append(answers, [status |-> s, length |-> 1, body |-> 1])
    BY <1>2
  <2> QED BY <1>2, <1>3, <1>4, <1>6, <2>1, OneMoreAnswer
<1>8. Place'
  BY <1>2, <1>3, <1>5, <1>7 DEF Place, BeforeHead
<1>9. InHand'
  BY <1>2 DEF InHand
<1> QED BY <1>7, <1>8, <1>9 DEF Claims

\* More of the body of the last answer.
LEMMA AnswerGrows ==
  ASSUME HandlerInv, ~Disclaimed, handler = "read", handler' = "read", position' \in Nat,
         UNCHANGED <<program, asked, coming, left, bytesRead, status, pieces>>,
         NEW b \in Nat, answers' = [answers EXCEPT ![Len(answers)].body = b]
  PROVE  /\ HandlerTypes' /\ Place' /\ AllFine' /\ Current' = Current /\ Kind' = Kind
         /\ answers'[Current] = [answers[Current] EXCEPT !.body = b]
<1> DEFINE S == [status : Nat, length : Nat, body : Nat]
           a == [answers[Len(answers)] EXCEPT !.body = b]
<1>1. HandlerTypes /\ Place /\ AllFine /\ asked \in Seq(Kinds)
  BY DEF HandlerInv, Claims
<1>2. Current' = Current /\ Kind' = Kind /\ Current \in Nat
  BY <1>1 DEF Current, Kind
<1>3. /\ Len(answers) = Current /\ Current > 0
      /\ program = "threaded" => coming = <<>> /\ bytesRead = 0
  BY <1>1 DEF Place
<1>4. answers \in Seq(S) /\ Len(answers) \in DOMAIN answers
  BY <1>1, <1>2, <1>3 DEF HandlerTypes
<1>5. a \in S
  <2>1. answers[Len(answers)] \in S
    <3> HIDE DEF S
    <3> QED BY ONLY <1>4
  <2> QED BY <2>1
<1>6. answers' = [answers EXCEPT ![Len(answers)] = a]
  OBVIOUS
<1> HIDE DEF S, a
<1>7. /\ answers' \in Seq(S) /\ Len(answers') = Len(answers) /\ answers'[Len(answers)] = a
      /\ DOMAIN answers' = DOMAIN answers
      /\ \A k \in DOMAIN answers : k = Len(answers) \/ answers'[k] = answers[k]
  BY ONLY <1>4, <1>5, <1>6
<1>8. HandlerTypes'
  BY <1>1, <1>2, <1>7 DEF HandlerTypes, S
<1>9. Place'
  BY <1>1, <1>2, <1>3, <1>7 DEF Place, BeforeHead
<1>10. AllFine'
  <2> SUFFICES ASSUME NEW k \in DOMAIN answers, k # Len(answers) PROVE Fine(k)'
    BY <1>7 DEF AllFine
  <2>1. k \in DOMAIN asked /\ k \in DOMAIN pieces
    <3>1. k \in 1 .. Current
      BY <1>1, <1>2, <1>3, AnswersAre
    <3>2. DOMAIN asked = 1 .. Current /\ DOMAIN pieces = 1 .. Current
      BY <1>1 DEF Current, HandlerTypes
    <3> QED BY <3>1, <3>2
  <2>2. Fine(k)
    BY <1>1 DEF AllFine
  <2> QED BY <1>7, <2>1, <2>2, FineStays
<1> QED BY <1>2, <1>3, <1>7, <1>8, <1>9, <1>10 DEF a

LEMMA SendBlockStep ==
  ASSUME HandlerInv, SendBlock, ~Disclaimed, ~Disclaimed'
  PROVE  Claims'
<1>1. HandlerTypes /\ Place /\ (~Torn(Current) => InHand) /\ asked \in Seq(Kinds)
  BY DEF HandlerInv, Claims
<1>2. /\ handler = "read" /\ ~left /\ position < Blocks /\ position' = position + 1
      /\ handler' = "read"
      /\ UNCHANGED <<program, asked, coming, left, request, bytesRead, httpr, status, pieces>>
  BY DEF SendBlock, Transmit, Disclaimed
<1>3. answers' = [answers EXCEPT ![Len(answers)].body = answers[Len(answers)].body + 1]
  BY DEF SendBlock, Transmit, Disclaimed
<1>4. Len(answers) = Current /\ Current > 0 /\ position \in Nat
  BY <1>1, <1>2 DEF Place, HandlerTypes
<1>5. answers[Len(answers)].body + 1 \in Nat
  <2> DEFINE S == [status : Nat, length : Nat, body : Nat]
  <2>1. answers \in Seq(S) /\ Len(answers) \in DOMAIN answers
    BY <1>1, <1>4 DEF HandlerTypes
  <2>2. answers[Len(answers)] \in S
    <3> HIDE DEF S
    <3> QED BY ONLY <2>1
  <2> QED BY <2>2
<1>6. /\ HandlerTypes' /\ Place' /\ AllFine' /\ Current' = Current /\ Kind' = Kind
      /\ answers'[Current] = [answers[Current] EXCEPT !.body = answers[Current].body + 1]
  <2>1. PICK b \in Nat : b = answers[Len(answers)].body + 1
    BY <1>5
  <2>2. answers' = [answers EXCEPT ![Len(answers)].body = b] /\ position' \in Nat
    BY <1>2, <1>3, <1>4, <2>1
  <2>3. /\ HandlerTypes' /\ Place' /\ AllFine' /\ Current' = Current /\ Kind' = Kind
        /\ answers'[Current] = [answers[Current] EXCEPT !.body = b]
    BY <1>2, <2>2, AnswerGrows
  <2> QED BY <1>4, <2>1, <2>3
<1>7. ~Torn(Current)' => InHand'
  <2>1. Torn(Current)' <=> Torn(Current)
    BY <1>2, <1>6 DEF Torn
  <2> SUFFICES ASSUME ~Torn(Current) PROVE InHand'
    BY <2>1
  <2>2. /\ httpr = Kind /\ Expected(Kind) = WholeFile
        /\ answers[Current] = [Head200 EXCEPT !.body = position]
    BY <1>1, <1>2 DEF InHand
  <2>3. Expected(Kind)' = Expected(Kind) /\ WholeFile' = WholeFile
    BY <1>2, <1>6 DEF Expected, WholeFile
  <2>4. answers'[Current] = [Head200 EXCEPT !.body = position + 1]
    BY <1>6, <2>2 DEF Head200
  <2>5. position + 1 <= Blocks
    BY <1>2, <1>4, HandlerAssumption
  <2> QED BY <1>2, <1>6, <2>2, <2>3, <2>4, <2>5 DEF InHand, Head200
<1> QED BY <1>6, <1>7 DEF Claims

\* A directory is read for good only when the request was torn: nobody asked for one.
LEMMA ReadFailsStep ==
  ASSUME HandlerInv, ReadFails, ~Disclaimed, ~Disclaimed'
  PROVE  Claims'
<1>1. HandlerTypes /\ Place /\ (~Torn(Current) => InHand) /\ asked \in Seq(Kinds)
  BY DEF HandlerInv, Claims
<1>2. /\ handler = "read" /\ httpr = "directory" /\ ~left /\ handler' = "read"
      /\ answers' = [answers EXCEPT ![Len(answers)].body = Blocks + 1]
      /\ UNCHANGED <<program, asked, coming, left, request, bytesRead, httpr, status,
                     position, pieces>>
  BY DEF ReadFails, Transmit, Disclaimed
<1>3. Current > 0
  BY <1>1, <1>2 DEF Place
<1>4. Torn(Current)
  BY <1>1, <1>2, <1>3, KindClaimed DEF InHand
<1>5. Blocks + 1 \in Nat /\ position' \in Nat
  BY <1>1, <1>2, HandlerAssumption DEF HandlerTypes
<1>6. HandlerTypes' /\ Place' /\ AllFine' /\ Current' = Current
  BY <1>2, <1>5, AnswerGrows
<1>7. Torn(Current)'
  BY <1>2, <1>4, <1>6 DEF Torn
<1> QED BY <1>6, <1>7 DEF Claims

LEMMA EndOfFileStep ==
  ASSUME HandlerInv, EndOfFile, ~Disclaimed, ~Disclaimed'
  PROVE  Claims'
<1>1. HandlerTypes /\ Place /\ AllFine /\ (~Torn(Current) => InHand) /\ asked \in Seq(Kinds)
  BY DEF HandlerInv, Claims
<1>2. /\ handler = "read" /\ position = Blocks /\ handler' = "sent"
      /\ UNCHANGED <<program, asked, coming, left, request, bytesRead, httpr, status, position,
                     answers, pieces>>
  BY DEF EndOfFile
<1>3. /\ Len(answers) = Current /\ Current > 0
      /\ program = "threaded" => coming = <<>> /\ bytesRead = 0
  BY <1>1, <1>2 DEF Place
<1>4. Current' = Current /\ Kind' = Kind /\ Current \in Nat
  BY <1>1, <1>2 DEF Current, Kind
<1>5. DOMAIN asked = 1 .. Current /\ DOMAIN pieces = 1 .. Current /\ DOMAIN answers = 1 .. Current
  <2>1. DOMAIN answers = 1 .. Current
    BY <1>1, <1>3, AnswersAre
  <2> QED BY <1>1, <2>1 DEF HandlerTypes, Current
<1>6. Fine(Current)'
  <2>1. CASE Torn(Current)
    <3>1. Torn(Current)'
      BY <1>2, <1>4, <2>1 DEF Torn
    <3> QED BY <3>1 DEF Fine, NotCovered
  <2>2. CASE ~Torn(Current)
    <3>1. Expected(Kind) = WholeFile /\ answers[Current] = [Head200 EXCEPT !.body = Blocks]
      BY <1>1, <1>2, <2>2 DEF InHand
    <3>2. Expected(Kind)' = Expected(Kind)
      BY <1>2, <1>4 DEF Expected
    <3>3. Current \in DOMAIN answers' /\ Current \in DOMAIN asked'
      BY <1>2, <1>3, <1>4, <1>5
    <3>4. answers'[Current] = Expected(Kind)'
      BY <1>2, <3>1, <3>2 DEF WholeFile
    <3> QED BY <1>2, <1>4, <3>3, <3>4 DEF Fine, RightAnswer, Kind
  <2> QED BY <2>1, <2>2
<1>7. AllFine'
  <2> SUFFICES ASSUME NEW k \in DOMAIN answers PROVE Fine(k)'
    BY <1>2 DEF AllFine
  <2>1. CASE k = Current
    BY <1>4, <1>6, <2>1
  <2>2. CASE k # Current
    <3>1. Fine(k) /\ k \in DOMAIN asked /\ k \in DOMAIN pieces
      BY <1>1, <1>3, <1>5, <2>2 DEF AllFine
    <3> QED BY <1>2, <3>1, FineStays
  <2> QED BY <2>1, <2>2
<1>8. HandlerTypes'
  BY <1>1, <1>2, <1>4 DEF HandlerTypes
<1>9. Place'
  BY <1>2, <1>3, <1>4 DEF Place, BeforeHead
<1>10. InHand'
  BY <1>2 DEF InHand
<1> QED BY <1>7, <1>8, <1>9, <1>10 DEF Claims

LEMMA RequestDoneStep ==
  ASSUME HandlerInv, RequestDone, ~Disclaimed, ~Disclaimed'
  PROVE  Claims'
<1>1. HandlerTypes /\ Place /\ AllFine /\ asked \in Seq(Kinds) /\ program \in {"threaded", "forking"}
  BY DEF HandlerInv, Claims
<1>2. /\ handler = "sent" /\ handler' \in {"recv", "ended", "killed"}
      /\ handler' = "recv" => program = "threaded" /\ request' = Buffer
      /\ UNCHANGED <<program, asked, coming, left, bytesRead, status, position, answers, pieces>>
  BY <1>1 DEF RequestDone
<1>3. /\ Len(answers) = Current /\ Current > 0
      /\ program = "threaded" => coming = <<>> /\ bytesRead = 0
  BY <1>1, <1>2 DEF Place
<1>4. Current' = Current /\ Leftovers' = Leftovers
  BY <1>2 DEF Current, Leftovers
<1>5. HandlerTypes'
  BY <1>1, <1>2, <1>4 DEF HandlerTypes
<1>6. handler' = "recv" => Receiving'
  BY <1>2, <1>3, <1>4, NothingLeftOver DEF Receiving
<1>7. Place'
  BY <1>2, <1>6 DEF Place, BeforeHead
<1>8. AllFine'
  BY <1>1, <1>2, AllFineStays
<1>9. InHand'
  BY <1>2 DEF InHand
<1> QED BY <1>5, <1>7, <1>8, <1>9 DEF Claims

-----------------------------------------------------------------------------
(* The theorem *)

LEMMA ClaimsStay ==
  ASSUME HandlerInv, HhNext, ~Disclaimed, ~Disclaimed'
  PROVE  Claims'
<1>1. ASSUME NEW n \in DOMAIN coming, Receive(n) \/ ReceiveOnce(n) PROVE Claims'
  BY <1>1, ReceiveStep, ReceiveOnceStep
<1>2. ASSUME PeerDisconnected \/ GetName PROVE Claims'
  BY <1>2, GetNameStep DEF PeerDisconnected, Disclaimed
<1>3. ASSUME Quit PROVE Claims'
  BY <1>3 DEF Quit, Disclaimed
<1>4. ASSUME NEW kind \in Kinds, Ask(kind) PROVE Claims'
  BY <1>4, AskStep
<1>5. ASSUME Parse \/ OpenFile \/ SendHead \/ SendErrorResponse PROVE Claims'
  BY <1>5, ParseStep, OpenFileStep, SendHeadStep, SendErrorStep
<1>6. ASSUME SendBlock \/ EndOfFile \/ ReadFails \/ RequestDone PROVE Claims'
  BY <1>6, SendBlockStep, EndOfFileStep, ReadFailsStep, RequestDoneStep
<1> QED BY <1>1, <1>2, <1>3, <1>4, <1>5, <1>6 DEF HhNext, HandlerStep

LEMMA NextHandler == HandlerInv /\ [HhNext]_handlerVars => HandlerInv'
<1> SUFFICES ASSUME HandlerInv, [HhNext]_handlerVars PROVE HandlerInv'
  OBVIOUS
<1>1. CASE HhNext
  <2>1. /\ program' = program /\ left' \in BOOLEAN
        /\ asked' = asked \/ \E kind \in Kinds : asked' = Append(asked, kind)
    BY <1>1 DEF HandlerInv, HhNext, HandlerStep, Quit, Ask, Receive, ReceiveOnce, GetName, PeerDisconnected,
           Parse, OpenFile, SendHead, SendErrorResponse, SendBlock, EndOfFile, ReadFails, RequestDone
  <2>2. asked' \in Seq(Kinds)
    BY <2>1 DEF HandlerInv
  <2>3. ~Disclaimed' => Claims'
    BY <1>1, DisclaimedStays, ClaimsStay
  <2> QED BY <2>1, <2>2, <2>3 DEF HandlerInv
<1>2. CASE UNCHANGED handlerVars
  <2> USE <1>2 DEF handlerVars
  <2>1. Current' = Current /\ Kind' = Kind /\ Leftovers' = Leftovers
    BY DEF Current, Kind, Leftovers
  <2>2. HandlerTypes <=> HandlerTypes'
    BY <2>1 DEF HandlerTypes
  <2>3. Torn(Current) <=> Torn(Current)'
    BY <2>1 DEF Torn
  <2>4. (Fresh <=> Fresh') /\ (Half <=> Half') /\ (Pieced <=> Pieced')
    BY <2>1, <2>3 DEF Fresh, Half, Pieced, Text, Size, Nul
  <2>5. Place <=> Place'
    BY <2>1, <2>4 DEF Place, Receiving, BeforeHead
  <2>6. Expected(Kind)' = Expected(Kind) /\ WholeFile' = WholeFile
    BY <2>1 DEF Expected, WholeFile
  <2>7. InHand => InHand'
    <3>1. Whole(String(request)) <=> Whole(String(request))'
      BY DEF Whole, String, Text, Nul
    <3>2. ErrorHead(status)' = ErrorHead(status) /\ Head200' = Head200
      BY DEF ErrorHead, Head200
    <3>3. /\ answers[Current]' = answers[Current]
          /\ [Head200 EXCEPT !.body = position]' = [Head200 EXCEPT !.body = position]
      BY <2>1, <3>2
    <3> QED BY <2>1, <2>6, <3>1, <3>2, <3>3 DEF InHand
  <2>8. AllFine => AllFine'
    BY DEF AllFine, Fine, NotCovered, Torn, RightAnswer, Expected
  <2>9. Disclaimed <=> Disclaimed'
    BY DEF Disclaimed
  <2> QED BY <2>2, <2>3, <2>5, <2>7, <2>8, <2>9 DEF HandlerInv, Claims
<1> QED BY <1>1, <1>2

LEMMA HandlerAnswersRight == HandlerInv => AnswersRight
<1> SUFFICES ASSUME HandlerInv, NEW k \in DOMAIN answers
             PROVE  \/ NotCovered(k)
                    \/ k \in DOMAIN asked /\ (RightAnswer(k) \/ (k = Len(answers) /\ handler = "read"))
  BY DEF AnswersRight
<1>1. CASE Disclaimed
  BY <1>1 DEF Disclaimed, NotCovered
<1>2. CASE ~Disclaimed
  <2>1. HandlerTypes /\ AllFine /\ asked \in Seq(Kinds)
    BY <1>2 DEF HandlerInv, Claims
  <2>2. k \in DOMAIN asked
    BY <2>1, AnswersAre DEF HandlerTypes, Current
  <2> QED BY <2>1, <2>2 DEF AllFine, Fine
<1> QED BY <1>1, <1>2

\* A request that comes whole, or to the threaded server torn once in the middle
\* of its line, gets the status it calls for and, if there is a file, all of it,
\* once: whatever the requests before it were, in whatever pieces they came and
\* however many they were.  It says nothing of a client that has left, has no
\* name or has asked for a directory, of other pieces, nor, of the forking
\* server, of a second request or of one that calls for an error, such as its
\* unknown methods (handle_client of the threaded and of the forking web server).
THEOREM AnswersAreRight == HhInit /\ [][HhNext]_handlerVars => []AnswersRight
BY InitHandler, NextHandler, HandlerAnswersRight, PTL
=============================================================================
