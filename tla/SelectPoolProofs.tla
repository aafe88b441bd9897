--------------------------- MODULE SelectPoolProofs ---------------------------
(* For any number of clients and descriptors: the pool of the select-based   *)
(* server agrees with its connections, nready counts what the loop has still *)
(* to come to, and a line is begun only for a client that has input.         *)
EXTENDS SelectPool, FiniteSetTheorems, SequenceTheorems, WellFoundedInduction, TLAPS

ClientFds == Listen + 1 .. OpenMax - 1
Given == {fd[c] : c \in Open}
HasInput(c) == inbox[c] # <<>> \/ peer[c] # "open"

\* The data, without what is echoed.
DataOK ==
  /\ pc \in {"select", "accept", "check", "line", "exit"}
  /\ i \in Nat /\ (pc = "line" => i \in Slots) /\ (pc = "accept" => i = 0)
  /\ maxfd \in Nat /\ Listen <= maxfd /\ maxi \in {-1} \cup Slots
  /\ clientfd \in [Slots -> ClientFds \cup {NoFd}]
  /\ line \in Seq(Units)
  /\ conn \in [Clients -> {"new", "backlog", "open", "closed"}]
  /\ fd \in [Clients -> ClientFds \cup {NoFd}]
  /\ peer \in [Clients -> {"open", "fin", "gone"}]
  /\ inbox \in [Clients -> Seq(Units)] /\ sent \in [Clients -> Seq(Units)]

\* Open clients, their descriptors and the slots in use are one to one.
OneToOne ==
  /\ \A c \in Open : fd[c] \in ClientFds
  /\ \A c, d \in Open : fd[c] = fd[d] => c = d
  /\ \A c \in Open : \E s \in Slots : clientfd[s] = fd[c]
  /\ \A s, t \in Slots : clientfd[s] = clientfd[t] /\ clientfd[s] # NoFd => s = t
  /\ \A s \in Slots : clientfd[s] # NoFd => clientfd[s] \in Given

Bounds ==
  /\ read_set = {Listen} \cup Given
  /\ \A s \in Slots : clientfd[s] # NoFd => s <= maxi
  /\ \A f \in Given : f <= maxfd

PoolInv == DataOK /\ OneToOne /\ Bounds

-----------------------------------------------------------------------------
LEMMA LeastIs ==
  ASSUME NEW S \in SUBSET Nat, S # {}
  PROVE  Least(S) \in S /\ \A y \in S : Least(S) <= y
<1> DEFINE R == {p \in Nat \X Nat : p[1] < p[2]}
<1>1. IsWellFoundedOn(R, Nat)
  BY NatLessThanWellFounded, Zenon DEF OpToRel
<1>2. PICK x \in S : \A y \in S : ~(<<y, x>> \in R)
  <2> HIDE DEF R
  <2> QED BY <1>1, WFMin
<1>3. ASSUME NEW y \in S PROVE x <= y
  <2>1. <<y, x>> \notin R
    <3> HIDE DEF R
    <3> QED BY <1>2
  <2>2. x \in Nat /\ y \in Nat /\ ~(y < x)
    BY <2>1
  <2> QED BY <2>2
<1> QED BY <1>3 DEF Least

\* There are fewer descriptors than slots, so add_client finds a free one.
LEMMA FreeSlot ==
  ASSUME PoolInv
  PROVE  \E s \in Slots : clientfd[s] = NoFd
<1> SUFFICES ASSUME \A s \in Slots : clientfd[s] # NoFd PROVE FALSE
  OBVIOUS
<1>1. clientfd \in [Slots -> ClientFds]
  BY DEF PoolInv, DataOK
<1>2. /\ IsFiniteSet(Slots) /\ Cardinality(Slots) = FdSetSize
      /\ IsFiniteSet(ClientFds) /\ Cardinality(ClientFds) < FdSetSize
  <2>1. /\ 0 \in Int /\ FdSetSize - 1 \in Int /\ Listen + 1 \in Int /\ OpenMax - 1 \in Int
        /\ FdSetSize \in Nat /\ Listen \in Nat /\ OpenMax \in Nat
        /\ Listen < OpenMax /\ OpenMax <= FdSetSize
    BY SelectAssumption
  <2>2. /\ IsFiniteSet(Slots)
        /\ Cardinality(Slots) = IF 0 > FdSetSize - 1 THEN 0 ELSE FdSetSize - 1 - 0 + 1
    BY <2>1, FS_Interval DEF Slots
  <2>3. /\ IsFiniteSet(ClientFds)
        /\ Cardinality(ClientFds) = IF Listen + 1 > OpenMax - 1 THEN 0
                                    ELSE OpenMax - 1 - (Listen + 1) + 1
    BY <2>1, FS_Interval DEF ClientFds
  <2> QED BY <2>1, <2>2, <2>3
<1>3. \E s, t \in Slots : s # t /\ clientfd[s] = clientfd[t]
  BY <1>1, <1>2, FS_PigeonHole
<1> QED BY <1>3 DEF PoolInv, OneToOne

\* What Accept and add_client choose.
FreshFd == Least(FreeFds)
FreshSlot == Least({t \in Slots : clientfd[t] < 0})

LEMMA Fresh ==
  ASSUME PoolInv, FreeFds # {}
  PROVE  /\ FreshFd \in ClientFds /\ FreshFd \notin Given
         /\ FreshSlot \in Slots /\ clientfd[FreshSlot] = NoFd
<1> USE SelectAssumption
<1>1. FreshFd \in FreeFds
  <2>1. FreeFds \in SUBSET Nat
    BY DEF FreeFds
  <2> QED BY <2>1, LeastIs DEF FreshFd
<1>2. FreshSlot \in {t \in Slots : clientfd[t] < 0}
  <2> DEFINE S == {t \in Slots : clientfd[t] < 0}
  <2>1. S \in SUBSET Nat
    BY DEF Slots
  <2>2. S # {}
    BY FreeSlot DEF NoFd
  <2> HIDE DEF S
  <2>3. Least(S) \in S
    BY <2>1, <2>2, LeastIs
  <2> QED BY <2>3 DEF S, FreshSlot
<1>3. clientfd[FreshSlot] \in ClientFds \cup {NoFd}
  BY <1>2 DEF PoolInv, DataOK
<1> QED BY <1>1, <1>2, <1>3 DEF FreeFds, ClientFds, Given

-----------------------------------------------------------------------------
(* The clients' steps change nothing of the pool. *)

ClientFrame(c) ==
  /\ c \in Clients /\ pool' = pool /\ pc' = pc /\ i' = i /\ line' = line /\ fd' = fd
  /\ Open' = Open
  /\ \A d \in Open : HasInput(d) => HasInput(d)'

\* A line has two units, numbered, of which the last may be missing.
WithinLine(t) == Len(t) <= 2 /\ \A k \in 1 .. Len(t) : t[k][2] = k

LEMMA Sends ==
  ASSUME DataOK, NEW c \in Clients, SendLine(c) \/ SendRest(c)
  PROVE  \E data \in Seq(Units) :
           /\ data # <<>> /\ Send(c, data)
           /\ \/ WithinLine(data) /\ (c \in Pipeliners \/ got[c] = sent[c])
              \/ InLine(c) /\ Len(data) = 1 /\ data[1][2] = 2
<1> USE DEF DataOK
<1>1. CASE SendLine(c)
  <2> DEFINE n == Len(sent[c]) \div 2 + 1
             half == <<<<n, 1>>>>
             whole == <<<<n, 1>>, <<n, 2>>>>
  <2>1. n \in Nat /\ n >= 1 /\ n <= MaxLines
    <3>1. Len(sent[c]) \in Nat
      OBVIOUS
    <3> QED BY <3>1, <1>1 DEF SendLine
  <2>2. Send(c, half) \/ Send(c, whole)
    BY <1>1 DEF SendLine
  <2>3. c \in Pipeliners \/ got[c] = sent[c]
    BY <1>1 DEF SendLine
  <2> HIDE DEF n
  <2>4. half \in Seq(Units) /\ whole \in Seq(Units)
    <3>1. n \in 1 .. MaxLines
      BY <2>1, SelectAssumption
    <3>2. <<n, 1>> \in Units /\ <<n, 2>> \in Units
      BY <3>1 DEF Units
    <3> QED BY <3>2
  <2>5. half # <<>> /\ whole # <<>> /\ WithinLine(half) /\ WithinLine(whole)
    BY DEF WithinLine
  <2> HIDE DEF half, whole
  <2> QED BY <2>2, <2>3, <2>4, <2>5
<1>2. CASE SendRest(c)
  <2> DEFINE data == <<<<Last(sent[c])[1], 2>>>>
  <2>1. Last(sent[c]) \in Units /\ InLine(c)
    BY <1>2 DEF SendRest, InLine, Last
  <2>2. data \in Seq(Units) /\ data # <<>> /\ Len(data) = 1 /\ data[1][2] = 2
    <3>1. <<Last(sent[c])[1], 2>> \in Units
      BY <2>1 DEF Units
    <3> QED BY <3>1
  <2>3. Send(c, data)
    BY <1>2 DEF SendRest
  <2> HIDE DEF data
  <2> QED BY <2>1, <2>2, <2>3
<1> QED BY <1>1, <1>2

LEMMA ClientFrames ==
  ASSUME DataOK, NEW c \in Clients, ClientStep(c)
  PROVE  /\ ClientFrame(c)
         /\ conn' \in [Clients -> {"new", "backlog", "open", "closed"}]
         /\ peer' \in [Clients -> {"open", "fin", "gone"}]
         /\ inbox' \in [Clients -> Seq(Units)] /\ sent' \in [Clients -> Seq(Units)]
<1> USE DEF DataOK, ClientFrame, HasInput
<1>1. CASE Connect(c)
  BY <1>1 DEF Connect, Open
<1>2. CASE SendLine(c) \/ SendRest(c)
  <2>1. PICK data \in Seq(Units) : data # <<>> /\ Send(c, data)
    BY <1>2, Sends
  <2>2. /\ inbox[c] \o data \in Seq(Units) /\ sent[c] \o data \in Seq(Units)
        /\ inbox[c] \o data # <<>>
    BY <2>1
  <2> QED BY <2>1, <2>2 DEF Send, Open
<1>3. CASE Leave(c, "fin") \/ Leave(c, "gone")
  BY <1>3 DEF Leave, Open
<1> QED BY <1>1, <1>2, <1>3 DEF ClientStep

-----------------------------------------------------------------------------
LEMMA InitPool == Init => PoolInv
<1> USE SelectAssumption DEF Init, Open, Given
<1>1. Init => DataOK
  BY DEF DataOK, ClientFds
<1>2. Init => OneToOne /\ Bounds
  BY DEF OneToOne, Bounds
<1> QED BY <1>1, <1>2 DEF PoolInv

\* The descriptor that Accept returns enters the pool.
LEMMA AddClientPool ==
  ASSUME PoolInv, NEW c \in Clients, AddClient(c)
  PROVE  PoolInv' /\ Given' = Given \cup {FreshFd}
<1> USE SelectAssumption DEF PoolInv
<1>1. /\ FreshFd \in ClientFds /\ FreshFd \notin Given
      /\ FreshSlot \in Slots /\ clientfd[FreshSlot] = NoFd
  BY Fresh DEF AddClient
<1>2. /\ conn' = [conn EXCEPT ![c] = "open"] /\ fd' = [fd EXCEPT ![c] = FreshFd]
      /\ clientfd' = [clientfd EXCEPT ![FreshSlot] = FreshFd]
      /\ read_set' = read_set \cup {FreshFd}
      /\ maxfd' = Greater(FreshFd, maxfd) /\ maxi' = Greater(FreshSlot, maxi)
      /\ pc' = "check" /\ conn[c] = "backlog"
      /\ i' = i /\ line' = line /\ peer' = peer /\ inbox' = inbox /\ sent' = sent
  BY DEF AddClient, FreshFd, FreshSlot, Backlog
<1>3. DataOK'
  <2>1. FreshFd \in Nat /\ Listen <= FreshFd /\ FreshSlot \in Nat
    BY <1>1 DEF ClientFds, Slots
  <2>2. maxfd' \in Nat /\ Listen <= maxfd' /\ maxi' \in {-1} \cup Slots
    BY <1>1, <1>2, <2>1 DEF DataOK, Greater, Slots
  <2> QED BY <1>1, <1>2, <2>2 DEF DataOK
<1>4. Open' = Open \cup {c} /\ c \notin Open
  BY <1>2 DEF Open, DataOK
<1>5. /\ \A d \in Open : fd'[d] = fd[d]
      /\ fd'[c] = FreshFd
  BY <1>2, <1>4 DEF DataOK, Open
<1>6. Given' = Given \cup {FreshFd}
  BY <1>4, <1>5 DEF Given
<1>7. OneToOne'
  <2>1. /\ clientfd'[FreshSlot] = FreshFd
        /\ \A s \in Slots \ {FreshSlot} : clientfd'[s] = clientfd[s]
    BY <1>1, <1>2 DEF DataOK
  <2>2. /\ \A d \in Open : fd[d] # FreshFd
        /\ \A s \in Slots : clientfd[s] # NoFd => clientfd[s] # FreshFd
    BY <1>1 DEF OneToOne, Given
  <2>3. \A d \in Open' : fd'[d] \in ClientFds
    BY <1>1, <1>4, <1>5 DEF OneToOne
  <2>4. \A d, e \in Open' : fd'[d] = fd'[e] => d = e
    BY <1>4, <1>5, <2>2 DEF OneToOne
  <2>5. \A d \in Open' : \E s \in Slots : clientfd'[s] = fd'[d]
    <3>1. \A d \in Open : fd[d] # NoFd
      BY DEF OneToOne, ClientFds, NoFd
    <3> QED BY <1>1, <1>4, <1>5, <2>1, <3>1 DEF OneToOne
  <2>6. \A s, t \in Slots : clientfd'[s] = clientfd'[t] /\ clientfd'[s] # NoFd => s = t
    <3>1. FreshFd # NoFd
      BY <1>1 DEF ClientFds, NoFd
    <3> QED BY <2>1, <2>2, <3>1 DEF OneToOne
  <2>7. \A s \in Slots : clientfd'[s] # NoFd => clientfd'[s] \in Given'
    BY <1>6, <2>1 DEF OneToOne
  <2> QED BY <2>3, <2>4, <2>5, <2>6, <2>7 DEF OneToOne
<1>8. Bounds'
  <2>1. \A f \in Given' : f <= maxfd'
    <3>1. Given \subseteq Int /\ FreshFd \in Int /\ maxfd \in Int
      BY <1>1 DEF DataOK, OneToOne, ClientFds, Given
    <3>2. maxfd <= maxfd' /\ FreshFd <= maxfd' /\ maxfd' \in Int
      BY <1>2, <3>1 DEF Greater
    <3> QED BY <1>6, <3>1, <3>2 DEF Bounds
  <2>2. \A s \in Slots : clientfd'[s] # NoFd => s <= maxi'
    BY <1>1, <1>2 DEF Bounds, Greater, DataOK, Slots
  <2> QED BY <1>2, <1>6, <2>1, <2>2 DEF Bounds
<1> QED BY <1>3, <1>6, <1>7, <1>8

\* The descriptor of the slot that the loop has come to leaves it.
LEMMA CloseClientPool ==
  ASSUME PoolInv, NEW c \in Clients, CloseClient(c)
  PROVE  PoolInv' /\ Given' = Given \ {clientfd[i]}
<1> USE SelectAssumption DEF PoolInv
<1>1. /\ pc = "line" /\ c \in Open /\ fd[c] = clientfd[i] /\ i \in Slots
      /\ conn' = [conn EXCEPT ![c] = "closed"] /\ fd' = [fd EXCEPT ![c] = NoFd]
      /\ read_set' = read_set \ {fd[c]} /\ clientfd' = [clientfd EXCEPT ![i] = NoFd]
      /\ pc' = "check" /\ i' = i + 1 /\ maxfd' = maxfd /\ maxi' = maxi
      /\ line' = line /\ peer' = peer /\ inbox' = inbox /\ sent' = sent
  BY DEF CloseClient, Closing, Reading, DataOK
<1>2. DataOK'
  BY <1>1 DEF DataOK
<1>3. Open' = Open \ {c}
  BY <1>1 DEF Open, DataOK
<1>4. \A d \in Open' : fd'[d] = fd[d] /\ fd[d] # fd[c]
  BY <1>1, <1>3 DEF DataOK, Open, OneToOne
<1>5. Given' = Given \ {fd[c]}
  BY <1>1, <1>3, <1>4 DEF Given
<1>6. \A s \in Slots : s # i => clientfd'[s] = clientfd[s] /\ (clientfd[s] # NoFd => clientfd[s] # fd[c])
  BY <1>1 DEF OneToOne, DataOK
<1>7. clientfd'[i] = NoFd /\ fd[c] # NoFd
  BY <1>1 DEF DataOK, OneToOne, ClientFds, NoFd
<1>8. OneToOne'
  <2>1. \A d \in Open' : fd'[d] \in ClientFds
    BY <1>3, <1>4 DEF OneToOne
  <2>2. \A d, e \in Open' : fd'[d] = fd'[e] => d = e
    BY <1>3, <1>4 DEF OneToOne
  <2>3. \A d \in Open' : \E s \in Slots : clientfd'[s] = fd'[d]
    BY <1>1, <1>3, <1>4, <1>6 DEF OneToOne
  <2>4. \A s, t \in Slots : clientfd'[s] = clientfd'[t] /\ clientfd'[s] # NoFd => s = t
    BY <1>6, <1>7 DEF OneToOne
  <2>5. \A s \in Slots : clientfd'[s] # NoFd => clientfd'[s] \in Given'
    BY <1>5, <1>6, <1>7 DEF OneToOne
  <2> QED BY <2>1, <2>2, <2>3, <2>4, <2>5 DEF OneToOne
<1>9. Bounds'
  <2>1. Listen # fd[c]
    BY <1>1 DEF OneToOne, ClientFds
  <2> QED BY <1>1, <1>5, <1>6, <1>7, <2>1 DEF Bounds
<1> QED BY <1>1, <1>2, <1>5, <1>8, <1>9

\* A read within a line: it goes on, with something, or it is over.
LEMMA ReadDataEffect ==
  ASSUME DataOK, NEW c \in Clients, ReadData(c)
  PROVE  /\ pc = "line" /\ c \in Open /\ fd[c] = clientfd[i] /\ i \in Slots
         /\ inbox' = [inbox EXCEPT ![c] = <<>>]
         /\ pool' = pool /\ conn' = conn /\ fd' = fd /\ peer' = peer /\ sent' = sent
         /\ \/ pc' = "line" /\ i' = i /\ line' \in Seq(Units) /\ line' # <<>>
            \/ pc' = "check" /\ i' = i + 1 /\ line' = <<>>
<1>1. /\ Reading(c) /\ inbox' = [inbox EXCEPT ![c] = <<>>] /\ inbox[c] # <<>>
      /\ pool' = pool /\ conn' = conn /\ fd' = fd /\ peer' = peer /\ sent' = sent
      /\ \/ pc' = pc /\ i' = i /\ line' = line \o inbox[c]
         \/ pc' = "check" /\ i' = i + 1 /\ line' = <<>>
  BY DEF ReadData, Echo
<1>2. line \o inbox[c] \in Seq(Units) /\ line \o inbox[c] # <<>>
  BY <1>1 DEF DataOK
<1> QED BY <1>1, <1>2 DEF Reading, DataOK

LEMMA NextPool ==
  ASSUME PoolInv, [Next]_vars
  PROVE  PoolInv'
<1> USE SelectAssumption
<1>1. ASSUME UNCHANGED <<conn, fd, read_set, maxfd, maxi, clientfd>>, DataOK' PROVE PoolInv'
  BY <1>1 DEF PoolInv, OneToOne, Bounds, Open, Given
<1>2. ASSUME NEW c \in Clients, ClientStep(c) PROVE PoolInv'
  <2>1. /\ ClientFrame(c)
        /\ conn' \in [Clients -> {"new", "backlog", "open", "closed"}]
        /\ peer' \in [Clients -> {"open", "fin", "gone"}]
        /\ inbox' \in [Clients -> Seq(Units)] /\ sent' \in [Clients -> Seq(Units)]
    BY <1>2, ClientFrames DEF PoolInv
  <2> QED BY <2>1 DEF PoolInv, DataOK, OneToOne, Bounds, ClientFrame, Given, pool
<1>3. CASE UNCHANGED vars
  BY <1>1, <1>3 DEF vars, pool, sockets, PoolInv, DataOK
<1>4. CASE Select
  BY <1>1, <1>4 DEF Select, sockets, PoolInv, DataOK, Slots
<1>5. CASE AcceptFails
  BY <1>1, <1>5 DEF AcceptFails, Exit, pool, sockets, PoolInv, DataOK
<1>6. CASE CheckDone
  BY <1>1, <1>6 DEF CheckDone, pool, sockets, PoolInv, DataOK
<1>7. CASE CheckNext
  BY <1>1, <1>7 DEF CheckNext, InLoop, pool, sockets, PoolInv, DataOK
<1>8. CASE CheckReady
  <2>1. i \in Slots
    BY <1>8 DEF CheckReady, InLoop, PoolInv, DataOK, Slots
  <2> QED BY <1>1, <1>8, <2>1 DEF CheckReady, sockets, PoolInv, DataOK
<1>9. ASSUME NEW c \in Clients, AddClient(c) PROVE PoolInv'
  BY <1>9, AddClientPool
<1>10. ASSUME NEW c \in Clients, ReadData(c) PROVE PoolInv'
  <2>1. /\ i \in Slots /\ inbox' = [inbox EXCEPT ![c] = <<>>]
        /\ pool' = pool /\ conn' = conn /\ fd' = fd /\ peer' = peer /\ sent' = sent
        /\ \/ pc' = "line" /\ i' = i /\ line' \in Seq(Units)
           \/ pc' = "check" /\ i' = i + 1 /\ line' = <<>>
    BY <1>10, ReadDataEffect DEF PoolInv
  <2>2. inbox' \in [Clients -> Seq(Units)] /\ line' \in Seq(Units)
    <3>1. <<>> \in Seq(Units)
      OBVIOUS
    <3>2. inbox \in [Clients -> Seq(Units)]
      BY DEF PoolInv, DataOK
    <3> HIDE SelectAssumption
    <3> QED BY <2>1, <3>1, <3>2
  <2>3. /\ pc' \in {"line", "check"} /\ i' \in Nat /\ (pc' = "line" => i' \in Slots)
    BY <2>1 DEF PoolInv, DataOK
  <2>4. DataOK'
    BY <2>1, <2>2, <2>3 DEF pool, PoolInv, DataOK
  <2> QED BY <1>1, <2>1, <2>4 DEF pool
<1>11. ASSUME NEW c \in Clients, ReadEof(c) PROVE PoolInv'
  BY <1>1, <1>11 DEF ReadEof, Echo, Reading, pool, sockets, PoolInv, DataOK
<1>12. ASSUME NEW c \in Clients, CloseClient(c) PROVE PoolInv'
  BY <1>12, CloseClientPool
<1>13. ASSUME NEW c \in Clients, PeerGone(c) PROVE PoolInv'
  BY <1>1, <1>13 DEF PeerGone, Exit, pool, sockets, PoolInv, DataOK
<1> QED BY <1>2, <1>3, <1>4, <1>5, <1>6, <1>7, <1>8, <1>9, <1>10, <1>11, <1>12, <1>13
        DEF Next, ServerStep
-----------------------------------------------------------------------------
(* What select found ready, and the loop has not come to. *)

\* Every ready slot from n on is a client that has input.
Waits(n) ==
  \A s \in Slots : s >= n /\ clientfd[s] \in ready_set =>
    \E c \in Open : fd[c] = clientfd[s] /\ HasInput(c)

ReadyInv ==
  /\ ready_set \subseteq Nat
  /\ pc = "accept" => Listen \in ready_set /\ ready_set \subseteq {Listen} \cup Given
  /\ pc \in {"accept", "check"} => Waits(i)
  /\ pc = "line" => Waits(i + 1)

Ahead(n) == {s \in Slots : s >= n /\ clientfd[s] \in ready_set}

CountInv ==
  /\ pc = "accept" => nready = Cardinality(Ahead(i)) + 1
  /\ pc = "check" => nready = Cardinality(Ahead(i))
  /\ pc = "line" => nready = Cardinality(Ahead(i + 1))

IInv == PoolInv /\ ReadyInv /\ ReadyHasData /\ CountInv

LEMMA AheadFinite ==
  ASSUME NEW n
  PROVE  IsFiniteSet(Ahead(n)) /\ Cardinality(Ahead(n)) \in Nat
<1>1. IsFiniteSet(Slots)
  BY SelectAssumption, FS_Interval DEF Slots
<1>2. Ahead(n) \in SUBSET Slots
  BY DEF Ahead
<1>3. IsFiniteSet(Ahead(n))
  BY <1>1, <1>2, FS_Subset
<1> QED BY <1>3, FS_CardinalityType

\* As many slots are ready as descriptors are, the listening one apart.
LEMMA ReadySlots ==
  ASSUME PoolInv, NEW ready, ready \subseteq read_set, IsFiniteSet(ready)
  PROVE  Cardinality({s \in Slots : clientfd[s] \in ready}) = Cardinality(ready \ {Listen})
<1> DEFINE S == {s \in Slots : clientfd[s] \in ready}
           T == ready \ {Listen}
           f == [s \in S |-> clientfd[s]]
<1>1. T \subseteq Given
  BY DEF PoolInv, Bounds
<1>2. \A s \in S : clientfd[s] \in T /\ clientfd[s] # NoFd
  <2>1. NoFd \notin ready /\ Listen \notin ClientFds /\ Listen # NoFd
    BY SelectAssumption DEF PoolInv, Bounds, OneToOne, Given, ClientFds, NoFd
  <2>2. \A s \in Slots : clientfd[s] \in ClientFds \cup {NoFd}
    BY DEF PoolInv, DataOK
  <2> QED BY <2>1, <2>2
<1>3. f \in Injection(S, T)
  <2>1. f \in [S -> T]
    BY <1>2
  <2>2. \A s, t \in S : f[s] = f[t] => s = t
    BY <1>2 DEF PoolInv, OneToOne
  <2> HIDE DEF f, S, T
  <2> QED BY <2>1, <2>2 DEF Injection, IsInjective
<1>4. f \in Surjection(S, T)
  <2>1. \A d \in T : \E s \in S : f[s] = d
    BY <1>1 DEF PoolInv, OneToOne, Given
  <2>2. f \in [S -> T]
    BY <1>2
  <2> HIDE DEF f, S, T
  <2> QED BY <2>1, <2>2 DEF Surjection
<1>5. IsFiniteSet(T)
  BY FS_RemoveElement
<1> HIDE DEF f, S, T
<1>6. Cardinality(S) = Cardinality(T)
  BY <1>3, <1>4, <1>5, FS_Injection
<1> QED BY <1>6 DEF S, T

LEMMA InitIInv == Init => IInv
<1>1. Init => ReadyInv /\ ReadyHasData /\ CountInv
  BY DEF Init, ReadyInv, ReadyHasData, CountInv
<1> QED BY <1>1, InitPool DEF IInv

\* A step that leaves the pool and the place in it keeps what is ready.
LEMMA StepKeepsReady ==
  ASSUME IInv,
         UNCHANGED <<pc, i, ready_set, nready, clientfd, fd, line>>, Open' = Open,
         \A c \in Open : HasInput(c) => HasInput(c)'
  PROVE  ReadyInv' /\ ReadyHasData' /\ CountInv'
<1>1. \A n : (Waits(n) => Waits(n)') /\ Ahead(n)' = Ahead(n)
  BY DEF Waits, Ahead
<1>2. Given' = Given
  BY DEF Given
<1> QED BY <1>1, <1>2 DEF IInv, ReadyInv, ReadyHasData, CountInv, HasInput

LEMMA SelectReady ==
  ASSUME IInv, Select
  PROVE  ReadyInv' /\ ReadyHasData' /\ CountInv'
<1> DEFINE ready == Readable \cap read_set \cap 0 .. maxfd
<1>1. /\ ready_set' = ready /\ nready' = Cardinality(ready) /\ i' = 0
      /\ pc' = IF Listen \in ready THEN "accept" ELSE "check"
      /\ UNCHANGED <<clientfd, line, conn, fd, peer, inbox>>
  BY DEF Select, sockets
<1>2. /\ ready \subseteq read_set /\ ready \subseteq Nat
      /\ \A f \in ready : f = Listen \/ \E c \in Open : fd[c] = f /\ HasInput(c)
  BY DEF Readable, HasInput
<1>3. IsFiniteSet(ready)
  <2>1. maxfd \in Int
    BY DEF IInv, PoolInv, DataOK
  <2>2. IsFiniteSet(0 .. maxfd)
    BY <2>1, FS_Interval
  <2>3. ready \in SUBSET (0 .. maxfd)
    OBVIOUS
  <2> HIDE DEF ready
  <2> QED BY <2>2, <2>3, FS_Subset
<1> HIDE DEF ready
<1>4. \A s \in Slots : clientfd[s] # Listen
  <2>1. Listen \notin ClientFds /\ Listen # NoFd
    BY SelectAssumption DEF ClientFds, NoFd
  <2>2. \A s \in Slots : clientfd[s] \in ClientFds \cup {NoFd}
    BY DEF IInv, PoolInv, DataOK
  <2> QED BY <2>1, <2>2
<1>5. Waits(i)'
  <2>1. Open' = Open /\ \A c \in Open : HasInput(c)' = HasInput(c)
    BY <1>1 DEF Open, HasInput
  <2> SUFFICES ASSUME NEW s \in Slots, clientfd[s] \in ready
               PROVE  \E c \in Open : fd[c] = clientfd[s] /\ HasInput(c)
    BY <1>1, <2>1 DEF Waits
  <2> QED BY <1>2, <1>4
<1>6. ready_set' \subseteq {Listen} \cup Given'
  BY <1>1, <1>2 DEF IInv, PoolInv, Bounds, Given, Open
<1>7. ReadyInv'
  BY <1>1, <1>2, <1>5, <1>6 DEF ReadyInv
<1>8. Ahead(i)' = {s \in Slots : clientfd[s] \in ready}
  <2>1. \A s \in Slots : s >= 0
    BY DEF Slots
  <2> QED BY <1>1, <2>1 DEF Ahead
<1>9. Cardinality(Ahead(i)') = Cardinality(ready) - (IF Listen \in ready THEN 1 ELSE 0)
  <2>1. /\ Cardinality(ready \ {Listen}) =
              IF Listen \in ready THEN Cardinality(ready) - 1 ELSE Cardinality(ready)
        /\ Cardinality(ready) \in Nat
    BY <1>3, FS_RemoveElement, FS_CardinalityType
  <2>2. Cardinality(Ahead(i)') = Cardinality(ready \ {Listen})
    BY <1>2, <1>3, <1>8, ReadySlots DEF IInv
  <2> QED BY <2>1, <2>2
<1>10. CountInv'
  <2>1. Cardinality(ready) \in Nat
    BY <1>3, FS_CardinalityType
  <2> QED BY <1>1, <1>9, <2>1 DEF CountInv
<1> QED BY <1>1, <1>7, <1>10 DEF ReadyHasData

\* The new client was not in ready_set, so it does not count as ready.
LEMMA AddClientReady ==
  ASSUME IInv, NEW c \in Clients, AddClient(c)
  PROVE  ReadyInv' /\ ReadyHasData' /\ CountInv'
<1>1. /\ FreshFd \in ClientFds /\ FreshFd \notin Given
      /\ FreshSlot \in Slots /\ clientfd[FreshSlot] = NoFd
  BY Fresh DEF AddClient, IInv
<1>2. /\ pc = "accept" /\ pc' = "check" /\ i' = i /\ ready_set' = ready_set /\ nready' = nready - 1
      /\ conn' = [conn EXCEPT ![c] = "open"] /\ fd' = [fd EXCEPT ![c] = FreshFd]
      /\ clientfd' = [clientfd EXCEPT ![FreshSlot] = FreshFd]
      /\ conn[c] = "backlog" /\ peer' = peer /\ inbox' = inbox
  BY DEF AddClient, FreshFd, FreshSlot, Backlog
<1>3. FreshFd \notin ready_set /\ NoFd \notin ready_set
  <2>1. FreshFd # Listen
    BY <1>1, SelectAssumption DEF ClientFds
  <2>2. NoFd \notin Nat
    BY DEF NoFd
  <2> QED BY <1>1, <1>2, <2>1, <2>2 DEF IInv, ReadyInv
<1>4. \A s \in Slots : /\ clientfd'[s] \in ready_set <=> clientfd[s] \in ready_set
                       /\ clientfd'[s] \in ready_set => clientfd'[s] = clientfd[s]
  BY <1>1, <1>2, <1>3 DEF IInv, PoolInv, DataOK
<1>5. \A d \in Open : d \in Open' /\ fd'[d] = fd[d] /\ (HasInput(d) => HasInput(d)')
  BY <1>2 DEF Open, HasInput, IInv, PoolInv, DataOK
<1>6. Waits(i)'
  BY <1>2, <1>4, <1>5 DEF Waits, IInv, ReadyInv
<1>7. Ahead(i)' = Ahead(i)
  BY <1>2, <1>4 DEF Ahead
<1>8. CountInv'
  <2>1. Cardinality(Ahead(i)) \in Nat
    BY AheadFinite
  <2> QED BY <1>2, <1>7, <2>1 DEF CountInv, IInv
<1> QED BY <1>2, <1>6, <1>8 DEF ReadyInv, ReadyHasData, IInv

\* The client of the slot that the loop has come to has input.
LEMMA CheckReadyReady ==
  ASSUME IInv, CheckReady
  PROVE  ReadyInv' /\ ReadyHasData' /\ CountInv'
<1>1. /\ pc = "check" /\ pc' = "line" /\ i' = i /\ nready' = nready - 1
      /\ clientfd[i] \in ready_set /\ i <= maxi
      /\ UNCHANGED <<ready_set, clientfd, conn, fd, peer, inbox>>
  BY DEF CheckReady, InLoop, IsReady, sockets
<1>2. i \in Slots
  <2>1. i \in Nat /\ maxi \in {-1} \cup Slots /\ i <= maxi
    BY <1>1 DEF IInv, PoolInv, DataOK
  <2> QED BY <2>1, SelectAssumption DEF Slots
<1>3. Waits(i)
  BY <1>1 DEF IInv, ReadyInv
<1>4. \E c \in Open : fd[c] = clientfd[i] /\ HasInput(c)
  BY <1>1, <1>2, <1>3 DEF Waits, Slots
<1>5. \A s \in Slots : s >= i + 1 <=> s >= i /\ s # i
  BY <1>2 DEF Slots
<1>6. Waits(i + 1)'
  BY <1>1, <1>3, <1>5 DEF Waits, Open, HasInput
<1>7. Ahead(i + 1)' = Ahead(i) \ {i}
  BY <1>1, <1>5 DEF Ahead
<1>8. i \in Ahead(i)
  BY <1>1, <1>2 DEF Ahead, Slots
<1>9. Cardinality(Ahead(i) \ {i}) = Cardinality(Ahead(i)) - 1
  BY <1>8, AheadFinite, FS_RemoveElement
<1> QED BY <1>1, <1>4, <1>6, <1>7, <1>9
        DEF IInv, ReadyInv, ReadyHasData, CountInv, HasInput, Open

LEMMA CheckNextReady ==
  ASSUME IInv, CheckNext
  PROVE  ReadyInv' /\ ReadyHasData' /\ CountInv'
<1>1. /\ pc = "check" /\ pc' = "check" /\ i' = i + 1 /\ clientfd[i] \notin ready_set
      /\ UNCHANGED <<ready_set, nready, clientfd, conn, fd, peer, inbox>>
  BY DEF CheckNext, InLoop, IsReady, pool, sockets
<1>2. i \in Nat
  BY DEF IInv, PoolInv, DataOK
<1>3. \A s \in Slots : s >= i + 1 <=> s >= i /\ s # i
  BY <1>2 DEF Slots
<1>4. Waits(i)'
  BY <1>1, <1>3 DEF IInv, ReadyInv, Waits, Open, HasInput
<1>5. Ahead(i)' = Ahead(i)
  BY <1>1, <1>3 DEF Ahead
<1> QED BY <1>1, <1>4, <1>5 DEF IInv, ReadyInv, ReadyHasData, CountInv

\* The reader takes input of one client only: the one of its slot.
LEMMA LineReady ==
  ASSUME IInv, NEW c \in Clients, pc = "line", c \in Open, fd[c] = clientfd[i],
         UNCHANGED <<ready_set, nready, clientfd, fd, conn, peer>>,
         \A d \in Clients \ {c} : inbox'[d] = inbox[d],
         \/ pc' = "line" /\ i' = i /\ line' # <<>>
         \/ pc' = "check" /\ i' = i + 1
  PROVE  ReadyInv' /\ ReadyHasData' /\ CountInv'
<1>1. i \in Slots /\ Waits(i + 1)
  BY DEF IInv, PoolInv, DataOK, ReadyInv
<1>2. \A s \in Slots : s >= i + 1 => s # i
  BY <1>1 DEF Slots
<1>3. NoFd \notin ready_set
  <2>1. NoFd \notin Nat
    BY DEF NoFd
  <2> QED BY <2>1 DEF IInv, ReadyInv
<1>4. \A s \in Slots : s # i /\ clientfd[s] \in ready_set => clientfd[s] # clientfd[i]
  BY <1>1, <1>3 DEF IInv, PoolInv, OneToOne
<1>5. /\ pc' = "line" => Waits(i + 1)'
      /\ pc' = "check" => Waits(i)'
  BY <1>1, <1>2, <1>4 DEF Waits, Open, HasInput
<1>6. /\ pc' = "line" => Ahead(i + 1)' = Ahead(i + 1)
      /\ pc' = "check" => Ahead(i)' = Ahead(i + 1)
  BY DEF Ahead
<1> QED BY <1>5, <1>6 DEF IInv, ReadyInv, ReadyHasData, CountInv

LEMMA CloseClientReady ==
  ASSUME IInv, NEW c \in Clients, CloseClient(c)
  PROVE  ReadyInv' /\ ReadyHasData' /\ CountInv'
<1>1. /\ pc = "line" /\ c \in Open /\ fd[c] = clientfd[i] /\ i \in Slots
      /\ conn' = [conn EXCEPT ![c] = "closed"] /\ fd' = [fd EXCEPT ![c] = NoFd]
      /\ clientfd' = [clientfd EXCEPT ![i] = NoFd]
      /\ pc' = "check" /\ i' = i + 1 /\ ready_set' = ready_set /\ nready' = nready
      /\ peer' = peer /\ inbox' = inbox
  BY DEF CloseClient, Closing, Reading, IInv, PoolInv, DataOK
<1>2. NoFd \notin ready_set
  <2>1. NoFd \notin Nat
    BY DEF NoFd
  <2> QED BY <2>1 DEF IInv, ReadyInv
<1>3. \A s \in Slots : s >= i + 1 => clientfd'[s] = clientfd[s]
                       /\ (clientfd[s] \in ready_set => clientfd[s] # fd[c])
  <2>1. \A s \in Slots : s >= i + 1 => s # i
    BY <1>1 DEF Slots
  <2> QED BY <1>1, <1>2, <2>1 DEF IInv, PoolInv, OneToOne, DataOK
<1>4. \A d \in Open : fd[d] # fd[c] => d \in Open' /\ fd'[d] = fd[d] /\ (HasInput(d) => HasInput(d)')
  BY <1>1 DEF Open, HasInput, IInv, PoolInv, DataOK
<1>5. Waits(i)'
  BY <1>1, <1>3, <1>4 DEF Waits, IInv, ReadyInv
<1>6. Ahead(i)' = Ahead(i + 1)
  BY <1>1, <1>3 DEF Ahead
<1> QED BY <1>1, <1>5, <1>6 DEF IInv, ReadyInv, ReadyHasData, CountInv

LEMMA NextReady ==
  ASSUME IInv, [Next]_vars
  PROVE  ReadyInv' /\ ReadyHasData' /\ CountInv'
<1> DEFINE Goal == ReadyInv' /\ ReadyHasData' /\ CountInv'
<1>1. ASSUME NEW c \in Clients, ClientStep(c) PROVE Goal
  <2>1. ClientFrame(c)
    BY <1>1, ClientFrames DEF IInv, PoolInv
  <2> QED BY <2>1, StepKeepsReady DEF ClientFrame, pool
<1>2. CASE UNCHANGED vars
  BY <1>2, StepKeepsReady DEF vars, pool, sockets, Open, HasInput
<1>3. CASE pc' \in {"exit", "select"} /\ ready_set' = ready_set
  BY <1>3 DEF IInv, ReadyInv, ReadyHasData, CountInv
<1>4. CASE AcceptFails \/ CheckDone \/ \E c \in Clients : PeerGone(c)
  BY <1>3, <1>4 DEF AcceptFails, CheckDone, PeerGone, Exit, pool
<1>5. ASSUME NEW c \in Clients, ReadData(c) PROVE Goal
  <2>1. /\ pc = "line" /\ c \in Open /\ fd[c] = clientfd[i]
        /\ UNCHANGED <<ready_set, nready, clientfd, fd, conn, peer>>
        /\ inbox' = [inbox EXCEPT ![c] = <<>>]
        /\ \/ pc' = "line" /\ i' = i /\ line' # <<>>
           \/ pc' = "check" /\ i' = i + 1
    BY <1>5, ReadDataEffect DEF IInv, PoolInv, pool
  <2>2. \A d \in Clients \ {c} : inbox'[d] = inbox[d]
    BY <2>1 DEF IInv, PoolInv, DataOK
  <2> QED BY <2>1, <2>2, LineReady
<1>6. ASSUME NEW c \in Clients, ReadEof(c) PROVE Goal
  <2>1. /\ pc = "line" /\ c \in Open /\ fd[c] = clientfd[i] /\ pc' = "check" /\ i' = i + 1
        /\ UNCHANGED <<ready_set, nready, clientfd, fd, conn, peer, inbox>>
    BY <1>6 DEF ReadEof, Reading, Echo, pool, sockets
  <2> QED BY <2>1, LineReady
<1> QED BY <1>1, <1>2, <1>4, <1>5, <1>6, SelectReady, AddClientReady, CheckReadyReady,
           CheckNextReady, CloseClientReady DEF Next, ServerStep

-----------------------------------------------------------------------------
(* What is echoed. *)

LEMMA PlacesFinite ==
  ASSUME NEW len \in [Clients -> Nat]
  PROVE  IsFiniteSet(Places(len)) /\ Cardinality(Places(len)) \in Nat
<1> DEFINE Of(c) == {c} \X (1 .. len[c])
           All == {Of(c) : c \in Clients}
           f == [c \in Clients |-> Of(c)]
<1>1. ASSUME NEW c \in Clients PROVE IsFiniteSet(Of(c))
  <2>1. IsFiniteSet({c})
    BY FS_Singleton
  <2>2. IsFiniteSet(1 .. len[c])
    BY FS_Interval
  <2> QED BY <2>1, <2>2, FS_Product
<1>2. IsFiniteSet(All)
  <2>1. f \in Surjection(Clients, All)
    <3> HIDE DEF Of
    <3> QED BY DEF Surjection
  <2> HIDE DEF f, All
  <2> QED BY <2>1, SelectAssumption, FS_Surjection
<1>3. \A T \in All : IsFiniteSet(T)
  <2> HIDE DEF Of
  <2> QED BY <1>1
<1>4. IsFiniteSet(UNION All)
  <2> HIDE DEF All
  <2> QED BY <1>2, <1>3, FS_UNION
<1>5. IsFiniteSet(Places(len))
  BY <1>4 DEF Places
<1> QED BY <1>5, FS_CardinalityType

\* The total grows by what one client is echoed.
LEMMA PlacesGrow ==
  ASSUME NEW len \in [Clients -> Nat], NEW c \in Clients, NEW k \in Nat
  PROVE  Cardinality(Places([len EXCEPT ![c] = @ + k])) = Cardinality(Places(len)) + k
<1> DEFINE after == [len EXCEPT ![c] = @ + k]
           more == len[c] + 1 .. len[c] + k
           New == {c} \X more
<1>1. /\ after[c] = len[c] + k /\ after \in [Clients -> Nat]
      /\ \A d \in Clients \ {c} : after[d] = len[d]
  OBVIOUS
<1>2. 1 .. len[c] + k = (1 .. len[c]) \cup more /\ (1 .. len[c]) \cap more = {}
  OBVIOUS
<1>3. IsFiniteSet(New) /\ Cardinality(New) = k
  <2>1. len[c] \in Nat
    OBVIOUS
  <2>2. IsFiniteSet(more) /\ Cardinality(more) = k
    <3>1. \A l \in Nat : IsFiniteSet(l + 1 .. l + k) /\ Cardinality(l + 1 .. l + k) = k
      <4> TAKE l \in Nat
      <4> DEFINE a == l + 1
                 b == l + k
      <4>1. a \in Int /\ b \in Int /\ k = IF a > b THEN 0 ELSE b - a + 1
        OBVIOUS
      <4> HIDE DEF a, b
      <4>2. IsFiniteSet(a .. b) /\ Cardinality(a .. b) = IF a > b THEN 0 ELSE b - a + 1
        BY <4>1, FS_Interval
      <4> QED BY <4>1, <4>2 DEF a, b
    <3> QED BY <2>1, <3>1
  <2>3. IsFiniteSet({c}) /\ Cardinality({c}) = 1
    BY FS_Singleton
  <2> HIDE DEF more
  <2>4. IsFiniteSet({c} \X more) /\ Cardinality({c} \X more) = Cardinality({c}) * Cardinality(more)
    BY <2>2, <2>3, FS_Product, Zenon
  <2>5. 1 * k = k
    OBVIOUS
  <2>6. Cardinality({c}) * Cardinality(more) = 1 * k
    BY <2>2, <2>3, Zenon
  <2> QED BY <2>4, <2>5, <2>6, Zenon DEF New
<1> HIDE DEF after, more
<1>4. Places(after) = Places(len) \cup New
  <2>1. \A p : p \in Places(after) <=> \E d \in Clients : p \in {d} \X (1 .. after[d])
    BY DEF Places
  <2>2. \A p : p \in Places(len) <=> \E d \in Clients : p \in {d} \X (1 .. len[d])
    BY DEF Places
  <2>3. {c} \X (1 .. after[c]) = ({c} \X (1 .. len[c])) \cup New
    BY <1>1, <1>2
  <2> HIDE DEF New
  <2>4. ASSUME NEW p \in Places(after) PROVE p \in Places(len) \cup New
    BY <1>1, <2>1, <2>2, <2>3, <2>4
  <2>5. ASSUME NEW p \in Places(len) \cup New PROVE p \in Places(after)
    BY <1>1, <2>1, <2>2, <2>3, <2>5
  <2> QED BY <2>4, <2>5
<1>5. Places(len) \cap New = {}
  BY <1>2 DEF Places
<1> HIDE DEF New
<1>6. Cardinality(Places(len) \cup New) = Cardinality(Places(len)) + k - Cardinality({})
  BY <1>3, <1>5, PlacesFinite, FS_Union
<1>7. Cardinality({}) = 0 /\ Cardinality(Places(len)) \in Nat
  BY FS_EmptySet, PlacesFinite
<1>8. Cardinality(Places(after)) = Cardinality(Places(len)) + k
  BY <1>4, <1>6, <1>7
<1> QED BY <1>8 DEF after

\* What a client has sent and not been echoed: what the server has read of its
\* line, if it is this client's line that the server is in, and what is unread.
InHand(c) == IF c \in Open /\ fd[c] = clientfd[i] THEN line ELSE <<>>
Text(c) == InHand(c) \o inbox[c]

Flow(c) ==
  /\ sent[c] = got[c] \o Text(c) /\ WithinLine(Text(c))
  /\ peer[c] = "open" /\ InLine(c) => Text(c) # <<>>

EchoInv ==
  /\ got \in [Clients -> Seq(Units)] /\ byte_cnt \in Nat
  /\ line # <<>> => pc \in {"line", "exit"}
  /\ byte_cnt = Cardinality(Places([c \in Clients |-> Len(got[c])]))
  /\ \A c \in Clients \ Pipeliners : Flow(c)

LEMMA InitEcho == Init => EchoInv
<1> SUFFICES ASSUME Init PROVE EchoInv
  OBVIOUS
<1>1. /\ line = <<>> /\ byte_cnt = 0 /\ got = [c \in Clients |-> <<>>]
      /\ \A c \in Clients : sent[c] = <<>> /\ inbox[c] = <<>> /\ got[c] = <<>>
  BY DEF Init
<1>2. Places([c \in Clients |-> Len(got[c])]) = {}
  <2>1. \A c \in Clients : Len(got[c]) = 0
    BY <1>1
  <2> QED BY <2>1 DEF Places
<1>3. Cardinality(Places([c \in Clients |-> Len(got[c])])) = 0
  BY <1>2, FS_EmptySet
<1>4. ASSUME NEW c \in Clients PROVE Flow(c)
  <2>1. InHand(c) = <<>>
    BY <1>1 DEF InHand
  <2>2. Text(c) = <<>>
    BY <1>1, <2>1 DEF Text
  <2> QED BY <1>1, <2>2 DEF Flow, WithinLine, InLine
<1>5. got \in [Clients -> Seq(Units)]
  BY <1>1
<1> QED BY <1>1, <1>3, <1>4, <1>5 DEF EchoInv

LEMMA FlowTypes ==
  ASSUME DataOK, EchoInv, NEW c \in Clients
  PROVE  /\ InHand(c) \in Seq(Units) /\ inbox[c] \in Seq(Units) /\ Text(c) \in Seq(Units)
         /\ got[c] \in Seq(Units) /\ sent[c] \in Seq(Units)
<1>1. InHand(c) \in Seq(Units) /\ inbox[c] \in Seq(Units)
  BY DEF DataOK, InHand
<1> QED BY <1>1 DEF Text, DataOK, EchoInv

\* Outside of a line nobody's text is in hand.
LEMMA NothingInHand ==
  ASSUME NEW c \in Clients, line = <<>>
  PROVE  InHand(c) = <<>>
BY DEF InHand

\* While the server is in the line of one client, it is in nobody else's.
LEMMA OtherInHand ==
  ASSUME PoolInv, NEW c \in Open, fd[c] = clientfd[i], NEW d \in Clients \ {c}
  PROVE  InHand(d) = <<>>
BY DEF InHand, PoolInv, OneToOne, Open

\* A step that moves no unit.
LEMMA FlowStays ==
  ASSUME EchoInv, NEW c \in Clients \ Pipeliners,
         sent'[c] = sent[c], got'[c] = got[c], inbox'[c] = inbox[c],
         InHand(c)' = InHand(c), peer'[c] = "open" => peer[c] = "open"
  PROVE  Flow(c)'
<1>1. Text(c)' = Text(c)
  BY DEF Text
<1> QED BY <1>1 DEF EchoInv, Flow, InLine

LEMMA CountStays ==
  ASSUME EchoInv, byte_cnt' = byte_cnt, got' = got
  PROVE  /\ got' \in [Clients -> Seq(Units)] /\ byte_cnt' \in Nat
         /\ byte_cnt' = Cardinality(Places([c \in Clients |-> Len(got'[c])]))
BY DEF EchoInv

LEMMA ConcatParts ==
  ASSUME NEW s \in Seq(Units), NEW t \in Seq(Units)
  PROVE  /\ Len(s \o t) = Len(s) + Len(t)
         /\ \A k \in 1 .. Len(s) + Len(t) : (s \o t)[k] = IF k <= Len(s) THEN s[k] ELSE t[k - Len(s)]
OBVIOUS

LEMMA Regroup ==
  \A s, t, u \in Seq(Units) : (s \o t) \o u = s \o (t \o u)
<1> TAKE s, t, u \in Seq(Units)
<1> QED BY ConcatAssociative

LEMMA LastOfConcat ==
  ASSUME NEW s \in Seq(Units), NEW t \in Seq(Units), t # <<>>
  PROVE  Len(t) \in Nat \ {0} /\ Last(s \o t) = t[Len(t)]
<1>1. Len(s) \in Nat /\ Len(t) \in Nat \ {0}
  OBVIOUS
<1> QED BY <1>1, ConcatParts DEF Last

LEMMA LineGrows ==
  ASSUME NEW t \in Seq(Units), NEW data \in Seq(Units),
         Len(t) = 1, t[1][2] = 1, Len(data) = 1, data[1][2] = 2
  PROVE  WithinLine(t \o data)
<1>2. PICK r : r = t \o data
  OBVIOUS
<1>1. Len(r) = 2 /\ r[1] = t[1] /\ r[2] = data[1]
  <2>1. Len(r) = Len(t) + Len(data)
    BY <1>2, ConcatParts, Zenon
  <2>2. \A k \in 1 .. Len(t) + Len(data) : r[k] = IF k <= Len(t) THEN t[k] ELSE data[k - Len(t)]
    BY <1>2, ConcatParts, Zenon
  <2>3. \A k \in 1 .. 2 : r[k] = IF k <= 1 THEN t[k] ELSE data[k - 1]
    BY <2>2
  <2> QED BY <2>1, <2>3
<1>3. \A k \in 1 .. 2 : r[k][2] = k
  <2>1. r[1][2] = 1 /\ r[2][2] = 2
    BY <1>1
  <2>2. \A k \in 1 .. 2 : k = 1 \/ k = 2
    OBVIOUS
  <2> QED BY <2>1, <2>2
<1>4. Len(r) = 2
  BY <1>1
<1>5. WithinLine(r)
  BY <1>3, <1>4 DEF WithinLine
<1> QED BY <1>2, <1>5

\* What a client sends joins its text, which stays within one line: it begins a
\* line when it has read the echo of the last.
LEMMA SendEcho ==
  ASSUME PoolInv, EchoInv, NEW c \in Clients, SendLine(c) \/ SendRest(c)
  PROVE  EchoInv'
<1> USE DEF PoolInv
<1>1. PICK data \in Seq(Units) :
        /\ data # <<>> /\ Send(c, data)
        /\ \/ WithinLine(data) /\ (c \in Pipeliners \/ got[c] = sent[c])
           \/ InLine(c) /\ Len(data) = 1 /\ data[1][2] = 2
  BY Sends
<1>0. data \in Seq(Units) /\ data # <<>>
  BY <1>1
<1>2. /\ sent' = [sent EXCEPT ![c] = sent[c] \o data]
      /\ inbox' = [inbox EXCEPT ![c] = inbox[c] \o data]
      /\ UNCHANGED <<pc, i, clientfd, line, byte_cnt, conn, fd, peer, got>>
      /\ peer[c] = "open"
  BY <1>1 DEF Send, pool
<1>3. \A d \in Clients : InHand(d)' = InHand(d)
  BY <1>2 DEF InHand, Open
<1>4. ASSUME NEW d \in Clients \ Pipeliners PROVE Flow(d)'
  <2>1. CASE d # c
    <3>1. sent'[d] = sent[d] /\ inbox'[d] = inbox[d]
      BY <1>2, <2>1 DEF DataOK
    <3> QED BY <1>2, <1>3, <3>1, FlowStays
  <2>2. CASE d = c
    <3> DEFINE t == Text(c)
    <3>1. /\ InHand(c) \in Seq(Units) /\ inbox[c] \in Seq(Units) /\ t \in Seq(Units)
          /\ got[c] \in Seq(Units) /\ sent[c] \in Seq(Units)
      BY FlowTypes
    <3>2. sent'[c] = sent[c] \o data /\ inbox'[c] = inbox[c] \o data /\ got'[c] = got[c]
      BY <1>2 DEF DataOK
    <3>3. Text(c)' = t \o data
      <4>1. (InHand(c) \o inbox[c]) \o data = InHand(c) \o (inbox[c] \o data)
        <5> DEFINE h == InHand(c)
                   w == inbox[c]
        <5>1. h \in Seq(Units) /\ w \in Seq(Units)
          BY <3>1
        <5> HIDE DEF h, w, t
        <5>2. (h \o w) \o data = h \o (w \o data)
          BY <1>0, <5>1, Regroup
        <5> QED BY <5>2 DEF h, w
      <4> QED BY <1>3, <3>2, <4>1 DEF Text
    <3>4. sent[c] = got[c] \o t /\ WithinLine(t) /\ (InLine(c) => t # <<>>)
      BY <1>2, <2>2 DEF EchoInv, Flow
    <3> HIDE DEF t
    <3>5. sent'[c] = got'[c] \o (t \o data)
      <4>1. (got[c] \o t) \o data = got[c] \o (t \o data)
        <5> DEFINE g == got[c]
        <5>1. g \in Seq(Units) /\ t \in Seq(Units)
          BY <3>1
        <5> HIDE DEF g
        <5>2. (g \o t) \o data = g \o (t \o data)
          BY <1>0, <5>1, Regroup
        <5> QED BY <5>2 DEF g
      <4> QED BY <3>2, <3>4, <4>1
    <3>6. WithinLine(t \o data)
      <4>1. CASE WithinLine(data) /\ got[c] = sent[c]
        <5>1. t = <<>>
          BY <3>1, <3>4, <4>1, ConcatEqualIffEmpty
        <5>2. t \o data = data
          BY <1>1, <5>1, ConcatEmptySeq
        <5> QED BY <4>1, <5>2
      <4>2. CASE InLine(c) /\ Len(data) = 1 /\ data[1][2] = 2
        <5>1. t # <<>> /\ Last(sent[c])[2] = 1
          BY <3>4, <4>2 DEF InLine
        <5>2. Len(t) \in Nat \ {0} /\ Last(sent[c]) = t[Len(t)]
          BY <3>1, <3>4, <5>1, LastOfConcat
        <5>3. Len(t) = 1 /\ t[1][2] = 1
          <6>1. t[Len(t)][2] = Len(t)
            BY <3>4, <5>2 DEF WithinLine
          <6> QED BY <5>1, <5>2, <6>1
        <5> QED BY <1>0, <3>1, <4>2, <5>3, LineGrows
      <4> QED BY <1>1, <2>2, <4>1, <4>2
    <3>7. t \o data # <<>>
      BY <1>1, <3>1
    <3> QED BY <2>2, <3>3, <3>5, <3>6, <3>7 DEF Flow
  <2> QED BY <2>1, <2>2
<1> QED BY <1>2, <1>4, CountStays DEF EchoInv

\* An echo: to this client what is in hand and, of its text, nothing is left.
LEMMA EchoEcho ==
  ASSUME PoolInv, EchoInv, NEW c \in Open, pc = "line", fd[c] = clientfd[i],
         NEW text \in Seq(Units), Echo(c, text), line' = <<>>,
         c \notin Pipeliners => text = Text(c) /\ inbox'[c] = <<>> /\ ~(peer[c] = "open" /\ InLine(c)),
         \A d \in Clients \ {c} : inbox'[d] = inbox[d],
         UNCHANGED <<sent, peer>>
  PROVE  EchoInv'
<1> USE DEF PoolInv
<1>1. c \in Clients
  BY DEF Open
<1>2. byte_cnt' = byte_cnt + Len(text) /\ got' = [got EXCEPT ![c] = got[c] \o text]
  BY DEF Echo
<1>3. /\ got'[c] = got[c] \o text /\ \A d \in Clients \ {c} : got'[d] = got[d]
      /\ got' \in [Clients -> Seq(Units)]
  <2>1. got[c] \o text \in Seq(Units)
    BY <1>1 DEF EchoInv
  <2> QED BY <1>1, <1>2, <2>1 DEF EchoInv
<1>4. ASSUME NEW d \in Clients \ Pipeliners PROVE Flow(d)'
  <2>1. InHand(d)' = <<>>
    BY DEF InHand
  <2>2. CASE d # c
    <3>1. InHand(d) = <<>>
      BY <2>2, OtherInHand
    <3> QED BY <1>3, <2>1, <2>2, <3>1, FlowStays
  <2>3. CASE d = c
    <3>1. Text(c)' = <<>>
      BY <2>1, <2>3 DEF Text
    <3>2. sent[c] = got[c] \o Text(c) /\ text = Text(c) /\ (peer[c] = "open" /\ InLine(c) => Text(c) # <<>>)
      BY <2>3 DEF EchoInv, Flow
    <3>3. Text(c)' = <<>> /\ sent'[c] = got'[c]
      BY <1>3, <3>1, <3>2
    <3>4. got'[c] = got'[c] \o <<>>
      BY <1>1, <1>3, ConcatEmptySeq
    <3>5. peer'[c] = "open" /\ InLine(c)' => FALSE
      BY <2>3 DEF InLine
    <3> QED BY <2>3, <3>3, <3>4, <3>5 DEF Flow, WithinLine
  <2> QED BY <2>2, <2>3
<1>5. byte_cnt' \in Nat /\ byte_cnt' = Cardinality(Places([d \in Clients |-> Len(got'[d])]))
  <2> DEFINE len == [d \in Clients |-> Len(got[d])]
             more == Len(text)
  <2>1. len \in [Clients -> Nat] /\ more \in Nat
    BY DEF EchoInv
  <2>2. byte_cnt = Cardinality(Places(len)) /\ byte_cnt \in Nat
    BY DEF EchoInv
  <2>3. [d \in Clients |-> Len(got'[d])] = [len EXCEPT ![c] = @ + more]
    <3>1. Len(got'[c]) = Len(got[c]) + more
      <4>1. got[c] \in Seq(Units) /\ text \in Seq(Units)
        BY <1>1 DEF EchoInv
      <4>2. Len(got[c] \o text) = Len(got[c]) + Len(text)
        BY <4>1, ConcatParts
      <4> QED BY <1>3, <4>2
    <3> HIDE DEF more
    <3> QED BY <1>1, <1>3, <3>1
  <2> HIDE DEF len
  <2>4. Cardinality(Places([len EXCEPT ![c] = @ + more])) = Cardinality(Places(len)) + more
    <3> HIDE DEF more
    <3> QED BY <1>1, <2>1, PlacesGrow
  <2> QED BY <1>2, <2>1, <2>2, <2>3, <2>4
<1> QED BY <1>3, <1>4, <1>5 DEF EchoInv

LEMMA MinIs ==
  ASSUME NEW S \in SUBSET Nat, S # {}
  PROVE  Min(S) \in S
<1>1. \E x \in S : \A y \in S : x <= y
  BY LeastIs
<1> QED BY <1>1 DEF Min

\* A newline that is found is one.
LEMMA NewlineIs ==
  ASSUME NEW all \in Seq(Units), NewlineAt(all) # 0
  PROVE  NewlineAt(all) \in 1 .. Len(all) /\ all[NewlineAt(all)][2] = 2
<1> DEFINE I == {k \in 1 .. Len(all) : all[k][2] = 2}
<1>1. NewlineAt(all) = IF I # {} THEN Min(I) ELSE 0
  BY DEF NewlineAt, SelectInSeq
<1>2. I \in SUBSET Nat
  OBVIOUS
<1> HIDE DEF I
<1>3. NewlineAt(all) \in I
  BY <1>1, <1>2, MinIs
<1> QED BY <1>3 DEF I

\* A client that waits for the echo has one line on its way, so what is read ends
\* with its newline, and nothing is dropped with the copy of the reader.
LEMMA ReadDataEndsLine ==
  ASSUME NEW s \in Seq(Units), NEW all \in Seq(Units), WithinLine(s \o all),
         NEW n \in 1 .. Len(all), all[n][2] = 2
  PROVE  SubSeq(all, 1, n) = all /\ s \o all # <<>> /\ (s \o all)[Len(s \o all)][2] = 2
<1> PICK t : t = s \o all
  OBVIOUS
<1>1. /\ Len(s) \in Nat /\ Len(all) \in Nat /\ Len(t) = Len(s) + Len(all)
      /\ \A k \in 1 .. Len(s) + Len(all) : t[k] = IF k <= Len(s) THEN s[k] ELSE all[k - Len(s)]
  BY ConcatParts
<1>2. /\ Len(s) + n \in 1 .. Len(t) /\ ~(Len(s) + n <= Len(s)) /\ Len(s) + n - Len(s) = n
  BY <1>1
<1>3. t[Len(s) + n] = all[n]
  BY <1>1, <1>2
<1>4. Len(s) + n = 2 /\ Len(t) <= 2
  BY <1>2, <1>3 DEF WithinLine
<1>5. n = Len(all) /\ Len(t) = 2
  BY <1>1, <1>4
<1>6. SubSeq(all, 1, Len(all)) = all
  OBVIOUS
<1>7. t # <<>> /\ t[Len(t)][2] = 2
  BY <1>3, <1>4, <1>5
<1> QED BY <1>5, <1>6, <1>7

LEMMA ReadDataEcho ==
  ASSUME PoolInv, EchoInv, NEW c \in Clients, ReadData(c)
  PROVE  EchoInv'
<1> USE DEF PoolInv
<1> DEFINE all == inbox[c]
           nl == NewlineAt(all)
           text == line \o SubSeq(all, 1, nl)
<1>1. /\ pc = "line" /\ c \in Open /\ fd[c] = clientfd[i]
      /\ inbox' = [inbox EXCEPT ![c] = <<>>]
      /\ pool' = pool /\ conn' = conn /\ fd' = fd /\ peer' = peer /\ sent' = sent
  BY ReadDataEffect
<1>2. line \in Seq(Units) /\ all \in Seq(Units) /\ InHand(c) = line /\ Text(c) = line \o all
  BY <1>1 DEF DataOK, InHand, Text
<1>3. inbox'[c] = <<>> /\ \A d \in Clients \ {c} : inbox'[d] = inbox[d]
  BY <1>1 DEF DataOK
<1>4. CASE nl = 0
  <2>1. line' = line \o all /\ UNCHANGED <<pc, i, byte_cnt, got>>
    BY <1>4 DEF ReadData
  <2>2. ASSUME NEW d \in Clients \ Pipeliners PROVE Flow(d)'
    <3>1. CASE d # c
      <4>1. InHand(d) = <<>>
        BY <1>1, <3>1, OtherInHand
      <4>2. InHand(d)' = <<>>
        BY <1>1, <2>1, <3>1, <4>1 DEF InHand, OneToOne, Open, pool
      <4> QED BY <1>1, <1>3, <2>1, <3>1, <4>1, <4>2, FlowStays
    <3>2. CASE d = c
      <4>1. InHand(c)' = line \o all
        BY <1>1, <2>1 DEF InHand, Open, pool
      <4>2. Text(c)' = Text(c)
        <5>1. (line \o all) \o <<>> = line \o all
          <6>1. line \o all \in Seq(Units)
            BY <1>2
          <6> QED BY <6>1, ConcatEmptySeq
        <5> QED BY <1>2, <1>3, <4>1, <5>1 DEF Text
      <4> QED BY <1>1, <2>1, <3>2, <4>2 DEF EchoInv, Flow, InLine
    <3> QED BY <3>1, <3>2
  <2> QED BY <1>1, <2>1, <2>2, CountStays DEF EchoInv
<1>5. CASE nl # 0
  <2>1. Echo(c, text) /\ line' = <<>>
    BY <1>5 DEF ReadData
  <2>2. nl \in 1 .. Len(all) /\ all[nl][2] = 2
    BY <1>2, <1>5, NewlineIs
  <2>3. text \in Seq(Units)
    <3>1. \A k \in 1 .. nl : all[k] \in Units
      BY <1>2, <2>2
    <3>2. SubSeq(all, 1, nl) \in Seq(Units)
      <4> HIDE DEF all, nl
      <4> QED BY <1>2, <2>2
    <3> QED BY <1>2, <3>2
  <2>4. ASSUME c \notin Pipeliners PROVE text = Text(c) /\ ~InLine(c)
    <3>1. sent[c] = got[c] \o Text(c) /\ WithinLine(line \o all)
      BY <1>2, <2>4 DEF EchoInv, Flow
    <3> HIDE DEF nl, all
    <3>2. SubSeq(all, 1, nl) = all /\ Text(c) # <<>> /\ Text(c)[Len(Text(c))][2] = 2
      BY <1>2, <2>2, <3>1, ReadDataEndsLine
    <3>3. Last(sent[c]) = Text(c)[Len(Text(c))]
      BY <3>1, <3>2, FlowTypes, LastOfConcat
    <3>4. text = Text(c)
      BY <1>2, <3>2
    <3>5. Last(sent[c])[2] = 2
      BY <3>2, <3>3, Zenon
    <3>6. ~InLine(c)
      BY <3>5 DEF InLine
    <3> QED BY <3>4, <3>6
  <2> HIDE DEF text
  <2> QED BY <1>1, <1>3, <2>1, <2>3, <2>4, EchoEcho
<1> QED BY <1>4, <1>5

LEMMA ReadEofEcho ==
  ASSUME PoolInv, EchoInv, NEW c \in Clients, ReadEof(c)
  PROVE  EchoInv'
<1>1. /\ pc = "line" /\ c \in Open /\ fd[c] = clientfd[i] /\ Echo(c, line) /\ line' = <<>>
      /\ peer[c] = "fin" /\ inbox[c] = <<>> /\ UNCHANGED <<inbox, sent, peer>>
  BY DEF ReadEof, Reading, sockets
<1>2. line \in Seq(Units)
  BY DEF PoolInv, DataOK
<1>3. line = Text(c)
  BY <1>1, <1>2, ConcatEmptySeq DEF Text, InHand
<1> QED BY <1>1, <1>2, <1>3, EchoEcho

\* Outside of a line, the pool may change as it likes.
LEMMA OutsideLineEcho ==
  ASSUME EchoInv, line = <<>>, line' = <<>>,
         UNCHANGED <<byte_cnt, peer, inbox, sent, got>>
  PROVE  EchoInv'
<1>1. ASSUME NEW c \in Clients \ Pipeliners PROVE Flow(c)'
  <2>1. InHand(c) = <<>> /\ InHand(c)' = <<>>
    BY DEF InHand
  <2> QED BY <2>1, FlowStays
<1> QED BY <1>1, CountStays DEF EchoInv

LEMMA NextEcho ==
  ASSUME PoolInv, EchoInv, [Next]_vars
  PROVE  EchoInv'
<1>1. ASSUME UNCHANGED <<i, pool, line, byte_cnt, conn, fd, inbox, sent, got>>,
             \A c \in Clients : peer'[c] = "open" => peer[c] = "open",
             line # <<>> => pc' \in {"line", "exit"}
      PROVE  EchoInv'
  <2>1. ASSUME NEW c \in Clients \ Pipeliners PROVE Flow(c)'
    <3>1. InHand(c)' = InHand(c)
      BY <1>1 DEF InHand, Open, pool
    <3> QED BY <1>1, <3>1, FlowStays
  <2> QED BY <1>1, <2>1, CountStays DEF EchoInv
<1>2. CASE UNCHANGED vars
  BY <1>1, <1>2 DEF vars, sockets, EchoInv
<1>3. ASSUME NEW c \in Clients, ClientStep(c) PROVE EchoInv'
  <2>1. CASE Connect(c)
    <3>1. UNCHANGED <<pc, i, pool, line, byte_cnt, fd, peer, inbox, sent, got>>
      BY <2>1 DEF Connect
    <3>2. ASSUME NEW d \in Clients \ Pipeliners PROVE InHand(d)' = InHand(d)
      BY <2>1, <3>1 DEF Connect, InHand, Open, pool, PoolInv, DataOK
    <3>3. ASSUME NEW d \in Clients \ Pipeliners PROVE Flow(d)'
      BY <3>1, <3>2, FlowStays
    <3> QED BY <3>1, <3>3, CountStays DEF EchoInv
  <2>2. CASE SendLine(c) \/ SendRest(c)
    BY <2>2, SendEcho
  <2>3. CASE Leave(c, "fin") \/ Leave(c, "gone")
    BY <1>1, <2>3 DEF Leave, PoolInv, DataOK, EchoInv
  <2> QED BY <1>3, <2>1, <2>2, <2>3 DEF ClientStep
<1>4. CASE AcceptFails \/ \E c \in Clients : PeerGone(c)
  <2>1. Exit
    BY <1>4 DEF AcceptFails, PeerGone
  <2> QED BY <1>1, <2>1 DEF Exit, sockets
<1>5. CASE pc \in {"select", "accept", "check"}
  <2>1. line = <<>>
    BY <1>5 DEF EchoInv
  <2>2. CASE Select \/ CheckDone \/ CheckNext \/ CheckReady \/ \E c \in Clients : AddClient(c)
    BY <2>1, <2>2, OutsideLineEcho
       DEF Select, CheckDone, CheckNext, CheckReady, AddClient, sockets
  <2>3. ~(\E c \in Clients : Reading(c))
    BY <1>5 DEF Reading
  <2> QED BY <1>2, <1>3, <1>4, <2>2, <2>3
          DEF Next, ServerStep, ReadData, ReadEof, CloseClient, Closing, PeerGone
<1>6. ASSUME NEW c \in Clients, CloseClient(c) PROVE EchoInv'
  BY <1>6, OutsideLineEcho DEF CloseClient, Closing
<1>7. CASE pc \notin {"select", "accept", "check"}
  <2>1. ~(Select \/ CheckDone \/ CheckNext \/ CheckReady \/ \E c \in Clients : AddClient(c))
    BY <1>7 DEF Select, CheckDone, CheckNext, CheckReady, AddClient, InLoop
  <2> QED BY <1>2, <1>3, <1>4, <1>6, <2>1, ReadDataEcho, ReadEofEcho DEF Next, ServerStep
<1> QED BY <1>5, <1>7

-----------------------------------------------------------------------------
(* Theorems *)

\* The strengthened invariant: what is in the pool, what select found ready, and
\* what the loop of check_clients has still to come to.
THEOREM Invariance == Spec => []IInv
<1>1. IInv /\ [Next]_vars => IInv'
  BY NextPool, NextReady DEF IInv
<1> QED BY <1>1, InitIInv, PTL DEF Spec

\* The pool agrees with the connections, for any number of clients and
\* descriptors: no slot and no bit of read_set is leaked or shared by add_client
\* and check_clients, and maxi and maxfd pass nobody over.
THEOREM PoolIsExact == Spec => []PoolExact
<1>1. IInv => PoolExact
  <2> SUFFICES ASSUME IInv PROVE PoolExact
    OBVIOUS
  <2>1. ASSUME NEW c \in Open PROVE Cardinality({s \in Slots : clientfd[s] = fd[c]}) = 1
    <3>1. PICK s \in Slots : clientfd[s] = fd[c]
      BY DEF IInv, PoolInv, OneToOne
    <3>2. fd[c] # NoFd
      BY SelectAssumption DEF IInv, PoolInv, OneToOne, ClientFds, NoFd
    <3>3. {t \in Slots : clientfd[t] = fd[c]} = {s}
      BY <3>1, <3>2 DEF IInv, PoolInv, OneToOne
    <3> QED BY <3>3, FS_Singleton
  <2>2. \A f \in read_set : f <= maxfd
    BY DEF IInv, PoolInv, DataOK, Bounds
  <2>3. read_set = {Listen} \cup {fd[c] : c \in Open}
    BY DEF IInv, PoolInv, Bounds, Given
  <2>4. \A s \in Slots : clientfd[s] # NoFd => s <= maxi /\ clientfd[s] \in read_set
    BY DEF IInv, PoolInv, Bounds, OneToOne
  <2> QED BY <2>1, <2>2, <2>3, <2>4 DEF PoolExact
<1> QED BY <1>1, Invariance, PTL

\* nready counts the ready clients the loop has still to come to, so its early
\* exit passes nobody over.
THEOREM ReadyCounted == Spec => []NreadyExact
<1>1. IInv => NreadyExact
  BY DEF IInv, CountInv, Ahead, NreadyExact
<1> QED BY <1>1, Invariance, PTL

\* No line is begun for a client that has nothing to be read.
THEOREM NeverReadsIdle == Spec => []ReadyHasData
<1>1. IInv => ReadyHasData
  BY DEF IInv
<1> QED BY <1>1, Invariance, PTL

\* A client that waits for each echo is echoed what it has sent, in order, and
\* byte_cnt is the number of units echoed, for any number of clients and lines:
\* the copy of the reader in check_clients (echoservers.c:108) loses nothing as
\* long as nothing arrives behind a line.
THEOREM EchoesAll == Spec => []EchoExact
<1>1. Init => PoolInv /\ EchoInv
  BY InitPool, InitEcho
<1>2. PoolInv /\ EchoInv /\ [Next]_vars => PoolInv' /\ EchoInv'
  BY NextPool, NextEcho
<1>3. PoolInv /\ EchoInv => EchoExact
  <2> SUFFICES ASSUME PoolInv, EchoInv PROVE EchoExact
    OBVIOUS
  <2>1. ASSUME NEW c \in Clients \ Pipeliners PROVE IsPrefix(got[c], sent[c])
    <3> DEFINE g == got[c]
               t == Text(c)
    <3>1. g \in Seq(Units) /\ t \in Seq(Units) /\ sent[c] = g \o t
      BY FlowTypes DEF PoolInv, EchoInv, Flow
    <3> HIDE DEF g, t
    <3>2. Len(g) <= Len(g \o t) /\ SubSeq(g, 1, Len(g)) = SubSeq(g \o t, 1, Len(g))
      BY <3>1
    <3>3. IsPrefix(g, g \o t)
      BY <3>2 DEF IsPrefix
    <3> QED BY <3>1, <3>3 DEF g
  <2> QED BY <2>1 DEF EchoExact, EchoInv
<1> QED BY <1>1, <1>2, <1>3, PTL DEF Spec
=============================================================================
