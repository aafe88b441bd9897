-------------------------- MODULE DnsServerProofs --------------------------
(* For any tables, requests, resolvers and network: what the cache server    *)
(* sends for a valid query is a chain of live records, and a negative answer *)
(* has looked at the whole table; an address that a resolver prints is the   *)
(* one its name leads to.  Nothing is assumed of fairness, and of the other  *)
(* client only that its requests come from a port of its own.                *)
EXTENDS DnsSystem, FiniteSetTheorems, WellFoundedInduction, SequenceTheorems, TLAPS

\* The records an answer is made of.
WireRecords ==
  {r \in [name : Names, type : {"A", "CNAME", "other"}, data : Names \cup Addresses \cup {None},
          ttl : Nat \ {0}, compressed : {FALSE}] :
     \E x \in DOMAIN db : db[x].name = r.name /\ db[x].type = r.type /\ db[x].data = r.data}

ServerTypes ==
  /\ now \in Nat /\ started \in Nat /\ db \in Seq(Entries)
  /\ DOMAIN srv = {"place", "req", "qname", "i", "answer", "found"}
  /\ srv.place \in {"start", "recv", "scan", "send"}
  /\ srv.i \in Nat /\ srv.answer \in Seq(WireRecords) /\ srv.found \in BOOLEAN

Asked == srv.place = "scan" \/ Answering
IsAlias(k) == srv.answer[k].type = "CNAME" /\ srv.req.type # "CNAME"

\* The records found so far lead from the name of the request to the one the
\* scan looks for.
Chained ==
  Asked =>
    /\ \A k \in 1 .. Len(srv.answer) : srv.answer[k].name = NameAfter(k - 1)
    /\ srv.found => Len(srv.answer) > 0 /\ srv.answer[Len(srv.answer)].type = srv.req.type
                    /\ \A k \in 1 .. Len(srv.answer) - 1 : IsAlias(k)
    /\ ~srv.found => srv.qname = NameAfter(Len(srv.answer))
                     /\ \A k \in 1 .. Len(srv.answer) : IsAlias(k)

Passed(x) ==
  db[x].name = srv.qname /\ Live(db[x]) =>
    \/ db[x].type \notin {srv.req.type, "CNAME"}
    \/ x = 1 /\ srv.answer # <<>>

\* What the scan has passed, since it began or since the last alias, is not what
\* it looks for; a record may have expired since, but none has come to life.
Searched ==
  /\ srv.place = "scan" =>
       IsValidRequest(srv.req) /\ ~srv.found /\ \A x \in DOMAIN db : x <= srv.i => Passed(x)
  /\ Answering /\ ~srv.found => \A x \in DOMAIN db : Passed(x)

DnsInv == ServerTypes /\ Chained /\ Searched

-----------------------------------------------------------------------------
\* When it starts, the server has no request.
LEMMA InitDnsInv == DnsInit => DnsInv
<1> SUFFICES ASSUME DnsInit PROVE DnsInv
  OBVIOUS
<1>1. now = 0 /\ started = 0 /\ db \in Seq(Entries) /\ srv = Place("start")
  BY DatabaseAssumption DEF DnsInit, ServerInit
<1>2. ServerTypes
  BY <1>1 DEF ServerTypes, Place
<1>3. Chained /\ Searched
  BY <1>1 DEF Chained, Searched, Asked, Answering, Place
<1> QED BY <1>2, <1>3 DEF DnsInv

\* Time passes: a record only expires.
LEMMA TickStep ==
  ASSUME DnsInv, Tick
  PROVE  DnsInv'
<1>1. now' = now + 1 /\ UNCHANGED <<db, started, srv>>
  BY DEF Tick
<1>2. ServerTypes'
  BY <1>1 DEF DnsInv, ServerTypes, WireRecords
<1>3. ASSUME NEW x \in DOMAIN db, Live(db[x])' PROVE Live(db[x])
  <2>1. db[x] \in Entries /\ now \in Nat /\ started \in Nat
    BY DEF DnsInv, ServerTypes
  <2>2. db[x].ttl \in Int
    BY <2>1 DEF Entries
  <2> QED BY <1>1, <1>3, <2>1, <2>2 DEF Live, Remaining, Expires
<1>4. Chained'
  BY <1>1 DEF DnsInv, Chained, Asked, Answering, NameAfter, IsAlias
<1>5. Searched'
  BY <1>1, <1>3 DEF DnsInv, Searched, Answering, Passed
<1> QED BY <1>2, <1>4, <1>5 DEF DnsInv

\* The server starts, and a request arrives at its socket.
LEMMA StartStep ==
  ASSUME DnsInv, Start
  PROVE  DnsInv'
<1>1. started' = now /\ UNCHANGED <<now, db>> /\ srv' = Place("recv")
  BY DEF Start
<1>2. ServerTypes'
  BY <1>1 DEF DnsInv, ServerTypes, Place
<1>3. Chained' /\ Searched'
  BY <1>1 DEF Chained, Searched, Asked, Answering, Place
<1> QED BY <1>2, <1>3 DEF DnsInv

\* A request is read: nothing is found, and nothing passed, yet.
LEMMA ReceiveStep ==
  ASSUME DnsInv, Receive
  PROVE  DnsInv'
<1> DEFINE d == Head(inbox)
<1>1. /\ srv' = [place |-> IF IsValidRequest(d) THEN "scan" ELSE "send", req |-> d,
                 qname |-> d.name, i |-> 0, answer |-> <<>>, found |-> FALSE]
      /\ UNCHANGED <<now, db, started>>
  BY DEF Receive
<1> HIDE DEF d
<1>2. ServerTypes'
  BY <1>1 DEF DnsInv, ServerTypes
<1>3. Answering' => FALSE
  BY <1>1 DEF Answering
<1>4. Chained'
  BY <1>1, <1>3 DEF Chained, Asked, NameAfter
<1>5. Searched'
  <2>1. \A x \in DOMAIN db : ~(x <= 0)
    BY DEF DnsInv, ServerTypes
  <2>2. srv'.place = "scan" => IsValidRequest(d)
    BY <1>1
  <2> QED BY <1>1, <1>3, <2>1, <2>2 DEF Searched
<1> QED BY <1>2, <1>4, <1>5 DEF DnsInv

\* One turn of the loop finds the record asked for, follows an alias, or passes
\* an entry.
LEMMA ScanStep ==
  ASSUME DnsInv, Scan
  PROVE  DnsInv'
<1> DEFINE cur == db[srv.i + 1]
           n == Len(srv.answer)
           longer == Append(srv.answer, Wire(cur))
<1>1. /\ srv.place = "scan" /\ srv.i < Len(db) /\ UNCHANGED <<now, db, started>>
      /\ srv.i \in Nat /\ srv.answer \in Seq(WireRecords) /\ n \in Nat
      /\ now \in Nat /\ started \in Nat /\ db \in Seq(Entries)
      /\ DOMAIN srv = {"place", "req", "qname", "i", "answer", "found"}
      /\ srv.found \in BOOLEAN /\ ~srv.found /\ IsValidRequest(srv.req)
  BY DEF DnsInv, ServerTypes, Searched, Scan
<1>2. cur \in Entries /\ srv.i + 1 \in DOMAIN db
  BY <1>1
<1>3. /\ \A k \in 1 .. n : srv.answer[k].name = NameAfter(k - 1) /\ IsAlias(k)
      /\ srv.qname = NameAfter(n)
  BY <1>1 DEF DnsInv, Chained, Asked
<1>4. \A x \in DOMAIN db : x <= srv.i => Passed(x)
  BY <1>1 DEF DnsInv, Searched
<1> HIDE DEF cur
<1>5. ASSUME cur.name = srv.qname, Live(cur)
      PROVE  /\ longer \in Seq(WireRecords) /\ Len(longer) = n + 1
             /\ \A k \in 1 .. n : longer[k] = srv.answer[k]
             /\ longer[n + 1] = Wire(cur) /\ Wire(cur).name = cur.name
             /\ Wire(cur).type = cur.type /\ Wire(cur).data = cur.data
  <2>1. Remaining(cur) \in Nat \ {0}
    BY <1>1, <1>2, <1>5 DEF Live, Remaining, Expires, Entries
  <2>2. Wire(cur) \in WireRecords
    <3>1. /\ cur.name \in Names /\ cur.type \in {"A", "CNAME", "other"}
          /\ cur.data \in Names \cup Addresses \cup {None}
      BY <1>2 DEF Entries
    <3>2. \E x \in DOMAIN db : db[x].name = cur.name /\ db[x].type = cur.type /\ db[x].data = cur.data
      BY <1>2 DEF cur
    <3> QED BY <2>1, <3>1, <3>2 DEF Wire, WireRecords
  <2>3. Wire(cur).name = cur.name /\ Wire(cur).type = cur.type /\ Wire(cur).data = cur.data
    BY DEF Wire
  <2> HIDE DEF n
  <2> QED BY <1>1, <2>2, <2>3 DEF n
<1> HIDE DEF longer
<1>0. WireRecords' = WireRecords
  BY <1>1 DEF WireRecords
<1>6. CASE /\ cur.name = srv.qname /\ Live(cur) /\ cur.type = srv.req.type
           /\ srv' = [srv EXCEPT !.place = "send", !.found = TRUE, !.answer = longer]
  <2>1. /\ srv'.place = "send" /\ srv'.found = TRUE /\ srv'.answer = longer
        /\ srv'.req = srv.req /\ srv'.i = srv.i /\ srv'.qname = srv.qname
        /\ DOMAIN srv' = DOMAIN srv
    BY <1>1, <1>6
  <2>2. ServerTypes'
    BY <1>0, <1>1, <1>5, <1>6, <2>1 DEF ServerTypes
  <2>3. Chained'
    <3>1. ASSUME NEW k \in 1 .. n
          PROVE  longer[k].name = NameAfter(k - 1)' /\ IsAlias(k)'
      <4>1. k - 1 = 0 \/ k - 1 \in 1 .. n
        BY <1>1
      <4> QED BY <1>3, <1>5, <1>6, <2>1, <4>1 DEF NameAfter, IsAlias
    <3>2. longer[n + 1].name = NameAfter(n)
      BY <1>3, <1>5, <1>6
    <3>3. Len(srv'.answer) = n + 1 /\ longer[n + 1].type = srv'.req.type
      BY <1>5, <1>6, <2>1
    <3>4. NameAfter(n) = IF n = 0 THEN srv'.req.name ELSE srv'.answer[n].data
      BY <1>1, <1>5, <1>6, <2>1 DEF NameAfter
    <3>5. ASSUME NEW k \in 1 .. n + 1 PROVE longer[k].name = NameAfter(k - 1)'
      <4>1. CASE k = n + 1
        BY <1>1, <2>1, <3>2, <3>4, <4>1 DEF NameAfter
      <4>2. CASE k \in 1 .. n
        BY <3>1, <4>2
      <4> QED BY <1>1, <4>1, <4>2
    <3> HIDE DEF n
    <3> QED BY <1>1, <2>1, <3>1, <3>3, <3>5 DEF Chained, Asked
  <2>4. Searched'
    BY <2>1 DEF Searched
  <2> QED BY <2>2, <2>3, <2>4 DEF DnsInv
<1>7. CASE /\ cur.name = srv.qname /\ Live(cur) /\ cur.type # srv.req.type /\ cur.type = "CNAME"
           /\ srv' = [srv EXCEPT !.qname = cur.data, !.i = AfterAlias(@), !.answer = longer]
  <2>1. /\ srv'.place = "scan" /\ srv'.found = srv.found /\ srv'.answer = longer
        /\ srv'.req = srv.req /\ srv'.i = 1 /\ srv'.qname = cur.data
        /\ DOMAIN srv' = DOMAIN srv
    BY <1>1, <1>7 DEF AfterAlias
  <2>2. ServerTypes'
    BY <1>0, <1>1, <1>5, <1>7, <2>1 DEF ServerTypes
  <2>3. Chained'
    <3>1. ASSUME NEW k \in 1 .. n + 1
          PROVE  longer[k].name = NameAfter(k - 1)' /\ IsAlias(k)'
      <4>1. CASE k = n + 1
        BY <1>1, <1>3, <1>5, <1>7, <2>1, <4>1 DEF NameAfter, IsAlias
      <4>2. CASE k \in 1 .. n
        <5>1. k - 1 = 0 \/ k - 1 \in 1 .. n
          BY <1>1, <4>2
        <5> QED BY <1>3, <1>5, <1>7, <2>1, <4>2, <5>1 DEF NameAfter, IsAlias
      <4> QED BY <1>1, <4>1, <4>2
    <3>2. Len(srv'.answer) = n + 1
      BY <1>5, <1>7, <2>1
    <3>3. srv'.qname = NameAfter(Len(srv.answer))'
      BY <1>1, <1>5, <1>7, <2>1, <3>2 DEF NameAfter
    <3> HIDE DEF n
    <3> QED BY <1>1, <2>1, <3>1, <3>2, <3>3 DEF Chained, Asked
  <2>4. Searched'
    BY <1>1, <1>5, <1>7, <2>1 DEF Searched, Answering, Passed
  <2> QED BY <2>2, <2>3, <2>4 DEF DnsInv
<1>8. CASE /\ ~(cur.name = srv.qname /\ Live(cur)) \/ cur.type \notin {srv.req.type, "CNAME"}
           /\ srv' = [srv EXCEPT !.i = srv.i + 1]
  <2>1. /\ srv'.place = "scan" /\ srv'.found = srv.found /\ srv'.answer = srv.answer
        /\ srv'.req = srv.req /\ srv'.i = srv.i + 1 /\ srv'.qname = srv.qname
        /\ DOMAIN srv' = DOMAIN srv
    BY <1>1, <1>8
  <2>2. ServerTypes'
    BY <1>0, <1>1, <2>1 DEF ServerTypes
  <2>3. Chained'
    BY <1>1, <1>3, <2>1 DEF Chained, Asked, Answering, NameAfter, IsAlias
  <2>4. \A x \in DOMAIN db : x <= srv.i + 1 => x <= srv.i \/ x = srv.i + 1
    BY <1>1
  <2>5. Passed(srv.i + 1)
    <3>1. ~(cur.name = srv.qname /\ Live(cur)) \/ cur.type \notin {srv.req.type, "CNAME"}
      BY <1>8
    <3> QED BY <3>1 DEF Passed, cur
  <2>6. Searched'
    BY <1>1, <1>4, <2>1, <2>4, <2>5 DEF Searched, Answering, Passed, Live, Remaining, Expires
  <2> QED BY <2>2, <2>3, <2>6 DEF DnsInv
<1> QED BY <1>6, <1>7, <1>8 DEF Scan, cur, longer

\* The scan has passed the whole table.
LEMMA ScanEndsStep ==
  ASSUME DnsInv, ScanEnds
  PROVE  DnsInv'
<1>1. /\ srv.place = "scan" /\ UNCHANGED <<now, db, started>>
      /\ srv'.place = "send" /\ srv'.found = srv.found /\ srv'.answer = srv.answer
      /\ srv'.req = srv.req /\ srv'.i = srv.i /\ srv'.qname = srv.qname
      /\ DOMAIN srv' = DOMAIN srv
  BY DEF DnsInv, ServerTypes, ScanEnds
<1>2. ServerTypes'
  BY <1>1 DEF DnsInv, ServerTypes, WireRecords
<1>3. Chained'
  BY <1>1 DEF DnsInv, Chained, Asked, Answering, NameAfter, IsAlias
<1>4. \A x \in DOMAIN db : x <= srv.i
  BY DEF DnsInv, ServerTypes, ScanEnds
<1>5. Searched'
  BY <1>1, <1>4 DEF DnsInv, Searched, Answering, Passed, Live, Remaining, Expires
<1> QED BY <1>2, <1>3, <1>5 DEF DnsInv

\* After the answer the server has no request again.
LEMMA SendReplyStep ==
  ASSUME DnsInv, SendReply
  PROVE  DnsInv'
<1>1. srv' = Place("recv") /\ UNCHANGED <<now, db, started>>
  BY DEF SendReply
<1>2. ServerTypes'
  BY <1>1 DEF DnsInv, ServerTypes, Place
<1>3. Chained' /\ Searched'
  BY <1>1 DEF Chained, Searched, Asked, Answering, Place
<1> QED BY <1>2, <1>3 DEF DnsInv

\* No other step touches what the server works on.
LEMMA OtherSteps ==
  ASSUME DnsInv, UNCHANGED <<now, db, started, srv>>
  PROVE  DnsInv'
<1>1. ServerTypes'
  BY DEF DnsInv, ServerTypes, WireRecords
<1>2. Chained'
  BY DEF DnsInv, Chained, Asked, Answering, NameAfter, IsAlias
<1>3. Searched'
  BY DEF DnsInv, Searched, Answering, Passed, Live, Remaining, Expires
<1> QED BY <1>1, <1>2, <1>3 DEF DnsInv

-----------------------------------------------------------------------------
\* The strengthened invariant: the chain found so far and the entries passed.
THEOREM Invariance == DnsSpec => []DnsInv
<1>1. DnsInv /\ [DnsNext]_dnsVars => DnsInv'
  <2> SUFFICES ASSUME DnsInv, [DnsNext]_dnsVars PROVE DnsInv'
    OBVIOUS
  <2>1. CASE Tick \/ ServerStep
    BY <2>1, TickStep, StartStep, ReceiveStep, ScanStep, ScanEndsStep, SendReplyStep
    DEF ServerStep
  <2>2. CASE UNCHANGED dnsVars
    BY <2>2, OtherSteps DEF dnsVars, serverVars
  <2>3. ASSUME NEW d \in net, Arrive(d) PROVE DnsInv'
    BY <2>3, OtherSteps DEF Arrive
  <2>4. CASE UNCHANGED serverVars
    BY <2>4, OtherSteps DEF serverVars
  <2> QED BY <2>1, <2>2, <2>3, <2>4 DEF DnsNext
<1> QED BY <1>1, InitDnsInv, PTL DEF DnsSpec

\* get_response: what is sent for a valid query is a chain of records of the
\* table, each alive when it was found (server.c:275-306).
THEOREM Chains == DnsSpec => []AnswerIsChain
<1>1. DnsInv => AnswerIsChain
  <2> SUFFICES ASSUME DnsInv, Answering PROVE AnswerIsChain
    BY DEF AnswerIsChain
  <2>1. ASSUME NEW k \in 1 .. Len(srv.answer)
        PROVE  /\ srv.answer[k].name = NameAfter(k - 1) /\ srv.answer[k].ttl > 0
               /\ \E e \in {db[x] : x \in DOMAIN db} :
                    e.name = srv.answer[k].name /\ e.type = srv.answer[k].type
                    /\ e.data = srv.answer[k].data
    <3>1. srv.answer[k] \in WireRecords
      BY DEF DnsInv, ServerTypes
    <3>2. srv.answer[k].ttl \in Nat \ {0}
      BY <3>1 DEF WireRecords
    <3>3. srv.answer[k].name = NameAfter(k - 1)
      BY DEF DnsInv, Chained, Asked
    <3>4. PICK x \in DOMAIN db : /\ db[x].name = srv.answer[k].name
                                 /\ db[x].type = srv.answer[k].type
                                 /\ db[x].data = srv.answer[k].data
      BY <3>1 DEF WireRecords
    <3>5. srv.answer[k].ttl > 0
      BY <3>2
    <3> QED BY <3>3, <3>4, <3>5
  <2>2. IF srv.found THEN /\ srv.answer[Len(srv.answer)].type = srv.req.type
                          /\ \A k \in 1 .. Len(srv.answer) - 1 : IsAlias(k)
                     ELSE \A k \in 1 .. Len(srv.answer) : IsAlias(k)
    BY DEF DnsInv, Chained, Asked
  <2> QED BY <2>1, <2>2 DEF AnswerIsChain, IsAlias
<1> QED BY <1>1, Invariance, PTL

\* get_response: NXDOMAIN means that no live entry of the whole table answers,
\* but for entry 0 once an alias has been followed (server.c:303).
THEOREM Negatives == DnsSpec => []NegativeSound
<1>1. DnsInv => NegativeSound
  BY DEF DnsInv, Chained, Searched, Asked, Passed, NegativeSound
<1> QED BY <1>1, Invariance, PTL

-----------------------------------------------------------------------------
(* The resolvers.  Chain and GetAnswerAddress are recursive functions: that  *)
(* there are such functions is shown by the least rank, or the least number  *)
(* of records that are left, for which there would be none.                  *)

LEMMA LeastNat ==
  ASSUME NEW S \in SUBSET Nat, S # {}
  PROVE  \E x \in S : \A y \in S : x <= y
<1> DEFINE R == {p \in Nat \X Nat : p[1] < p[2]}
<1>1. IsWellFoundedOn(R, Nat)
  BY NatLessThanWellFounded, Zenon DEF OpToRel
<1>2. PICK x \in S : \A y \in S : ~(<<y, x>> \in R)
  <2> HIDE DEF R
  <2> QED BY <1>1, WFMin
<1>3. ASSUME NEW y \in S PROVE x <= y
  <2>1. <<y, x>> \notin R
    <3> HIDE DEF R
    <3> QED BY <1>2
  <2>2. x \in Nat /\ y \in Nat /\ ~(y < x)
    BY <2>1
  <2> QED BY <2>2
<1> QED BY <1>3

\* How many aliases can follow a name.
IsRank(rank) ==
  /\ rank \in [Names -> Nat]
  /\ \E b \in Nat : \A n \in Names : rank[n] <= b
  /\ \A n \in Names : Zone[n] # None /\ Zone[n].type = "CNAME" => rank[Zone[n].data] < rank[n]

LEMMA RankExists == \E rank : IsRank(rank)
<1>1. Cardinality(Names) \in Nat
  BY ResolverAssumption, FS_CardinalityType
<1>2. PICK rank \in [Names -> 0 .. Cardinality(Names)] :
        \A n \in Names : Zone[n] # None /\ Zone[n].type = "CNAME" => rank[Zone[n].data] < rank[n]
  BY ResolverAssumption
<1>3. rank \in [Names -> Nat] /\ \A n \in Names : rank[n] <= Cardinality(Names)
  BY <1>1, <1>2
<1> QED BY <1>1, <1>2, <1>3 DEF IsRank

\* One step along the aliases of a name, f being the way from the next one.
Onward(n, f) ==
  IF Zone[n] = None THEN <<>>
  ELSE IF Zone[n].type = "CNAME" THEN <<Zone[n]>> \o f[Zone[n].data]
  ELSE <<Zone[n]>>

LEMMA WayExists == \E f : f = [n \in Names |-> Onward(n, f)]
<1>1. PICK rank : IsRank(rank)
  BY RankExists
<1> DEFINE Ok(j, f) == \A n \in Names : rank[n] < j => f[n] = Onward(n, f)
           Bad == {j \in Nat : ~\E f : Ok(j, f)}
<1>2. ASSUME Bad # {} PROVE FALSE
  <2>1. PICK j \in Bad : \A k \in Bad : j <= k
    <3>1. Bad \in SUBSET Nat
      OBVIOUS
    <3> HIDE DEF Bad
    <3> QED BY <1>2, <3>1, LeastNat
  <2>2. j \in Nat /\ ~\E f : Ok(j, f)
    BY <2>1
  <2>3. j # 0
    BY <1>1, <2>2 DEF IsRank
  <2>4. PICK f : Ok(j - 1, f)
    <3>1. j - 1 \in Nat /\ j - 1 \notin Bad
      BY <2>1, <2>2, <2>3
    <3> QED BY <3>1
  <2> DEFINE g == [n \in Names |-> IF rank[n] < j - 1 THEN f[n] ELSE Onward(n, f)]
  <2>5. ASSUME NEW n \in Names, rank[n] < j PROVE g[n] = Onward(n, g)
    <3>1. g[n] = Onward(n, f)
      BY <2>4
    <3>2. CASE Zone[n] # None /\ Zone[n].type = "CNAME"
      <4> DEFINE d == Zone[n].data
      <4>1. d \in Names /\ rank[d] < rank[n] /\ rank[d] \in Nat /\ rank[n] \in Nat
        BY <1>1, <3>2, ResolverAssumption DEF IsRank
      <4>2. rank[d] < j - 1
        BY <2>2, <2>5, <4>1
      <4> HIDE DEF d
      <4>3. g[d] = f[d]
        BY <4>1, <4>2
      <4> HIDE DEF g
      <4> QED BY <3>1, <3>2, <4>3 DEF Onward, d
    <3>3. CASE ~(Zone[n] # None /\ Zone[n].type = "CNAME")
      <4> HIDE DEF g
      <4> QED BY <3>1, <3>3 DEF Onward
    <3> QED BY <3>2, <3>3
  <2>6. Ok(j, g)
    <3> HIDE DEF g
    <3> QED BY <2>5
  <2> QED BY <2>2, <2>6
<1>3. PICK b \in Nat : \A n \in Names : rank[n] <= b /\ rank[n] \in Nat
  BY <1>1 DEF IsRank
<1>4. PICK f : Ok(b + 1, f)
  <2>1. b + 1 \in Nat /\ b + 1 \notin Bad
    BY <1>2, <1>3
  <2> QED BY <2>1
<1> DEFINE h == [n \in Names |-> f[n]]
<1>5. ASSUME NEW n \in Names PROVE h[n] = Onward(n, h)
  <2>1. rank[n] < b + 1
    BY <1>3
  <2>2. h[n] = Onward(n, f)
    BY <1>4, <2>1
  <2>3. Zone[n] # None /\ Zone[n].type = "CNAME" => h[Zone[n].data] = f[Zone[n].data]
    BY ResolverAssumption
  <2> HIDE DEF h
  <2> QED BY <2>2, <2>3 DEF Onward
<1>6. h = [n \in Names |-> h[n]]
  OBVIOUS
<1> HIDE DEF h
<1>7. h = [n \in Names |-> Onward(n, h)]
  BY <1>5, <1>6
<1> QED BY <1>7

\* What Zone has for a name is its record, and what it has for the alias.
LEMMA ChainIs ==
  ASSUME NEW n \in Names
  PROVE  Chain(n) = IF Zone[n] = None THEN <<>>
                    ELSE IF Zone[n].type = "CNAME" THEN <<Zone[n]>> \o Chain(Zone[n].data)
                    ELSE <<Zone[n]>>
<1> DEFINE F == CHOOSE f : f = [m \in Names |-> IF Zone[m] = None THEN <<>>
                                ELSE IF Zone[m].type = "CNAME" THEN <<Zone[m]>> \o f[Zone[m].data]
                                ELSE <<Zone[m]>>]
<1>1. \A m : Chain(m) = F[m]
  BY DEF Chain
<1>2. F = CHOOSE f : f = [m \in Names |-> Onward(m, f)]
  BY DEF Onward
<1> HIDE DEF F
<1>3. F = [m \in Names |-> Onward(m, F)]
  BY <1>2, WayExists
<1>4. F[n] = Onward(n, F)
  BY <1>3
<1> QED BY <1>1, <1>4 DEF Onward

ZoneRecords == {Zone[n] : n \in Names} \ {None}

LEMMA ChainOfZone == \A n \in Names : Chain(n) \in Seq(ZoneRecords)
<1>1. PICK rank : IsRank(rank)
  BY RankExists
<1> DEFINE Bad == {j \in Nat : \E n \in Names : rank[n] = j /\ Chain(n) \notin Seq(ZoneRecords)}
<1>2. ASSUME Bad # {} PROVE FALSE
  <2>1. PICK j \in Bad : \A k \in Bad : j <= k
    <3>1. Bad \in SUBSET Nat
      OBVIOUS
    <3> HIDE DEF Bad
    <3> QED BY <1>2, <3>1, LeastNat
  <2>2. PICK n \in Names : rank[n] = j /\ Chain(n) \notin Seq(ZoneRecords)
    BY <2>1
  <2>3. CASE Zone[n] = None \/ Zone[n].type # "CNAME"
    <3>1. Chain(n) = IF Zone[n] = None THEN <<>> ELSE <<Zone[n]>>
      BY <2>3, ChainIs
    <3>2. Zone[n] # None => Zone[n] \in ZoneRecords
      BY DEF ZoneRecords
    <3> QED BY <2>2, <3>1, <3>2
  <2>4. CASE Zone[n] # None /\ Zone[n].type = "CNAME"
    <3> DEFINE d == Zone[n].data
    <3>1. d \in Names /\ rank[d] < rank[n] /\ rank[d] \in Nat
      BY <1>1, <2>4, ResolverAssumption DEF IsRank
    <3>2. Chain(d) \in Seq(ZoneRecords)
      BY <2>1, <2>2, <3>1
    <3>3. Chain(n) = <<Zone[n]>> \o Chain(d) /\ Zone[n] \in ZoneRecords
      BY <2>4, ChainIs DEF ZoneRecords
    <3> HIDE DEF d, Bad
    <3>4. <<Zone[n]>> \o Chain(d) \in Seq(ZoneRecords)
      BY <3>2, <3>3
    <3> QED BY <2>2, <3>3, <3>4
  <2> QED BY <2>3, <2>4
<1>3. \A n \in Names : rank[n] \in Nat
  BY <1>1 DEF IsRank
<1> QED BY <1>2, <1>3

\* The aliases of a name end in an address.
EndsIn(n, a) ==
  LET c == Chain(n) IN c # <<>> /\ c[Len(c)].type = "A" /\ c[Len(c)].data = a

LEMMA EndsHere ==
  ASSUME NEW n \in Names, Zone[n] # None, Zone[n].type = "A"
  PROVE  EndsIn(n, Zone[n].data)
<1>1. Chain(n) = <<Zone[n]>>
  BY ChainIs
<1> QED BY <1>1 DEF EndsIn

LEMMA EndsBeyond ==
  ASSUME NEW n \in Names, Zone[n] # None, Zone[n].type = "CNAME",
         NEW a, EndsIn(Zone[n].data, a)
  PROVE  EndsIn(n, a)
<1> DEFINE d == Zone[n].data
           c == Chain(d)
<1>1. d \in Names
  BY ResolverAssumption
<1>2. Chain(n) = <<Zone[n]>> \o c /\ c \in Seq(ZoneRecords)
  BY <1>1, ChainIs, ChainOfZone
<1>3. c # <<>> /\ c[Len(c)].type = "A" /\ c[Len(c)].data = a
  BY DEF EndsIn
<1> HIDE DEF c, d
<1>4. Zone[n] \in ZoneRecords
  BY DEF ZoneRecords
<1>5. PICK z : z = Zone[n]
  OBVIOUS
<1>6. PICK w : w = <<z>> \o c
  OBVIOUS
<1>7. Len(c) \in Nat \ {0} /\ Len(w) = Len(c) + 1 /\ w[Len(c) + 1] = c[Len(c)] /\ w # <<>>
  BY <1>2, <1>3, <1>4, <1>5, <1>6
<1>8. w[Len(w)] = c[Len(c)]
  BY <1>7
<1>9. Chain(n) = w
  BY <1>2, <1>5, <1>6
<1> QED BY <1>3, <1>7, <1>8, <1>9 DEF EndsIn

\* A record that matches a name is the one of Zone, whoever sent it.
Genuine(rr) == rr.compressed => rr.name \in Names /\ Zone[rr.name] # None /\ rr = Zone[rr.name]

LEMMA MatchIsZone ==
  ASSUME NEW rr, Genuine(rr), NEW n \in Names, Matches(rr, n)
  PROVE  rr = Zone[n] /\ Zone[n] # None
BY ResolverAssumption DEF Genuine, Matches, NameRead

\* One record of an answer, f being the way from the next one.
OneRecord(records, k, n, f) ==
  IF k > Len(records) \/ ~Matches(records[k], n) THEN None
  ELSE IF records[k].type = "A" THEN records[k].data
  ELSE f[k + 1][IF records[k].type = "CNAME" THEN records[k].data ELSE n]

LEMMA NextName ==
  ASSUME NEW records, NEW k \in 1 .. Len(records), Genuine(records[k]), NEW n \in Names,
         Matches(records[k], n)
  PROVE  (IF records[k].type = "CNAME" THEN records[k].data ELSE n) \in Names
BY MatchIsZone, ResolverAssumption

LEMMA WalkExists ==
  ASSUME NEW records, Len(records) \in Nat, \A k \in 1 .. Len(records) : Genuine(records[k])
  PROVE  \E f : f = [k \in 1 .. Len(records) + 1 |-> [n \in Names |-> OneRecord(records, k, n, f)]]
<1> DEFINE L == Len(records)
           Ok(j, f) == \A k \in 1 .. L + 1, n \in Names :
                         L + 1 - k < j => f[k][n] = OneRecord(records, k, n, f)
           Bad == {j \in Nat : ~\E f : Ok(j, f)}
<1>1. ASSUME Bad # {} PROVE FALSE
  <2>1. PICK j \in Bad : \A k \in Bad : j <= k
    <3>1. Bad \in SUBSET Nat
      OBVIOUS
    <3> HIDE DEF Bad
    <3> QED BY <1>1, <3>1, LeastNat
  <2>2. j \in Nat /\ ~\E f : Ok(j, f)
    BY <2>1
  <2>3. j # 0
    BY <2>2
  <2>4. PICK f : Ok(j - 1, f)
    <3>1. j - 1 \in Nat /\ j - 1 \notin Bad
      BY <2>1, <2>2, <2>3
    <3> QED BY <3>1
  <2> DEFINE g == [k \in 1 .. L + 1 |-> [n \in Names |->
                     IF L + 1 - k < j - 1 THEN f[k][n] ELSE OneRecord(records, k, n, f)]]
  <2>5. ASSUME NEW k \in 1 .. L + 1, NEW n \in Names, L + 1 - k < j
        PROVE  g[k][n] = OneRecord(records, k, n, g)
    <3>1. g[k][n] = OneRecord(records, k, n, f)
      BY <2>4
    <3> DEFINE m == IF records[k].type = "CNAME" THEN records[k].data ELSE n
    <3>2. CASE k <= L /\ Matches(records[k], n)
      <4>1. m \in Names /\ k + 1 \in 1 .. L + 1
        BY <3>2, NextName
      <4>2. L + 1 - (k + 1) < j - 1
        BY <2>2, <2>5
      <4> HIDE DEF m
      <4>3. g[k + 1][m] = f[k + 1][m]
        BY <4>1, <4>2
      <4> HIDE DEF g
      <4> QED BY <3>1, <4>3 DEF OneRecord, m
    <3>3. CASE ~(k <= L /\ Matches(records[k], n))
      <4> HIDE DEF g
      <4> QED BY <3>1, <3>3 DEF OneRecord
    <3> QED BY <3>2, <3>3
  <2>6. Ok(j, g)
    <3> HIDE DEF g
    <3> QED BY <2>5
  <2> QED BY <2>2, <2>6
<1>2. PICK f : Ok(L + 1, f)
  <2>1. L + 1 \in Nat
    OBVIOUS
  <2>2. L + 1 \notin Bad
    <3> HIDE DEF Bad
    <3> QED BY <1>1
  <2> QED BY <2>1, <2>2
<1> DEFINE h == [k \in 1 .. L + 1 |-> [n \in Names |-> f[k][n]]]
<1>3. ASSUME NEW k \in 1 .. L + 1, NEW n \in Names PROVE h[k][n] = OneRecord(records, k, n, h)
  <2>1. L + 1 - k < L + 1
    OBVIOUS
  <2>2. h[k][n] = OneRecord(records, k, n, f)
    BY <1>2, <2>1
  <2> DEFINE m == IF records[k].type = "CNAME" THEN records[k].data ELSE n
  <2>3. k <= L /\ Matches(records[k], n) => h[k + 1][m] = f[k + 1][m]
    BY NextName
  <2> HIDE DEF h
  <2> QED BY <2>2, <2>3 DEF OneRecord
<1>4. h = [k \in 1 .. L + 1 |-> [n \in Names |-> h[k][n]]]
  OBVIOUS
<1> HIDE DEF h
<1>5. h = [k \in 1 .. L + 1 |-> [n \in Names |-> OneRecord(records, k, n, h)]]
  BY <1>3, <1>4
<1> QED BY <1>5

\* Whatever records an answer has, if they are of Zone or not understood, the
\* address taken from it is the one the aliases of the name lead to.
LEMMA AnswerEnds ==
  ASSUME NEW records, Len(records) \in Nat, \A k \in 1 .. Len(records) : Genuine(records[k]),
         NEW q \in Names, GetAnswerAddress(q, records) # None
  PROVE  EndsIn(q, GetAnswerAddress(q, records))
<1> DEFINE L == Len(records)
           F == CHOOSE f : f = [k \in 1 .. L + 1 |-> [n \in Names |->
                  IF k > L \/ ~Matches(records[k], n) THEN None
                  ELSE IF records[k].type = "A" THEN records[k].data
                  ELSE f[k + 1][IF records[k].type = "CNAME" THEN records[k].data ELSE n]]]
<1>1. GetAnswerAddress(q, records) = F[1][q]
  BY DEF GetAnswerAddress
<1> DEFINE P(f) == f = [k \in 1 .. L + 1 |-> [n \in Names |-> OneRecord(records, k, n, f)]]
<1>2. F = CHOOSE f : P(f)
  BY DEF OneRecord
<1>3. F = [k \in 1 .. L + 1 |-> [n \in Names |-> OneRecord(records, k, n, F)]]
  <2>1. \E f : P(f)
    BY WalkExists
  <2> HIDE DEF P, F
  <2>2. P(F)
    BY <1>2, <2>1
  <2> QED BY <2>2 DEF P
<1> HIDE DEF F, P
<1>4. \A k \in 1 .. L + 1, n \in Names : F[k][n] = OneRecord(records, k, n, F)
  BY <1>3
<1> DEFINE Bad == {j \in Nat : \E k \in 1 .. L + 1, n \in Names :
                     L + 1 - k = j /\ F[k][n] # None /\ ~EndsIn(n, F[k][n])}
<1>5. ASSUME Bad # {} PROVE FALSE
  <2>1. PICK j \in Bad : \A x \in Bad : j <= x
    <3>1. Bad \in SUBSET Nat
      OBVIOUS
    <3> HIDE DEF Bad
    <3> QED BY <1>5, <3>1, LeastNat
  <2>2. PICK k \in 1 .. L + 1, n \in Names :
          L + 1 - k = j /\ F[k][n] # None /\ ~EndsIn(n, F[k][n])
    BY <2>1
  <2>3. F[k][n] = OneRecord(records, k, n, F)
    BY <1>4
  <2>4. k <= L /\ Matches(records[k], n)
    BY <2>2, <2>3 DEF OneRecord
  <2>5. k \in 1 .. L /\ k + 1 \in 1 .. L + 1 /\ L + 1 - (k + 1) \in Nat /\ L + 1 - (k + 1) < j
    BY <2>2, <2>4
  <2>6. records[k] = Zone[n] /\ Zone[n] # None
    BY <2>4, <2>5, MatchIsZone
  <2>7. \A m \in Names : F[k + 1][m] # None => EndsIn(m, F[k + 1][m])
    <3>1. L + 1 - (k + 1) \notin Bad
      <4> HIDE DEF Bad
      <4> QED BY <2>1, <2>2, <2>5
    <3> QED BY <2>5, <3>1
  <2> HIDE DEF Bad, L
  <2>8. CASE Zone[n].type = "A"
    BY <2>2, <2>3, <2>4, <2>6, <2>8, EndsHere DEF OneRecord, L
  <2>9. CASE Zone[n].type = "CNAME"
    <3>1. Zone[n].data \in Names /\ F[k][n] = F[k + 1][Zone[n].data]
      BY <2>3, <2>4, <2>6, <2>9, ResolverAssumption DEF OneRecord, L
    <3> QED BY <2>2, <2>6, <2>7, <2>9, <3>1, EndsBeyond
  <2>10. CASE Zone[n].type \notin {"A", "CNAME"}
    <3>1. F[k][n] = F[k + 1][n]
      BY <2>3, <2>4, <2>6, <2>10 DEF OneRecord, L
    <3> QED BY <2>2, <2>7, <3>1
  <2> QED BY <2>8, <2>9, <2>10
<1>6. L + 1 - 1 \in Nat /\ 1 \in 1 .. L + 1
  OBVIOUS
<1>7. L + 1 - 1 \notin Bad
  <2> HIDE DEF Bad
  <2> QED BY <1>5
<1>8. F[1][q] # None => EndsIn(q, F[1][q])
  BY <1>6, <1>7
<1> QED BY <1>1, <1>8

-----------------------------------------------------------------------------
(* What is on the network. *)

ServerNames == {"server", "upstream"}

IsRequest(d) ==
  /\ d.to \in ServerNames /\ d.from \notin ServerNames
  /\ {"to", "from", "name", "copy"} \subseteq DOMAIN d
  /\ d.to = "upstream" => d.name \in Names

IsReply(d) ==
  /\ d.to \notin ServerNames /\ {"to", "records", "copy"} \subseteq DOMAIN d
  /\ Len(d.records) \in Nat /\ \A k \in 1 .. Len(d.records) : Genuine(d.records[k])

NetInv == \A d \in net : IsRequest(d) \/ IsReply(d)

\* The server answers to where its requests come from.
RequestsInv ==
  /\ \E S : inbox \in Seq(S) /\ \A d \in S : d.from \notin ServerNames
  /\ srv.place \in {"scan", "send"} => srv.req.from \notin ServerNames

ResultsInv ==
  /\ DOMAIN res = Resolvers
  /\ \A r \in Resolvers :
       /\ res[r].phase = "waiting" => res[r].port \in Ports /\ res[r].qname \in Names
       /\ res[r].result # None => EndsIn(res[r].qname, res[r].result)

ResolverInv == NetInv /\ RequestsInv /\ ResultsInv

LEMMA NetStep ==
  ASSUME NetInv, NEW d, IsRequest(d) \/ IsReply(d), net' \subseteq net \cup {d}
  PROVE  NetInv'
BY DEF NetInv

\* Nobody has asked or answered; the request of another client is on its way.
LEMMA InitResolverInv == DnsInit => ResolverInv
<1> SUFFICES ASSUME DnsInit PROVE ResolverInv
  OBVIOUS
<1>1. NetInv
  BY RequestAssumption DEF DnsInit, NetInv, IsRequest, ServerNames
<1>2. RequestsInv
  <2>1. inbox \in Seq({}) /\ srv.place = "start"
    BY DEF DnsInit, ServerInit, Place
  <2> QED BY <2>1 DEF RequestsInv
<1>3. ResultsInv
  BY DEF DnsInit, ResolverInit, ResultsInv
<1> QED BY <1>1, <1>2, <1>3 DEF ResolverInv

\* A query goes to a server, from a port.
LEMMA AskResolvers ==
  ASSUME ResolverInv, NEW r \in Resolvers, NEW typed \in Typed, NEW port \in Ports,
         NEW server \in Servers, Ask(r, typed, port, server), UNCHANGED serverVars
  PROVE  ResolverInv'
<1>1. typed[1] \in Names /\ server \in ServerNames /\ port \notin ServerNames
  BY ResolverAssumption DEF ServerNames
<1>2. PICK q \in Queries(r, port, server, typed[1]) : Send(q)
  BY DEF Ask, Canonicalize
<1>3. IsRequest(q)
  BY <1>1 DEF Queries, IsRequest
<1>4. NetInv'
  <2>1. net' \subseteq net \cup {q}
    BY <1>2 DEF Send
  <2> QED BY <1>3, <2>1, NetStep DEF ResolverInv
<1>5. RequestsInv'
  BY DEF ResolverInv, RequestsInv, serverVars
<1>6. ResultsInv'
  BY <1>1 DEF ResolverInv, ResultsInv, Ask, Canonicalize
<1> QED BY <1>4, <1>5, <1>6 DEF ResolverInv

\* The answer may be one to another process, or from the server or upstream:
\* what is taken from it is right.
LEMMA TakeAnswerResolvers ==
  ASSUME ResolverInv, NEW r \in Resolvers, NEW d \in net, TakeAnswer(r, d), UNCHANGED serverVars
  PROVE  ResolverInv'
<1>1. d.to \notin ServerNames /\ res[r].qname \in Names
  BY ResolverAssumption DEF ResolverInv, ResultsInv, TakeAnswer, ServerNames
<1>2. IsReply(d)
  BY <1>1 DEF ResolverInv, NetInv, IsRequest
<1> DEFINE a == GetAnswerAddress(res[r].qname, d.records)
<1>3. a # None => EndsIn(res[r].qname, a)
  BY <1>1, <1>2, AnswerEnds DEF IsReply
<1> HIDE DEF a
<1>4. res' = [res EXCEPT ![r] = [phase |-> "done", port |-> None, server |-> None,
                                 qname |-> res[r].qname, result |-> a]]
  BY DEF ResolverInv, ResultsInv, TakeAnswer, a
<1>5. ResultsInv'
  BY <1>3, <1>4 DEF ResolverInv, ResultsInv
<1>6. NetInv'
  BY DEF ResolverInv, NetInv, TakeAnswer, Take
<1>7. RequestsInv'
  BY DEF ResolverInv, RequestsInv, serverVars
<1> QED BY <1>5, <1>6, <1>7 DEF ResolverInv

LEMMA ZoneIsGenuine == \A z \in ZoneRecords : Genuine(z)
BY ResolverAssumption DEF ZoneRecords, Genuine

\* Upstream answers from its zone, and may add a record of it.
LEMMA UpstreamResolvers ==
  ASSUME ResolverInv, NEW d \in net, UpstreamReply(d), UNCHANGED serverVars
  PROVE  ResolverInv'
<1>1. IsRequest(d) /\ d.name \in Names
  BY DEF ResolverInv, NetInv, UpstreamReply, IsRequest, IsReply, ServerNames
<1> DEFINE found == IF d.type = "A" THEN Chain(d.name) ELSE <<>>
           reply(records) ==
             [to |-> d.from, from |-> "upstream", owner |-> d.owner, copy |-> FALSE,
              qr |-> TRUE, rd |-> d.rd, rcode |-> 0, name |-> d.name, type |-> d.type,
              records |-> records]
<1>2. found \in Seq(ZoneRecords)
  BY <1>1, ChainOfZone
<1>3. \A extra \in {<<>>, <<Glue>>} : extra \in Seq(ZoneRecords)
  <2>1. Glue \in ZoneRecords
    BY ResolverAssumption DEF ZoneRecords
  <2>2. <<Glue>> \in Seq(ZoneRecords) /\ <<>> \in Seq(ZoneRecords)
    BY <2>1
  <2> QED BY <2>2
<1>4. PICK extra \in {<<>>, <<Glue>>} : net' = (net \ {d}) \cup {reply(found \o extra)}
  BY DEF UpstreamReply
<1> HIDE DEF found
<1> DEFINE records == found \o extra
<1>5. records \in Seq(ZoneRecords)
  <2>1. extra \in Seq(ZoneRecords)
    BY <1>3
  <2> QED BY <1>2, <2>1, ConcatProperties
<1> HIDE DEF records
<1>6. IsReply(reply(records))
  BY <1>1, <1>5, ZoneIsGenuine DEF IsReply, IsRequest
<1>7. NetInv'
  <2>1. net' \subseteq net \cup {reply(records)}
    BY <1>4 DEF records
  <2> HIDE DEF reply
  <2> QED BY <1>6, <2>1, NetStep DEF ResolverInv
<1>8. RequestsInv' /\ ResultsInv'
  BY DEF ResolverInv, RequestsInv, ResultsInv, serverVars, UpstreamReply
<1> QED BY <1>7, <1>8 DEF ResolverInv

\* The kernel queues what comes for the server.
LEMMA ArriveResolvers ==
  ASSUME ResolverInv, NEW d \in net, Arrive(d), UNCHANGED res
  PROVE  ResolverInv'
<1>1. d.from \notin ServerNames
  BY DEF ResolverInv, NetInv, Arrive, IsRequest, IsReply, ServerNames
<1>2. PICK S : inbox \in Seq(S) /\ \A e \in S : e.from \notin ServerNames
  BY DEF ResolverInv, RequestsInv
<1>3. inbox' \in Seq(S \cup {d})
  <2>1. inbox \in Seq(S \cup {d}) /\ inbox' = Append(inbox, d)
    BY <1>2, SeqMonotonic DEF Arrive
  <2> QED BY <2>1
<1>4. RequestsInv'
  BY <1>1, <1>2, <1>3 DEF ResolverInv, RequestsInv, Arrive
<1>5. NetInv' /\ ResultsInv'
  BY DEF ResolverInv, NetInv, ResultsInv, Arrive, Take
<1> QED BY <1>4, <1>5 DEF ResolverInv

\* The server takes the oldest one.
LEMMA ReceiveResolvers ==
  ASSUME ResolverInv, Receive, UNCHANGED res
  PROVE  ResolverInv'
<1>1. PICK S : inbox \in Seq(S) /\ \A e \in S : e.from \notin ServerNames
  BY DEF ResolverInv, RequestsInv
<1>2. Head(inbox) \in S /\ inbox' \in Seq(S)
  BY <1>1 DEF Receive
<1>3. srv'.req = Head(inbox)
  BY DEF Receive
<1>4. RequestsInv'
  BY <1>1, <1>2, <1>3 DEF RequestsInv
<1>5. NetInv' /\ ResultsInv'
  BY DEF ResolverInv, NetInv, ResultsInv, Receive, netVars
<1> QED BY <1>4, <1>5 DEF ResolverInv

\* What it sends has names that a resolver does not understand.
LEMMA SendReplyResolvers ==
  ASSUME ResolverInv, ServerTypes, SendReply, UNCHANGED res
  PROVE  ResolverInv'
<1>1. srv.req.from \notin ServerNames
  BY DEF ResolverInv, RequestsInv, SendReply
<1>2. \A k \in 1 .. Len(srv.answer) : Genuine(srv.answer[k])
  <2>1. \A w \in WireRecords : ~w.compressed
    BY DEF WireRecords
  <2>2. \A k \in 1 .. Len(srv.answer) : srv.answer[k] \in WireRecords
    BY DEF ServerTypes
  <2> QED BY <2>1, <2>2 DEF Genuine
<1>3. IsReply(Reply(srv.req))
  <2>1. Len(srv.answer) \in Nat
    BY DEF ServerTypes
  <2>2. CASE IsValidRequest(srv.req)
    BY <1>1, <1>2, <2>1, <2>2 DEF Reply, IsReply
  <2>3. CASE ~IsValidRequest(srv.req)
    BY <1>1, <2>3 DEF Reply, IsReply
  <2> QED BY <2>2, <2>3
<1>4. NetInv'
  <2>1. net' \subseteq net \cup {Reply(srv.req)}
    BY DEF SendReply, Send
  <2> QED BY <1>3, <2>1, NetStep DEF ResolverInv
<1>5. RequestsInv' /\ ResultsInv'
  BY DEF ResolverInv, RequestsInv, ResultsInv, SendReply, Place
<1> QED BY <1>4, <1>5 DEF ResolverInv

\* A copy has what the datagram has.
LEMMA DuplicateResolvers ==
  ASSUME ResolverInv, NEW d \in net, Duplicate(d), UNCHANGED <<serverVars, res>>
  PROVE  ResolverInv'
<1> DEFINE c == [d EXCEPT !.copy = TRUE]
<1>1. IsRequest(d) => IsRequest(c)
  BY DEF IsRequest
<1>2. IsReply(d) => IsReply(c)
  BY DEF IsReply
<1>3. NetInv'
  <2>1. net' \subseteq net \cup {c}
    BY DEF Duplicate
  <2>2. IsRequest(d) \/ IsReply(d)
    BY DEF ResolverInv, NetInv
  <2> HIDE DEF c
  <2> QED BY <1>1, <1>2, <2>1, <2>2, NetStep DEF ResolverInv
<1>4. RequestsInv' /\ ResultsInv'
  BY DEF ResolverInv, RequestsInv, ResultsInv, serverVars
<1> QED BY <1>3, <1>4 DEF ResolverInv

\* Time, the scan and a datagram that is lost.
LEMMA OtherResolvers ==
  ASSUME ResolverInv, ServerTypes, UNCHANGED res,
         Tick \/ Start \/ Scan \/ ScanEnds \/ (\E d \in net : Lose(d) /\ UNCHANGED serverVars)
         \/ UNCHANGED dnsVars
  PROVE  ResolverInv'
<1>1. NetInv'
  BY DEF ResolverInv, NetInv, Tick, Start, Scan, ScanEnds, Lose, netVars, dnsVars
<1>2. inbox' = inbox
  BY DEF Tick, Start, Scan, ScanEnds, serverVars, dnsVars
<1>3. srv'.place \in {"scan", "send"} => srv.place \in {"scan", "send"} /\ srv'.req = srv.req
  <2>1. CASE Start
    BY <2>1 DEF Start, Place
  <2>2. CASE Scan
    BY <2>2 DEF ServerTypes, Scan
  <2>3. CASE ScanEnds
    BY <2>3 DEF ServerTypes, ScanEnds
  <2> QED BY <2>1, <2>2, <2>3 DEF Tick, serverVars, dnsVars
<1>4. RequestsInv'
  BY <1>2, <1>3 DEF ResolverInv, RequestsInv
<1>5. ResultsInv'
  BY DEF ResolverInv, ResultsInv
<1> QED BY <1>1, <1>4, <1>5 DEF ResolverInv

THEOREM ResolverInvariance == DnsSpec => []ResolverInv
<1>1. DnsInv /\ ResolverInv /\ [DnsNext]_dnsVars => ResolverInv'
  <2> SUFFICES ASSUME DnsInv, ResolverInv, [DnsNext]_dnsVars PROVE ResolverInv'
    OBVIOUS
  <2>1. ServerTypes
    BY DEF DnsInv
  <2>2. CASE (Tick \/ ServerStep) /\ UNCHANGED res
    BY <2>1, <2>2, ReceiveResolvers, SendReplyResolvers, OtherResolvers DEF ServerStep
  <2>3. CASE (\E d \in net : Arrive(d)) /\ UNCHANGED res
    BY <2>3, ArriveResolvers
  <2>4. CASE (\E d \in net : Lose(d) \/ Duplicate(d)) /\ UNCHANGED <<serverVars, res>>
    BY <2>1, <2>4, DuplicateResolvers, OtherResolvers
  <2>5. CASE (\E r \in Resolvers : Resolve(r)) /\ UNCHANGED serverVars
    BY <2>5, AskResolvers, TakeAnswerResolvers DEF Resolve
  <2>6. CASE (\E d \in net : UpstreamReply(d)) /\ UNCHANGED serverVars
    BY <2>6, UpstreamResolvers
  <2>7. CASE UNCHANGED dnsVars
    BY <2>1, <2>7, OtherResolvers DEF dnsVars
  <2> QED BY <2>2, <2>3, <2>4, <2>5, <2>6, <2>7 DEF DnsNext
<1> QED BY <1>1, InitResolverInv, Invariance, PTL DEF DnsSpec

\* An address that resolver.c prints is the one at the end of the aliases of the
\* name it asked for, whoever the answer was meant for.
THEOREM AddressesAreRight == DnsSpec => []AddressOfName
<1>1. ResolverInv => AddressOfName
  BY DEF ResolverInv, ResultsInv, AddressOfName, EndsIn
<1> QED BY <1>1, ResolverInvariance, PTL
=============================================================================
