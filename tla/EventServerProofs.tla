------------------------- MODULE EventServerProofs -------------------------
(* For any clients, table and buffers: the table of clients agrees with the  *)
(* registered connections; a client that waits for its answers gets them     *)
(* whole and in order; and no readiness edge is lost while it is served.     *)
EXTENDS EventServer, ThreadCountsProofs, WellFoundedInduction

Statuses == {OK, 404, 501}
Units == {<<"header", st>> : st \in Statuses} \cup {<<"body", i>> : i \in 1 .. BodyUnits}
Pieces == AllKinds \X {1, 2}
Text(k) == <<<<k, 1>>, <<k, 2>>>>

-----------------------------------------------------------------------------
(* The answers to a sequence of requests.  FlattenSeq is a recursive        *)
(* function: that it exists for every sequence, and how it grows with one,  *)
(* is shown by the least length for which it would not.                     *)

\* A set of naturals that is not empty has a least element.
LEMMA LeastNat ==
  ASSUME NEW S \in SUBSET Nat, S # {}
  PROVE  \E x \in S : \A y \in S : x <= y
<1> DEFINE R == {p \in Nat \X Nat : p[1] < p[2]}
<1>1. IsWellFoundedOn(R, Nat)
  BY NatLessThanWellFounded, Zenon DEF OpToRel
<1>2. PICK x \in S : \A y \in S : ~(<<y, x>> \in R)
  <2> HIDE DEF R
  <2> QED BY <1>1, WFMin
<1>3. ASSUME NEW y \in S PROVE x <= y
  <2>1. <<y, x>> \notin R
    <3> HIDE DEF R
    <3> QED BY <1>2
  <2>2. x \in Nat /\ y \in Nat /\ ~(y < x)
    BY <2>1
  <2> QED BY <2>2
<1> QED BY <1>3

\* f joins more and more of the sequences in s.
Joins(f, s) == f = [i \in 1 .. Len(s) |-> IF i = 1 THEN s[i] ELSE f[i - 1] \o s[i]]

\* The same f, with one sequence more.
Longer(f, s, x) ==
  [i \in 1 .. Len(s) + 1 |-> IF i <= Len(s) THEN f[i]
                             ELSE IF s = <<>> THEN x ELSE f[Len(s)] \o x]

LEMMA JoinsLonger ==
  ASSUME NEW T, NEW s \in Seq(T), NEW x \in T, NEW f, Joins(f, s)
  PROVE  Joins(Longer(f, s, x), Append(s, x))
<1> DEFINE g == Longer(f, s, x)
           t == Append(s, x)
<1>1. /\ Len(s) \in Nat /\ Len(t) = Len(s) + 1
      /\ \A i \in 1 .. Len(s) : t[i] = s[i]
      /\ t[Len(s) + 1] = x
      /\ s = <<>> <=> Len(s) = 0
  OBVIOUS
<1>2. \A i \in 1 .. Len(s) : f[i] = IF i = 1 THEN s[i] ELSE f[i - 1] \o s[i]
  BY DEF Joins
<1>3. \A i \in 1 .. Len(s) + 1 :
        g[i] = IF i <= Len(s) THEN f[i] ELSE IF s = <<>> THEN x ELSE f[Len(s)] \o x
  BY <1>1 DEF Longer
<1>4. \A i \in 1 .. Len(s) + 1 : g[i] = IF i = 1 THEN t[i] ELSE g[i - 1] \o t[i]
  <2> HIDE DEF g, t
  <2> TAKE i \in 1 .. Len(s) + 1
  <2>1. CASE i <= Len(s)
    BY <1>1, <1>2, <1>3, <2>1
  <2>2. CASE i = Len(s) + 1
    BY <1>1, <1>3, <2>2
  <2> QED BY <1>1, <2>1, <2>2
<1>5. g = [i \in 1 .. Len(s) + 1 |-> IF i = 1 THEN t[i] ELSE g[i - 1] \o t[i]]
  <2>1. g = [i \in 1 .. Len(s) + 1 |-> g[i]]
    BY DEF Longer
  <2> HIDE DEF g, t
  <2> QED BY <1>4, <2>1
<1> HIDE DEF g, t
<1>6. Joins(g, t)
  BY <1>1, <1>5 DEF Joins
<1> QED BY <1>6 DEF g, t

LEMMA JoinsUnique ==
  ASSUME NEW T, NEW s \in Seq(T), NEW f, Joins(f, s), NEW g, Joins(g, s)
  PROVE  f = g
<1> DEFINE D == {i \in 1 .. Len(s) : f[i] # g[i]}
<1>a. Len(s) \in Nat
  OBVIOUS
<1>b. /\ \A i \in 1 .. Len(s) : f[i] = IF i = 1 THEN s[i] ELSE f[i - 1] \o s[i]
      /\ f = [i \in 1 .. Len(s) |-> f[i]]
  <2> HIDE DEF D
  <2> QED BY DEF Joins
<1>c. /\ \A i \in 1 .. Len(s) : g[i] = IF i = 1 THEN s[i] ELSE g[i - 1] \o s[i]
      /\ g = [i \in 1 .. Len(s) |-> g[i]]
  <2> HIDE DEF D
  <2> QED BY DEF Joins
<1>2. ASSUME D # {} PROVE FALSE
  <2>0. D \in SUBSET Nat
    BY <1>a
  <2>1. PICK n \in D : \A i \in D : n <= i
    <3> HIDE DEF D
    <3> QED BY <2>0, <1>2, LeastNat
  <2>2. n \in 1 .. Len(s) /\ f[n] # g[n]
    BY <2>1
  <2>3. n = 1 \/ (n - 1 \in 1 .. Len(s) /\ n - 1 \notin D)
    BY <1>a, <2>1, <2>2
  <2>4. n = 1 \/ f[n - 1] = g[n - 1]
    BY <2>3
  <2>5. /\ f[n] = IF n = 1 THEN s[n] ELSE f[n - 1] \o s[n]
        /\ g[n] = IF n = 1 THEN s[n] ELSE g[n - 1] \o s[n]
    BY <1>b, <1>c, <2>2
  <2> HIDE DEF D
  <2> QED BY <2>2, <2>4, <2>5
<1> QED BY <1>b, <1>c, <1>2

LEMMA JoinsExists ==
  ASSUME NEW T
  PROVE  \A s \in Seq(T) : \E f : Joins(f, s)
<1> DEFINE Bad == {n \in Nat : \E s \in Seq(T) : Len(s) = n /\ ~\E f : Joins(f, s)}
<1>1. ASSUME Bad # {} PROVE FALSE
  <2>1. PICK n \in Bad : \A i \in Bad : n <= i
    BY <1>1, LeastNat
  <2>2. PICK s \in Seq(T) : Len(s) = n /\ ~\E f : Joins(f, s)
    BY <2>1
  <2>3. CASE n = 0
    <3> DEFINE e == [i \in 1 .. 0 |-> s]
    <3>1. e = [i \in 1 .. Len(s) |-> IF i = 1 THEN s[i] ELSE e[i - 1] \o s[i]]
      BY <2>2, <2>3
    <3> HIDE DEF e
    <3> QED BY <2>2, <3>1 DEF Joins
  <2>4. CASE n # 0
    <3>0. s # <<>>
      BY <2>2, <2>4
    <3>1. PICK t \in Seq(T), x \in T : s = Append(t, x)
      <4> HIDE DEF Bad
      <4> QED BY <3>0, SequenceEmptyOrAppend
    <3>2. Len(t) = n - 1 /\ n - 1 \in Nat
      BY <2>1, <2>2, <2>4, <3>1
    <3>3. PICK f : Joins(f, t)
      BY <2>1, <3>2
    <3>4. Joins(Longer(f, t, x), s)
      BY <3>1, <3>3, JoinsLonger
    <3> QED BY <2>2, <3>4
  <2> QED BY <2>3, <2>4
<1> QED BY <1>1

LEMMA FlattenIs ==
  ASSUME NEW T, NEW s \in Seq(T), s # <<>>, NEW f, Joins(f, s)
  PROVE  FlattenSeq(s) = f[Len(s)]
<1> DEFINE F == CHOOSE h : h = [i \in 1 .. Len(s) |-> IF i = 1 THEN s[i] ELSE h[i - 1] \o s[i]]
<1>1. FlattenSeq(s) = F[Len(s)]
  BY DEF FlattenSeq
<1>2. F = CHOOSE h : Joins(h, s)
  BY DEF Joins
<1> HIDE DEF F
<1>3. Joins(F, s)
  BY <1>2
<1> QED BY <1>1, <1>3, JoinsUnique

LEMMA GrowsByOne ==
  ASSUME NEW T, NEW s \in Seq(T), NEW x \in T
  PROVE  /\ Append(s, x) \in Seq(T) /\ Append(s, x) # <<>>
         /\ Len(Append(s, x)) = Len(s) + 1 /\ Len(s) \in Nat
         /\ s = <<>> <=> Len(s) = 0
OBVIOUS

LEMMA FlattenAppend ==
  ASSUME NEW U, NEW s \in Seq(Seq(U)), NEW x \in Seq(U)
  PROVE  FlattenSeq(Append(s, x)) = FlattenSeq(s) \o x
<1> DEFINE T == Seq(U)
<1>0. s \in Seq(T) /\ x \in T
  OBVIOUS
<1> HIDE DEF T
<1>1. PICK f : Joins(f, s)
  BY <1>0, JoinsExists
<1>2. Joins(Longer(f, s, x), Append(s, x))
  BY <1>0, <1>1, JoinsLonger
<1>3. /\ Append(s, x) \in Seq(T) /\ Append(s, x) # <<>>
      /\ Len(Append(s, x)) = Len(s) + 1 /\ Len(s) \in Nat
      /\ s = <<>> <=> Len(s) = 0
  BY <1>0, GrowsByOne
<1>4. FlattenSeq(Append(s, x)) = Longer(f, s, x)[Len(s) + 1]
  BY <1>2, <1>3, FlattenIs
<1>5. Longer(f, s, x)[Len(s) + 1] = IF s = <<>> THEN x ELSE f[Len(s)] \o x
  BY <1>3 DEF Longer
<1>6. CASE s = <<>>
  <2>1. FlattenSeq(s) = <<>>
    BY <1>6 DEF FlattenSeq
  <2>2. <<>> \o x = x
    <3> QED BY ConcatEmptySeq
  <2> QED BY <1>4, <1>5, <1>6, <2>1, <2>2
<1>7. CASE s # <<>>
  <2>1. FlattenSeq(s) = f[Len(s)]
    BY <1>0, <1>1, <1>7, FlattenIs
  <2> QED BY <1>4, <1>5, <1>7, <2>1
<1> QED BY <1>6, <1>7

\* What is still to be sent of an answer with this status after its header.
After(st) == IF st = OK THEN Body ELSE <<>>

LEMMA StatusKnown ==
  ASSUME NEW k \in AllKinds
  PROVE  StatusOf(k) \in Statuses /\ (StatusOf(k) = OK <=> k = "found")
BY DEF StatusOf, AllKinds, Statuses, OK

LEMMA UnitsOf ==
  ASSUME NEW st \in Statuses
  PROVE  /\ Header(st) \in Seq(Units) /\ Len(Header(st)) = 1
         /\ After(st) \in Seq(Units) /\ Body \in Seq(Units)
<1>1. Header(st) \in Seq(Units) /\ Len(Header(st)) = 1
  BY DEF Header, Units
<1>2. Body \in Seq(Units)
  <2>1. BodyUnits \in Nat
    BY EventAssumption
  <2>2. \A i \in 1 .. BodyUnits : Body[i] \in Units
    BY DEF Body, Units
  <2> QED BY <2>1, <2>2, IsASeq DEF Body
<1> QED BY <1>1, <1>2 DEF After

\* The answer to a request is the header of its status and what follows it.
LEMMA AnswerIs ==
  ASSUME NEW k \in AllKinds
  PROVE  /\ Answer(k) = Header(StatusOf(k)) \o After(StatusOf(k))
         /\ Answer(k) \in Seq(Units) /\ Len(Answer(k)) >= 1
<1>1. StatusOf(k) \in Statuses /\ (StatusOf(k) = OK <=> k = "found")
  BY StatusKnown
<1>2. /\ Header(StatusOf(k)) \in Seq(Units) /\ Len(Header(StatusOf(k))) = 1
      /\ After(StatusOf(k)) \in Seq(Units)
  BY <1>1, UnitsOf
<1>3. Answer(k) = Header(StatusOf(k)) \o After(StatusOf(k))
  <2>1. CASE k = "found"
    BY <1>1, <2>1 DEF Answer, After
  <2>2. CASE k # "found"
    <3>1. Header(StatusOf(k)) \o <<>> = Header(StatusOf(k))
      BY <1>2, ConcatEmptySeq
    <3> QED BY <1>1, <2>2, <3>1 DEF Answer, After
  <2> QED BY <2>1, <2>2
<1> QED BY <1>2, <1>3

LEMMA NoAnswers == Answers(<<>>) = <<>>
BY DEF Answers, FlattenSeq

LEMMA AnswersAppend ==
  ASSUME NEW ks \in Seq(AllKinds), NEW k \in AllKinds
  PROVE  Answers(Append(ks, k)) = Answers(ks) \o Answer(k)
<1> DEFINE s == [i \in DOMAIN ks |-> Answer(ks[i])]
           t == [i \in DOMAIN Append(ks, k) |-> Answer(Append(ks, k)[i])]
<1>1. /\ Len(ks) \in Nat /\ DOMAIN ks = 1 .. Len(ks)
      /\ DOMAIN Append(ks, k) = 1 .. Len(ks) + 1
      /\ \A i \in 1 .. Len(ks) : ks[i] \in AllKinds /\ Append(ks, k)[i] = ks[i]
      /\ Append(ks, k)[Len(ks) + 1] = k
  OBVIOUS
<1>2. s \in Seq(Seq(Units)) /\ Len(s) = Len(ks)
  <2>1. \A i \in 1 .. Len(ks) : s[i] \in Seq(Units)
    BY <1>1, AnswerIs
  <2>2. s = [i \in 1 .. Len(ks) |-> s[i]]
    BY <1>1
  <2> HIDE DEF s
  <2>3. s \in Seq(Seq(Units))
    BY <1>1, <2>1, <2>2, IsASeq
  <2> QED BY <1>1, <2>2, <2>3, LenProperties
<1>3. t = Append(s, Answer(k))
  <2> DEFINE T == Seq(Units)
  <2>1. /\ DOMAIN t = 1 .. Len(ks) + 1 /\ t = [i \in DOMAIN t |-> t[i]]
        /\ \A i \in 1 .. Len(ks) : t[i] = s[i]
        /\ t[Len(ks) + 1] = Answer(k)
    BY <1>1
  <2>2. s \in Seq(T) /\ Answer(k) \in T /\ \A i \in 1 .. Len(ks) : s[i] \in T
    BY <1>1, <1>2, AnswerIs
  <2> HIDE DEF s, t, T
  <2>3. t \in [1 .. Len(ks) + 1 -> T]
    BY <1>1, <2>1, <2>2
  <2> QED BY <1>1, <1>2, <2>1, <2>2, <2>3, IsAppend
<1>4. FlattenSeq(Append(s, Answer(k))) = FlattenSeq(s) \o Answer(k)
  <2> HIDE DEF s
  <2> QED BY <1>2, AnswerIs, FlattenAppend
<1> QED BY <1>3, <1>4 DEF Answers

-----------------------------------------------------------------------------
(* Prefixes *)

LEMMA PrefixOfConcat ==
  ASSUME NEW T, NEW a \in Seq(T), NEW b \in Seq(T)
  PROVE  IsPrefix(a, a \o b)
BY DEF IsPrefix

LEMMA PrefixShorter ==
  ASSUME NEW T, NEW a \in Seq(T), NEW b \in Seq(T), NEW t, Len(t) \in Nat,
         IsPrefix(a \o b, t)
  PROVE  IsPrefix(a, t)
BY DEF IsPrefix

-----------------------------------------------------------------------------
(* receive_requests and send_responses, for a client with one request *)

States == {"RECEIVING_HEADERS", "SENDING_HEADERS", "SENDING_BODY"}

Client == [state : States, recv_buf : Seq(Pieces), requests : Seq(AllKinds),
           cur_request : {0}, status : {0} \cup Statuses, send_buf : Seq(Units),
           idle : 0 .. Expire]

\* Between two requests, and in the middle of an answer.
Receiving(x) == x \in Client /\ x.state = "RECEIVING_HEADERS" /\ x.requests = <<>>

Busy(x) == /\ x \in Client /\ x.state # "RECEIVING_HEADERS"
           /\ x.status \in Statuses /\ Len(x.requests) <= 1

LEMMA NewReceives == Receiving(NewClient) /\ NewClient.recv_buf = <<>>
<1>1. Expire \in Nat
  BY EventAssumption
<1> QED BY <1>1 DEF NewClient, Receiving, Client, States

LEMMA TextSplit ==
  ASSUME NEW k \in AllKinds
  PROVE  Complete(Text(k)) /\ Split(Text(k)) = <<k>>
<1>1. Ends(Text(k)) = {2}
  BY DEF Ends, Text
<1>2. Cardinality(Ends(Text(k))) = 1
  BY <1>1, FS_Singleton
<1>3. EndOf(Text(k), 1) = 2
  <2>1. {h \in Ends(Text(k)) : h <= 2} = {2}
    BY <1>1
  <2>2. Cardinality({h \in Ends(Text(k)) : h <= 2}) = 1
    BY <2>1, FS_Singleton
  <2>3. \E i \in Ends(Text(k)) : Cardinality({h \in Ends(Text(k)) : h <= i}) = 1
    BY <1>1, <2>2
  <2>4. EndOf(Text(k), 1) \in Ends(Text(k))
    BY <2>3 DEF EndOf
  <2> QED BY <1>1, <2>4
<1>4. Text(k)[2][1] = k
  BY DEF Text
<1>5. Split(Text(k)) = [j \in 1 .. 1 |-> k]
  BY <1>2, <1>3, <1>4 DEF Split
<1>6. [j \in 1 .. 1 |-> k] = <<k>>
  OBVIOUS
<1> QED BY <1>1, <1>5, <1>6 DEF Complete

\* Concatenation, kept whole where its elements do not matter.
Cat(a, b) == a \o b

LEMMA ReceiveHalf ==
  ASSUME NEW x, Receiving(x), NEW data, NEW k \in AllKinds,
         x.recv_buf \o data \in {<<>>, <<<<k, 1>>>>}
  PROVE  LET y == ReceiveRequests(x, data)
         IN Receiving(y) /\ y.recv_buf = x.recv_buf \o data
<1> DEFINE r == RecvData(x, data)
<1>1. x.idle \in 0 .. Expire /\ 0 \in 0 .. Expire
  BY EventAssumption DEF Receiving, Client
<1>2. x.recv_buf \o data \in Seq(Pieces)
  <2>1. <<k, 1>> \in Pieces
    BY DEF Pieces
  <2>2. <<>> \in Seq(Pieces) /\ <<<<k, 1>>>> \in Seq(Pieces)
    BY <2>1
  <2> HIDE DEF r
  <2>3. x.recv_buf \o data = <<>> \/ x.recv_buf \o data = <<<<k, 1>>>>
    OBVIOUS
  <2> QED BY <2>2, <2>3
<1>3. r.recv_buf = x.recv_buf \o data /\ Receiving(r)
  BY <1>1, <1>2 DEF RecvData, Receiving, Client
<1>4. ~Complete(r.recv_buf)
  <2> HIDE DEF r
  <2>1. \A i \in DOMAIN r.recv_buf : r.recv_buf[i][2] = 1
    <3>1. CASE r.recv_buf = <<>>
      BY <3>1
    <3>2. CASE r.recv_buf = <<<<k, 1>>>>
      BY <3>2
    <3> QED BY <1>3, <3>1, <3>2
  <2> QED BY <2>1 DEF Complete, Ends
<1>5. ReceiveRequests(x, data) = r
  BY <1>4 DEF ReceiveRequests
<1> HIDE DEF r
<1> QED BY <1>3, <1>5

LEMMA ReceiveWhole ==
  ASSUME NEW x, Receiving(x), NEW data, NEW k \in AllKinds,
         Cat(x.recv_buf, data) = Text(k)
  PROVE  LET y == ReceiveRequests(x, data)
         IN Busy(y) /\ y.state = "SENDING_HEADERS" /\ y.status = StatusOf(k)
            /\ y.send_buf = Header(StatusOf(k))
<1> DEFINE r == RecvData(x, data)
           q == Parse(r)
<1>1. x.idle \in 0 .. Expire /\ 0 \in 0 .. Expire
  BY EventAssumption DEF Receiving, Client
<1>2. Text(k) \in Seq(Pieces)
  <2>1. <<k, 1>> \in Pieces /\ <<k, 2>> \in Pieces
    BY DEF Pieces
  <2> QED BY <2>1 DEF Text
<1>3. r.recv_buf = Text(k) /\ Receiving(r)
  BY <1>1, <1>2 DEF RecvData, Receiving, Client, Cat
<1>4. /\ Complete(r.recv_buf)
      /\ Split(r.recv_buf) = <<k>>
  BY <1>3, TextSplit
<1>5. /\ k = "bad" => {i \in 1 .. Len(<<k>>) : <<k>>[i] = "bad"} = {1}
      /\ k # "bad" => {i \in 1 .. Len(<<k>>) : <<k>>[i] = "bad"} = {}
      /\ Min({1}) = 1
  BY DEF Min
<1>6. /\ <<>> \o <<k>> = <<k>> /\ SubSeq(<<k>>, 1, 0) = <<>> /\ <<>> \o <<>> = <<>>
  OBVIOUS
<1>7. /\ StatusOf(k) \in Statuses
      /\ StatusOf(k) = OK <=> k = "found"
      /\ StatusOf("bad") \in Statuses
      /\ StatusOf("bad") # OK
  BY StatusKnown DEF AllKinds
<1>8. q = [r EXCEPT !.requests = IF k = "bad" THEN <<>> ELSE <<k>>,
                    !.status = IF k = "bad" THEN StatusOf("bad") ELSE OK]
  <2> HIDE DEF r
  <2>1. r.requests = <<>>
    BY <1>3 DEF Receiving
  <2>2. CASE k = "bad"
    <3> DEFINE ks == Split(r.recv_buf)
               bad == SelectInSeq(ks, LAMBDA z : z = "bad")
    <3>1. ks = <<k>>
      BY <1>4
    <3>2. {i \in 1 .. Len(ks) : ks[i] = "bad"} = {1}
      BY <1>5, <2>2, <3>1
    <3>3. bad = 1
      BY <1>5, <3>2 DEF SelectInSeq
    <3> DEFINE rs == r.requests \o IF bad = 0 THEN ks ELSE SubSeq(ks, 1, bad - 1)
               st == IF bad = 0 THEN OK ELSE StatusOf("bad")
    <3>4. q = [r EXCEPT !.requests = rs, !.status = st]
      BY DEF Parse
    <3> HIDE DEF ks, bad, q
    <3>5. rs = (IF k = "bad" THEN <<>> ELSE <<k>>)
      BY <1>6, <2>1, <2>2, <3>1, <3>3
    <3>6. st = IF k = "bad" THEN StatusOf("bad") ELSE OK
      BY <2>2, <3>3
    <3> HIDE DEF rs, st
    <3> QED BY <3>4, <3>5, <3>6
  <2>3. CASE k # "bad"
    BY <1>4, <1>5, <1>6, <2>1, <2>3 DEF Parse, SelectInSeq
  <2> QED BY <2>2, <2>3
<1>9. ReceiveRequests(x, data) = BuildHeader(q)
  BY <1>4 DEF ReceiveRequests
<1> HIDE DEF r, q
<1>10. /\ q \in Client /\ q.cur_request = 0
       /\ q.status = IF k = "bad" THEN StatusOf("bad") ELSE OK
       /\ q.requests = IF k = "bad" THEN <<>> ELSE <<k>>
  <2>1. /\ <<>> \in Seq(AllKinds) /\ <<k>> \in Seq(AllKinds) /\ OK \in Statuses
    BY DEF Statuses
  <2> QED BY <1>3, <1>7, <1>8, <2>1 DEF Receiving, Client
<1>11. (IF q.status = OK THEN StatusOf(q.requests[q.cur_request + 1]) ELSE q.status)
         = StatusOf(k)
  BY <1>7, <1>10
<1>12. Header(StatusOf(k)) \in Seq(Units) /\ Len(q.requests) <= 1
  BY <1>7, <1>10, UnitsOf
<1>13. BuildHeader(q) = [q EXCEPT !.status = StatusOf(k), !.send_buf = Header(StatusOf(k)),
                                  !.state = "SENDING_HEADERS", !.idle = 0]
  <2> DEFINE st == IF q.status = OK THEN StatusOf(q.requests[q.cur_request + 1]) ELSE q.status
  <2>1. st = StatusOf(k)
    BY <1>11
  <2>2. BuildHeader(q) = [q EXCEPT !.status = st, !.send_buf = Header(st),
                                   !.state = "SENDING_HEADERS", !.idle = 0]
    BY DEF BuildHeader
  <2> HIDE DEF st
  <2> QED BY <2>1, <2>2
<1>14. ReceiveRequests(x, data) = [q EXCEPT !.status = StatusOf(k), !.idle = 0,
                    !.send_buf = Header(StatusOf(k)), !.state = "SENDING_HEADERS"]
  BY <1>9, <1>10, <1>13 DEF Client
<1> QED BY <1>1, <1>7, <1>10, <1>12, <1>14 DEF Busy, Client, States

\* What is still to be sent.
Rest(x) == IF x.state = "SENDING_HEADERS" THEN Cat(x.send_buf, After(x.status))
           ELSE IF x.state = "SENDING_BODY" THEN x.send_buf ELSE <<>>

LEMMA CatFacts ==
  ASSUME NEW T, NEW a \in Seq(T), NEW b \in Seq(T)
  PROVE  /\ Cat(a, b) \in Seq(T) /\ Len(Cat(a, b)) = Len(a) + Len(b)
         /\ Cat(a, <<>>) = a /\ Cat(<<>>, a) = a
<1>1. Cat(a, b) \in Seq(T) /\ Len(Cat(a, b)) = Len(a) + Len(b)
  BY DEF Cat
<1>2. Cat(a, <<>>) = a /\ Cat(<<>>, a) = a
  BY ConcatEmptySeq DEF Cat
<1> QED BY <1>1, <1>2

LEMMA CatRegroups ==
  ASSUME NEW T, NEW a \in Seq(T), NEW b \in Seq(T), NEW c \in Seq(T)
  PROVE  Cat(Cat(a, b), c) = Cat(a, Cat(b, c))
<1>1. /\ (a \o b) \o c \in Seq(T) /\ a \o (b \o c) \in Seq(T)
      /\ Len((a \o b) \o c) = Len(a) + Len(b) + Len(c)
      /\ Len(a \o (b \o c)) = Len(a) + Len(b) + Len(c)
  OBVIOUS
<1>2. \A i \in 1 .. Len(a) + Len(b) + Len(c) :
        ((a \o b) \o c)[i] = (a \o (b \o c))[i]
  OBVIOUS
<1>3. (a \o b) \o c = a \o (b \o c)
  BY <1>1, <1>2, SeqEqual
<1> QED BY <1>3 DEF Cat

\* send_data moves the beginning of send_buf to the socket, until that is full.
LEMMA SendDataMoves ==
  ASSUME NEW x \in Client, NEW w \in Seq(Units), Len(w) <= SndBuf
  PROVE  LET h == SendData([x |-> x, wire |-> w])
         IN /\ h = [x |-> h.x, wire |-> h.wire]
            /\ h.x \in Client /\ h.x = [x EXCEPT !.send_buf = h.x.send_buf]
            /\ h.wire \in Seq(Units) /\ Len(h.wire) <= SndBuf
            /\ Cat(h.wire, h.x.send_buf) = Cat(w, x.send_buf)
            /\ h.x.send_buf # <<>> => Len(h.wire) = SndBuf
<1> DEFINE h == SendData([x |-> x, wire |-> w])
           b == x.send_buf
           room == SndBuf - Len(w)
           n == IF room < Len(b) THEN room ELSE Len(b)
           rest == SubSeq(b, n + 1, Len(b))
           piece == SubSeq(b, 1, n)
<1>1. b \in Seq(Units) /\ Len(b) \in Nat /\ Len(w) \in Nat /\ SndBuf \in Nat
  BY EventAssumption DEF Client
<1>2. n \in 0 .. Len(b) /\ n <= SndBuf - Len(w) /\ (n < Len(b) => n = SndBuf - Len(w))
  BY <1>1
<1>3. h = [x |-> [x EXCEPT !.send_buf = rest], wire |-> w \o piece]
  BY DEF SendData
<1> HIDE DEF h, room, n
<1>4. /\ piece \in Seq(Units) /\ Len(piece) = n
      /\ rest \in Seq(Units) /\ Len(rest) = Len(b) - n
      /\ piece \o rest = b
  <2> HIDE DEF b
  <2>1. piece \in Seq(Units) /\ Len(piece) = n
    BY <1>1, <1>2
  <2>2. rest \in Seq(Units) /\ Len(rest) = Len(b) - n
    BY <1>1, <1>2
  <2>3. piece \o rest = b
    <3>1. 1 \in 1 .. Len(b) + 1 /\ n \in 1 - 1 .. Len(b) /\ Len(b) \in n .. Len(b)
      BY <1>1, <1>2
    <3>2. SubSeq(b, 1, n) \o SubSeq(b, n + 1, Len(b)) = SubSeq(b, 1, Len(b))
      BY <1>1, <3>1, ConcatAdjacentSubSeq, Zenon
    <3>3. SubSeq(b, 1, Len(b)) = b
      BY <1>1, SubSeqFull
    <3> QED BY <3>2, <3>3
  <2> QED BY <2>1, <2>2, <2>3
<1> HIDE DEF rest, piece
<1>5. h.x = [x EXCEPT !.send_buf = rest] /\ h.wire = w \o piece /\ h.x.send_buf = rest
  BY <1>3 DEF Client
<1>6. h.x \in Client
  BY <1>4, <1>5 DEF Client
<1>7. h.wire \in Seq(Units) /\ Len(h.wire) = Len(w) + n
  <2>1. piece \in Seq(Units)
    BY <1>4
  <2>2. w \o piece \in Seq(Units) /\ Len(w \o piece) = Len(w) + Len(piece)
    BY <2>1, ConcatProperties
  <2> QED BY <1>4, <1>5, <2>2
<1>8. Cat(h.wire, h.x.send_buf) = Cat(w, b)
  <2>1. piece \in Seq(Units) /\ rest \in Seq(Units) /\ Cat(piece, rest) = b
    BY <1>4 DEF Cat
  <2>2. Cat(Cat(w, piece), rest) = Cat(w, b)
    BY <2>1, CatRegroups
  <2>3. Cat(w, piece) = w \o piece
    BY DEF Cat
  <2> QED BY <1>5, <2>2, <2>3
<1>9. h.x.send_buf # <<>> => n < Len(b)
  <2>1. Len(b) = n => rest = <<>>
    BY <1>1, <1>2, <1>4
  <2> QED BY <1>1, <1>2, <1>5, <2>1
<1>10. h = [x |-> h.x, wire |-> h.wire]
  BY <1>3, <1>5
<1>11. /\ Len(h.wire) <= SndBuf
       /\ h.x.send_buf # <<>> => Len(h.wire) = SndBuf
  BY <1>1, <1>2, <1>7, <1>9
<1>12. h.x = [x EXCEPT !.send_buf = h.x.send_buf]
  BY <1>5
<1> QED BY <1>6, <1>7, <1>8, <1>10, <1>11, <1>12 DEF h, b

\* What send_responses leaves: the whole answer is in the socket and the client
\* turned round, or the socket is full.
Progressed(x, w, s) ==
  /\ s.wire \in Seq(Units) /\ Len(s.wire) <= SndBuf
  /\ Cat(s.wire, Rest(s.x)) = Cat(w, Rest(x))
  /\ \/ Receiving(s.x) /\ s.x.recv_buf = <<>>
     \/ Busy(s.x) /\ s.x.send_buf # <<>> /\ Len(s.wire) = SndBuf

\* From the body on.
Finish(h) ==
  LET b == SendData(h)
  IN IF b.x.state = "SENDING_BODY" /\ b.x.send_buf = <<>>
     THEN [b EXCEPT !.x = NextRequest(@)] ELSE b

LEMMA FinishProgresses ==
  ASSUME NEW x, Busy(x), x.state = "SENDING_BODY", NEW w \in Seq(Units), Len(w) <= SndBuf
  PROVE  Progressed(x, w, Finish([x |-> x, wire |-> w]))
<1> DEFINE b == SendData([x |-> x, wire |-> w])
           y == [b.x EXCEPT !.cur_request = 0, !.requests = <<>>, !.recv_buf = <<>>,
                            !.state = "RECEIVING_HEADERS"]
           s == Finish([x |-> x, wire |-> w])
<1>0. x \in Client
  BY DEF Busy
<1>1. /\ b = [x |-> b.x, wire |-> b.wire]
      /\ b.x \in Client /\ b.x = [x EXCEPT !.send_buf = b.x.send_buf]
      /\ b.wire \in Seq(Units) /\ Len(b.wire) <= SndBuf
      /\ Cat(b.wire, b.x.send_buf) = Cat(w, x.send_buf)
      /\ b.x.send_buf # <<>> => Len(b.wire) = SndBuf
  BY <1>0, SendDataMoves
<1>2. s = IF b.x.state = "SENDING_BODY" /\ b.x.send_buf = <<>>
          THEN [b EXCEPT !.x = NextRequest(b.x)] ELSE b
  BY DEF Finish
<1> HIDE DEF b, s
<1>3. Busy(b.x) /\ b.x.state = "SENDING_BODY"
  BY <1>0, <1>1 DEF Busy, Client
<1>4. Rest(x) = x.send_buf /\ Rest(b.x) = b.x.send_buf
  BY <1>3 DEF Rest
<1>5. CASE b.x.send_buf # <<>>
  <2>1. s = b
    BY <1>2, <1>5
  <2> QED BY <1>1, <1>3, <1>4, <1>5, <2>1 DEF Progressed, s
<1>6. CASE b.x.send_buf = <<>>
  <2>1. NextRequest(b.x) = y
    <3>1. b.x.cur_request = 0 /\ Len(b.x.requests) <= 1 /\ Len(b.x.requests) \in Nat
      BY <1>3 DEF Busy, Client
    <3> QED BY <3>1 DEF NextRequest
  <2>2. s.x = y /\ s.wire = b.wire
    BY <1>1, <1>2, <1>3, <1>6, <2>1
  <2>3. Receiving(y) /\ y.recv_buf = <<>>
    <3>1. b.x \in Client
      BY <1>1
    <3>2. "RECEIVING_HEADERS" \in States /\ <<>> \in Seq(AllKinds) /\ <<>> \in Seq(Pieces)
      BY DEF States
    <3> QED BY <3>1, <3>2 DEF Receiving, Client
  <2> HIDE DEF y
  <2>4. Rest(y) = <<>>
    BY <2>3 DEF Rest, Receiving
  <2> QED BY <1>1, <1>4, <1>6, <2>2, <2>3, <2>4 DEF Progressed, s
<1> QED BY <1>5, <1>6 DEF s

LEMMA SendProgresses ==
  ASSUME NEW x, Busy(x), NEW w \in Seq(Units), Len(w) <= SndBuf
  PROVE  Progressed(x, w, SendResponses([x |-> x, wire |-> w]))
<1> DEFINE s0 == [x |-> x, wire |-> w]
           h == SendHeaders(s0)
<1>0. x \in Client /\ x.status \in Statuses
  BY DEF Busy
<1>1. CASE x.state = "SENDING_BODY"
  <2>1. h = s0
    BY <1>1 DEF SendHeaders
  <2>2. SendResponses(s0) = Finish(s0)
    BY <1>1, <2>1 DEF SendResponses, Finish
  <2> QED BY <1>1, <2>2, FinishProgresses
<1>2. CASE x.state = "SENDING_HEADERS"
  <2> DEFINE d == SendData(s0)
             y == BuildBody(d.x)
             A == After(x.status)
  <2>1. /\ d = [x |-> d.x, wire |-> d.wire]
        /\ d.x \in Client /\ d.x = [x EXCEPT !.send_buf = d.x.send_buf]
        /\ d.wire \in Seq(Units) /\ Len(d.wire) <= SndBuf
        /\ Cat(d.wire, d.x.send_buf) = Cat(w, x.send_buf)
        /\ d.x.send_buf # <<>> => Len(d.wire) = SndBuf
    BY <1>0, SendDataMoves
  <2>2. h = IF d.x.send_buf = <<>> THEN [d EXCEPT !.x = BuildBody(d.x)] ELSE d
    BY <1>2 DEF SendHeaders
  <2> HIDE DEF d, h
  <2>3. Busy(d.x) /\ d.x.state = "SENDING_HEADERS" /\ d.x.status = x.status
    BY <1>0, <1>2, <2>1 DEF Busy, Client
  <2>4. A \in Seq(Units) /\ x.send_buf \in Seq(Units) /\ d.x.send_buf \in Seq(Units)
    BY <1>0, <2>1, UnitsOf DEF Client
  <2> HIDE DEF A
  <2>5. Rest(x) = Cat(x.send_buf, A)
    BY <1>2 DEF Rest, A
  <2>6. Cat(d.wire, Cat(d.x.send_buf, A)) = Cat(w, Rest(x))
    <3>1. d.wire \in Seq(Units)
      BY <2>1
    <3>2. Cat(Cat(d.wire, d.x.send_buf), A) = Cat(d.wire, Cat(d.x.send_buf, A))
      BY <2>4, <3>1, CatRegroups
    <3>3. Cat(Cat(w, x.send_buf), A) = Cat(w, Cat(x.send_buf, A))
      BY <2>4, CatRegroups
    <3> QED BY <2>1, <2>5, <3>2, <3>3
  <2>7. CASE d.x.send_buf # <<>>
    <3>1. SendResponses(s0) = d
      BY <2>2, <2>3, <2>7 DEF SendResponses, h
    <3>2. Rest(d.x) = Cat(d.x.send_buf, A)
      BY <2>3 DEF Rest, A
    <3>3. Cat(d.wire, Rest(d.x)) = Cat(w, Rest(x))
      BY <2>6, <3>2
    <3> QED BY <2>1, <2>3, <2>7, <3>1, <3>3 DEF Progressed
  <2>8. CASE d.x.send_buf = <<>>
    <3>1. h = [x |-> y, wire |-> d.wire]
      BY <2>1, <2>2, <2>8
    <3>2. Busy(y) /\ y.state = "SENDING_BODY" /\ y.send_buf = A
      <4>1. 0 \in 0 .. Expire
        BY EventAssumption
      <4>2. A = IF x.status = OK THEN Body ELSE <<>>
        BY DEF A, After
      <4> QED BY <2>3, <2>4, <4>1, <4>2 DEF BuildBody, Busy, Client, States
    <3> HIDE DEF y
    <3>3. h.x.state = "SENDING_BODY"
      BY <3>1, <3>2
    <3>4. SendResponses(s0) = Finish(h)
      BY <3>3 DEF SendResponses, Finish, h
    <3>5. Progressed(y, d.wire, Finish(h))
      BY <2>1, <3>1, <3>2, FinishProgresses
    <3>6. Rest(y) = A
      BY <3>2 DEF Rest
    <3>7. Cat(d.wire, Rest(y)) = Cat(w, Rest(x))
      <4>1. Cat(d.x.send_buf, A) = A
        BY <2>4, <2>8, CatFacts
      <4> QED BY <2>6, <3>6, <4>1
    <3> QED BY <3>4, <3>5, <3>7 DEF Progressed
  <2> QED BY <2>7, <2>8
<1> QED BY <1>1, <1>2 DEF Busy, Client, States

-----------------------------------------------------------------------------
(* The invariants *)

Patient == Clients \ Pipeliners

\* Each variable of the clients has a value for every client.
Shape ==
  /\ DOMAIN cl = Clients /\ DOMAIN conn = Clients /\ DOMAIN peer = Clients
  /\ DOMAIN inbox = Clients /\ DOMAIN wire = Clients /\ DOMAIN interest = Clients
  /\ DOMAIN sent = Clients /\ DOMAIN got = Clients
  /\ edge \in [Clients -> BOOLEAN] /\ nospace \in [Clients -> BOOLEAN]
  /\ half \in [Clients -> BOOLEAN]

\* The table, the registered connections and the batch of events.
TableInv ==
  /\ slots \in [Slots -> Clients \cup {NoClient}]
  /\ pc # "events" => DOMAIN events = {}
  /\ pc # "exit" =>
       /\ \A i, j \in Slots : slots[i] = slots[j] /\ slots[i] # NoClient => i = j
       /\ \A i \in Slots : slots[i] # NoClient => slots[i] \in Open
       /\ DOMAIN events \subseteq Open
       /\ Cardinality(Clients) <= MaxClients => \A c \in Open : Listed(c)

\* Nothing is on its way to the server.
AtRest(c) ==
  /\ Receiving(cl[c]) /\ cl[c].recv_buf = <<>> /\ inbox[c] = <<>> /\ ~half[c]
  /\ Cat(got[c], wire[c]) = Answers(sent[c])

\* The last request is on its way, or a part of it.
Underway(c) ==
  LET k == Last(sent[c]) IN
  /\ Receiving(cl[c]) /\ wire[c] = <<>> /\ sent[c] # <<>>
  /\ got[c] = Answers(Front(sent[c]))
  /\ \/ cl[c].recv_buf = <<>> /\ inbox[c] = IF half[c] THEN <<<<k, 1>>>> ELSE Text(k)
     \/ cl[c].recv_buf = <<<<k, 1>>>> /\ inbox[c] = IF half[c] THEN <<>> ELSE <<<<k, 2>>>>

\* Its answer is being sent.
Answering(c) ==
  /\ Busy(cl[c]) /\ cl[c].send_buf # <<>> /\ inbox[c] = <<>> /\ ~half[c]
  /\ Cat(Cat(got[c], wire[c]), Rest(cl[c])) = Answers(sent[c])

Typed(c) ==
  /\ sent[c] \in Seq(AllKinds) /\ got[c] \in Seq(Units)
  /\ wire[c] \in Seq(Units) /\ Len(wire[c]) <= SndBuf

Served(c) ==
  /\ Typed(c)
  /\ IsPrefix(Cat(got[c], wire[c]), Answers(sent[c]))
  /\ conn[c] \in {"new", "backlog", "open"} => AtRest(c) \/ Underway(c) \/ Answering(c)
  /\ conn[c] \in {"new", "backlog"} => cl[c] = NewClient /\ interest[c] = "in"

\* The event of c is still to be handled and has flag f.
Due(c, f) == c \in DOMAIN events /\ f \in events[c]

\* What NoLostEdge says, also while events are handled: an event of the batch
\* stands for the edge, and a hang-up that it does not show has left an edge.
Alert(c) ==
  conn[c] = "open" =>
    /\ interest[c] = IF Sending(c) THEN "out" ELSE "in"
    /\ ~Sending(c) /\ (inbox[c] # <<>> \/ peer[c] # "open") => edge[c] \/ Due(c, "in")
    /\ Sending(c) => \/ Due(c, "out")
                     \/ IF Full(c) THEN nospace[c] \/ edge[c] ELSE edge[c]
    /\ c \in DOMAIN events =>
         /\ Due(c, "in") <=> ~Sending(c)
         /\ Due(c, "out") => Sending(c)
         /\ peer[c] # "open" => edge[c] \/ Due(c, "rdhup")

IInv ==
  /\ Shape /\ TableInv
  /\ \A c \in Patient : Served(c)
  /\ IF alive THEN \A c \in Patient : Alert(c) ELSE pc = "events"

LEMMA InitIInv == Init => IInv
<1> SUFFICES ASSUME Init PROVE IInv
  OBVIOUS
<1>1. Shape
  BY DEF Init, Shape
<1>2. TableInv
  BY DEF Init, TableInv, Open
<1>3. ASSUME NEW c \in Patient PROVE Served(c) /\ Alert(c)
  <2>1. /\ c \in Clients /\ sent[c] = <<>> /\ got[c] = <<>> /\ wire[c] = <<>>
        /\ inbox[c] = <<>> /\ ~half[c] /\ cl[c] = NewClient /\ conn[c] = "new"
        /\ interest[c] = "in"
    BY DEF Init, Patient
  <2>2. Cat(<<>>, <<>>) = <<>>
    BY DEF Cat
  <2>3. AtRest(c)
    BY <2>1, <2>2, NoAnswers, NewReceives DEF AtRest
  <2>4. IsPrefix(<<>>, <<>>)
    BY DEF IsPrefix
  <2>5. SndBuf \in Nat /\ <<>> \in Seq(AllKinds) /\ <<>> \in Seq(Units) /\ Len(<<>>) = 0
    BY EventAssumption
  <2>6. Served(c)
    BY <2>1, <2>2, <2>3, <2>4, <2>5, NoAnswers DEF Served, Typed
  <2>7. Alert(c)
    BY <2>1 DEF Alert
  <2> QED BY <2>6, <2>7
<1>4. alive
  BY DEF Init
<1> QED BY <1>1, <1>2, <1>3, <1>4 DEF IInv

-----------------------------------------------------------------------------
(* Who is left alone by a step *)

SameClient(d) ==
  /\ cl'[d] = cl[d] /\ conn'[d] = conn[d] /\ peer'[d] = peer[d] /\ inbox'[d] = inbox[d]
  /\ wire'[d] = wire[d] /\ interest'[d] = interest[d] /\ edge'[d] = edge[d]
  /\ nospace'[d] = nospace[d] /\ sent'[d] = sent[d] /\ half'[d] = half[d] /\ got'[d] = got[d]

SameEvent(d) == /\ d \in DOMAIN events' <=> d \in DOMAIN events
                /\ d \in DOMAIN events => events'[d] = events[d]

\* The actions of client c and the server's actions on it.
Acts(c) ==
  \/ ClientStep(c)
  \/ AcceptClient(c) \/ NameFails(c) \/ Receive(c) \/ ReceiveEnds(c) \/ Send(c)
  \/ SendEnds(c) \/ SendKills(c) \/ HangUp(c) \/ SweepClient(c)

\* The server's steps that touch no client.
Turns == Loop \/ AcceptFails \/ EventsDone \/ SweepDone \/ Sigint

LEMMA StepKinds ==
  ASSUME Next
  PROVE  \/ \E c \in Clients : Acts(c)
         \/ Turns \/ WaitEvents \/ WaitTimeout \/ Exit \/ Tick
BY DEF Next, ServerStep, Acts, Turns

LEMMA SameServed ==
  ASSUME NEW d \in Clients, Served(d), cl'[d] = cl[d], conn'[d] = conn[d],
         inbox'[d] = inbox[d], wire'[d] = wire[d], interest'[d] = interest[d],
         sent'[d] = sent[d], half'[d] = half[d], got'[d] = got[d]
  PROVE  Served(d)'
BY DEF Served, Typed, AtRest, Underway, Answering

LEMMA SameAlert ==
  ASSUME NEW d \in Clients, SameClient(d), SameEvent(d), Alert(d)
  PROVE  Alert(d)'
BY DEF SameClient, SameEvent, Alert, Sending, Full, Due

LEMMA FreeOthers ==
  ASSUME Shape, NEW c \in Clients, NEW how, NEW w, Free(c, how, w),
         UNCHANGED <<peer, user>>, NEW d \in Clients, d # c
  PROVE  SameClient(d)
BY DEF Shape, Free, SameClient, user

\* The three ends of send_responses for client c, when it leaves s.
Drops(c, s) == HungUp(c, s.x) /\ Free(c, "closed", s.wire)

Keeps(c, s) == /\ ~HungUp(c, s.x)
               /\ cl' = [cl EXCEPT ![c] = s.x] /\ wire' = [wire EXCEPT ![c] = s.wire]
               /\ UNCHANGED <<inbox, conn, slots>>

TurnsRound(c, s) == Keeps(c, s) /\ s.x.state = "RECEIVING_HEADERS" /\ Rearm(c, "in")

GoesOn(c, s) ==
  /\ Keeps(c, s) /\ s.x.state # "RECEIVING_HEADERS"
  /\ nospace' = [nospace EXCEPT ![c] = @ \/ (s.x.send_buf # <<>> /\ Len(s.wire) = SndBuf)]
  /\ UNCHANGED <<interest, edge>>

LEMMA SendKinds ==
  ASSUME NEW c, Send(c)
  PROVE  /\ Event(c) /\ "out" \in events[c] /\ peer[c] # "gone"
         /\ UNCHANGED <<pc, running, alive, accepting, peer, user>>
         /\ \E s : /\ s = SendResponses([x |-> cl[c], wire |-> wire[c]])
                   /\ Drops(c, s) \/ TurnsRound(c, s) \/ GoesOn(c, s)
<1> DEFINE r == SendResponses([x |-> cl[c], wire |-> wire[c]])
<1>1. /\ Event(c) /\ "out" \in events[c] /\ peer[c] # "gone"
      /\ UNCHANGED <<pc, running, alive, accepting, peer, user>>
      /\ IF HungUp(c, r.x) THEN Free(c, "closed", r.wire)
         ELSE /\ cl' = [cl EXCEPT ![c] = r.x]
              /\ wire' = [wire EXCEPT ![c] = r.wire]
              /\ UNCHANGED <<inbox, conn, slots>>
              /\ IF r.x.state = "RECEIVING_HEADERS" THEN Rearm(c, "in")
                 ELSE /\ nospace' = [nospace EXCEPT ![c] =
                                       @ \/ (r.x.send_buf # <<>> /\ Len(r.wire) = SndBuf)]
                      /\ UNCHANGED <<interest, edge>>
  BY DEF Send
<1>2. r = SendResponses([x |-> cl[c], wire |-> wire[c]])
  OBVIOUS
<1> HIDE DEF r
<1>3. Drops(c, r) \/ TurnsRound(c, r) \/ GoesOn(c, r)
  BY <1>1, Zenon DEF Drops, TurnsRound, GoesOn, Keeps
<1> QED BY <1>1, <1>2, <1>3

LEMMA Others ==
  ASSUME Shape, NEW c \in Clients, Acts(c), NEW d \in Clients, d # c
  PROVE  SameClient(d) /\ SameEvent(d)
<1> USE DEF Shape, SameClient, SameEvent, server, epoll, user, clients
<1>1. CASE Connect(c)
  BY <1>1 DEF Connect
<1>2. ASSUME NEW k \in Kinds[c], SendHalf(c, k) PROVE SameClient(d) /\ SameEvent(d)
  BY <1>2 DEF SendHalf, Begin, Arrive
<1>3. ASSUME NEW k \in Kinds[c], SendRequest(c, k) PROVE SameClient(d) /\ SameEvent(d)
  BY <1>3 DEF SendRequest, Begin, Arrive
<1>4. CASE SendRest(c)
  BY <1>4 DEF SendRest, Arrive
<1>5. CASE Read(c)
  BY <1>5 DEF Read
<1>6. ASSUME NEW how, Leave(c, how) PROVE SameClient(d) /\ SameEvent(d)
  BY <1>6 DEF Leave
<1>7. CASE AcceptClient(c)
  BY <1>7 DEF AcceptClient
<1>8. CASE NameFails(c)
  BY <1>8 DEF NameFails
<1>9. CASE Receive(c)
  <2>1. SameEvent(d)
    BY <1>9 DEF Receive, Event
  <2>2. SameClient(d)
    BY <1>9 DEF Receive, Rearm
  <2> QED BY <2>1, <2>2
<1>10. CASE Send(c)
  <2>0. Event(c)
    BY <1>10, SendKinds
  <2>1. SameEvent(d)
    BY <2>0 DEF Event
  <2>2. PICK s : Drops(c, s) \/ TurnsRound(c, s) \/ GoesOn(c, s)
    BY <1>10, SendKinds
  <2>3. UNCHANGED <<peer, user>>
    BY <1>10, SendKinds
  <2>4. CASE Drops(c, s)
    BY <2>1, <2>3, <2>4, FreeOthers DEF Drops
  <2>5. CASE TurnsRound(c, s)
    BY <2>1, <2>3, <2>5 DEF TurnsRound, Keeps, Rearm
  <2>6. CASE GoesOn(c, s)
    BY <2>1, <2>3, <2>6 DEF GoesOn, Keeps
  <2> QED BY <2>2, <2>4, <2>5, <2>6
<1>11. CASE ReceiveEnds(c)
  <2>1. SameEvent(d)
    BY <1>11 DEF ReceiveEnds, Event
  <2> QED BY <1>11, <2>1, FreeOthers DEF ReceiveEnds
<1>12. CASE SendEnds(c)
  <2>1. SameEvent(d)
    BY <1>12 DEF SendEnds, Event
  <2> QED BY <1>12, <2>1, FreeOthers DEF SendEnds
<1>13. CASE SendKills(c) \/ HangUp(c)
  BY <1>13 DEF SendKills, HangUp, Event
<1>14. CASE SweepClient(c)
  <2>1. SameEvent(d)
    BY <1>14 DEF SweepClient
  <2> QED BY <1>14, <2>1, FreeOthers DEF SweepClient
<1> QED BY <1>1, <1>2, <1>3, <1>4, <1>5, <1>6, <1>7, <1>8, <1>9, <1>10, <1>11, <1>12,
           <1>13, <1>14 DEF Acts, ClientStep

\* The variables keep their domains.
LEMMA FreeShape ==
  ASSUME Shape, NEW c \in Clients, NEW how, NEW w, Free(c, how, w),
         UNCHANGED <<peer, user>>
  PROVE  Shape'
BY DEF Shape, Free, user

LEMMA ActsShape ==
  ASSUME Shape, NEW c \in Clients, Acts(c)
  PROVE  Shape'
<1> USE DEF server, epoll, user, clients
<1>1. CASE Connect(c)
  BY <1>1 DEF Connect, Shape
<1>2. ASSUME NEW k \in Kinds[c], SendHalf(c, k) PROVE Shape'
  BY <1>2 DEF SendHalf, Begin, Arrive, Shape
<1>3. ASSUME NEW k \in Kinds[c], SendRequest(c, k) PROVE Shape'
  BY <1>3 DEF SendRequest, Begin, Arrive, Shape
<1>4. CASE SendRest(c)
  BY <1>4 DEF SendRest, Arrive, Shape
<1>5. CASE Read(c)
  BY <1>5 DEF Read, Shape
<1>6. ASSUME NEW how, Leave(c, how) PROVE Shape'
  BY <1>6 DEF Leave, Shape
<1>7. CASE AcceptClient(c)
  BY <1>7 DEF AcceptClient, Shape
<1>8. CASE NameFails(c)
  BY <1>8 DEF NameFails, Shape
<1>9. CASE Receive(c)
  BY <1>9 DEF Receive, Rearm, Shape
<1>10. CASE Send(c)
  <2>1. PICK s : Drops(c, s) \/ TurnsRound(c, s) \/ GoesOn(c, s)
    BY <1>10, SendKinds
  <2>2. UNCHANGED <<peer, user>>
    BY <1>10, SendKinds
  <2>3. CASE Drops(c, s)
    BY <2>2, <2>3, FreeShape DEF Drops
  <2>4. CASE TurnsRound(c, s)
    BY <2>2, <2>4 DEF TurnsRound, Keeps, Rearm, Shape
  <2>5. CASE GoesOn(c, s)
    BY <2>2, <2>5 DEF GoesOn, Keeps, Shape
  <2> QED BY <2>1, <2>3, <2>4, <2>5
<1>11. CASE ReceiveEnds(c)
  BY <1>11, FreeShape DEF ReceiveEnds
<1>12. CASE SendEnds(c)
  BY <1>12, FreeShape DEF SendEnds
<1>13. CASE SendKills(c) \/ HangUp(c)
  BY <1>13 DEF SendKills, HangUp, Shape
<1>14. CASE SweepClient(c)
  BY <1>14, FreeShape DEF SweepClient
<1> QED BY <1>1, <1>2, <1>3, <1>4, <1>5, <1>6, <1>7, <1>8, <1>9, <1>10, <1>11, <1>12,
           <1>13, <1>14 DEF Acts, ClientStep

\* A turn of the loop.
LEMMA TurnsSame ==
  ASSUME Turns
  PROVE  /\ UNCHANGED <<clients, events, slots, alive>>
         /\ \A d \in Clients : SameClient(d) /\ SameEvent(d)
         /\ pc' = "events" => pc = "events"
         /\ pc = "events" /\ pc' # "events" => DOMAIN events = {}
         /\ pc = "exit" <=> pc' = "exit"
<1>1. UNCHANGED <<clients, events, slots, alive>>
  BY DEF Turns, Loop, AcceptFails, EventsDone, SweepDone, Sigint
<1>2. \A d \in Clients : SameClient(d) /\ SameEvent(d)
  BY <1>1 DEF SameClient, SameEvent, clients, epoll, user
<1>3. /\ pc' = "events" => pc = "events"
      /\ pc = "events" /\ pc' # "events" => DOMAIN events = {}
      /\ pc = "exit" <=> pc' = "exit"
  BY DEF Turns, Loop, AcceptFails, EventsDone, SweepDone, Sigint
<1> QED BY <1>1, <1>2, <1>3

LEMMA NextShape ==
  ASSUME Shape, [Next]_vars
  PROVE  Shape'
<1> USE DEF epoll, user, clients
<1>1. CASE UNCHANGED vars
  BY <1>1 DEF vars, Shape
<1>2. ASSUME NEW c \in Clients, Acts(c) PROVE Shape'
  BY <1>2, ActsShape
<1>3. CASE Turns
  <2>1. UNCHANGED clients
    BY <1>3, TurnsSame
  <2> QED BY <2>1 DEF Shape
<1>4. CASE WaitEvents \/ WaitTimeout
  <2>1. UNCHANGED <<cl, conn, peer, inbox, wire, interest, user>> /\ Polled
    BY <1>4 DEF WaitEvents, WaitTimeout
  <2> QED BY <2>1 DEF Polled, Shape
<1>5. CASE Exit
  BY <1>5 DEF Exit, Shape
<1>6. CASE Tick
  BY <1>6 DEF Tick, Shape
<1> QED BY <1>1, <1>2, <1>3, <1>4, <1>5, <1>6, StepKinds

-----------------------------------------------------------------------------
(* The table of clients *)

LEMMA TableFinite ==
  /\ Slots \subseteq Nat /\ IsFiniteSet(Slots) /\ Cardinality(Slots) = MaxClients
  /\ IsFiniteSet(Clients) /\ NoClient \notin Clients
<1>1. MaxClients \in Nat \ {0} /\ IsFiniteSet(Clients) /\ NoClient \notin Clients
  BY EventAssumption
<1>2. Slots \subseteq Nat
  BY <1>1 DEF Slots
<1>3. 0 \in Int /\ MaxClients - 1 \in Int
  BY <1>1
<1>4. /\ IsFiniteSet(0 .. MaxClients - 1)
      /\ Cardinality(0 .. MaxClients - 1)
           = IF 0 > MaxClients - 1 THEN 0 ELSE MaxClients - 1 - 0 + 1
  BY <1>3, FS_Interval
<1> QED BY <1>1, <1>2, <1>4 DEF Slots

\* There is a first free slot if any slot is free, and only one.
LEMMA FirstFree ==
  /\ (\E i \in Slots : slots[i] = NoClient) => \E i \in Slots : FreeSlot = {i}
  /\ \A i \in FreeSlot : i \in Slots /\ slots[i] = NoClient
  /\ \A i, j \in FreeSlot : i = j
<1>1. \A i \in FreeSlot : i \in Slots /\ slots[i] = NoClient
  BY DEF FreeSlot
<1>2. \A i, j \in FreeSlot : i = j
  <2> TAKE i, j \in FreeSlot
  <2>1. /\ i \in Nat /\ j \in Nat /\ slots[i] = NoClient /\ slots[j] = NoClient
        /\ \A l \in 0 .. i - 1 : slots[l] # NoClient
        /\ \A l \in 0 .. j - 1 : slots[l] # NoClient
    BY TableFinite DEF FreeSlot
  <2> QED BY <2>1
<1>3. ASSUME NEW k \in Slots, slots[k] = NoClient PROVE \E i \in Slots : FreeSlot = {i}
  <2> DEFINE S == {i \in Slots : slots[i] = NoClient}
  <2>1. S \in SUBSET Nat /\ S # {}
    BY <1>3, TableFinite
  <2>2. PICK i \in S : \A j \in S : i <= j
    <3> HIDE DEF S
    <3> QED BY <2>1, LeastNat
  <2>3. i \in Nat /\ i \in Slots /\ slots[i] = NoClient
    BY <2>1, <2>2
  <2>4. \A j \in 0 .. i - 1 : j \in Slots /\ ~(i <= j)
    BY <2>3, EventAssumption DEF Slots
  <2>5. i \in FreeSlot
    BY <2>2, <2>3, <2>4 DEF FreeSlot
  <2> QED BY <1>2, <2>3, <2>5
<1> QED BY <1>1, <1>2, <1>3

\* If there are no more clients than slots, a client that is accepted finds one.
LEMMA SlotForNew ==
  ASSUME TableInv, pc # "exit", Cardinality(Clients) <= MaxClients,
         NEW c \in Clients, c \notin Open
  PROVE  \E i \in Slots : slots[i] = NoClient
<1> SUFFICES ASSUME \A i \in Slots : slots[i] # NoClient PROVE FALSE
  OBVIOUS
<1> DEFINE S == Clients \ {c}
<1>1. \A i \in Slots : slots[i] \in S
  BY DEF TableInv, Open
<1>2. slots \in [Slots -> S]
  BY <1>1 DEF TableInv
<1>3. /\ IsFiniteSet(S) /\ Cardinality(S) = Cardinality(Clients) - 1
      /\ Cardinality(Clients) \in Nat
  BY TableFinite, FS_RemoveElement, FS_CardinalityType
<1> HIDE DEF S
<1>4. Cardinality(S) < Cardinality(Slots)
  BY <1>3, TableFinite, EventAssumption
<1>5. \E i, j \in Slots : i # j /\ slots[i] = slots[j]
  BY <1>2, <1>3, <1>4, TableFinite, FS_PigeonHole
<1> QED BY <1>5 DEF TableInv

\* A step that leaves the slots and the open clients.
LEMMA QuietTable ==
  ASSUME TableInv, slots' = slots, Open' = Open, DOMAIN events' \subseteq DOMAIN events,
         pc' # "events" => DOMAIN events' = {}, pc' # "exit" => pc # "exit"
  PROVE  TableInv'
BY DEF TableInv, Listed

LEMMA FreeTable ==
  ASSUME Shape, TableInv, NEW c \in Clients, NEW how, how # "open", NEW w, Free(c, how, w),
         pc # "exit", pc' = pc, DOMAIN events' \subseteq DOMAIN events \ {c}
  PROVE  TableInv'
<1>1. Open' = Open \ {c}
  BY DEF Free, Open, Shape
<1>2. /\ slots' \in [Slots -> Clients \cup {NoClient}]
      /\ \A i \in Slots : slots'[i] = IF slots[i] = c THEN NoClient ELSE slots[i]
  BY DEF Free, TableInv
<1>3. c # NoClient
  BY TableFinite
<1>4. /\ \A i, j \in Slots : slots'[i] = slots'[j] /\ slots'[i] # NoClient => i = j
      /\ \A i \in Slots : slots'[i] # NoClient => slots'[i] \in Open'
  BY <1>1, <1>2, <1>3 DEF TableInv
<1>5. /\ pc' # "events" => DOMAIN events' = {}
      /\ DOMAIN events' \subseteq Open'
  BY <1>1 DEF TableInv
<1>6. ASSUME Cardinality(Clients) <= MaxClients, NEW d \in Open' PROVE Listed(d)'
  <2>1. d \in Open /\ d # c
    BY <1>1, <1>6
  <2>2. PICK i \in Slots : slots[i] = d
    BY <1>6, <2>1 DEF TableInv, Listed
  <2>3. slots'[i] = d
    BY <1>2, <2>1, <2>2
  <2> QED BY <2>3 DEF Listed
<1> QED BY <1>2, <1>4, <1>5, <1>6 DEF TableInv

LEMMA AcceptTable ==
  ASSUME Shape, TableInv, NEW c \in Clients, AcceptClient(c)
  PROVE  TableInv'
<1>1. /\ Open' = Open \cup {c} /\ c \notin Open /\ c # NoClient
      /\ pc' = pc /\ pc = "events" /\ events' = events
  BY TableFinite DEF AcceptClient, Backlog, Open, Shape
<1>2. /\ slots' \in [Slots -> Clients \cup {NoClient}]
      /\ \A i \in Slots : slots'[i] = IF i \in FreeSlot THEN c ELSE slots[i]
  BY DEF AcceptClient, TableInv
<1>3. \A i \in Slots : slots[i] # c
  BY <1>1 DEF TableInv
<1>4. \A i, j \in Slots : slots'[i] = slots'[j] /\ slots'[i] # NoClient => i = j
  BY <1>1, <1>2, <1>3, FirstFree DEF TableInv
<1>5. \A i \in Slots : slots'[i] # NoClient => slots'[i] \in Open'
  BY <1>1, <1>2 DEF TableInv
<1>6. ASSUME Cardinality(Clients) <= MaxClients, NEW d \in Open' PROVE Listed(d)'
  <2>1. CASE d = c
    <3>1. \E i \in Slots : slots[i] = NoClient
      BY <1>1, <1>6, SlotForNew
    <3>2. PICK i \in Slots : i \in FreeSlot
      BY <3>1, FirstFree
    <3>3. slots'[i] = c
      BY <1>2, <3>2
    <3> QED BY <2>1, <3>3 DEF Listed
  <2>2. CASE d # c
    <3>1. PICK i \in Slots : slots[i] = d
      BY <1>1, <1>6, <2>2 DEF TableInv, Listed
    <3>2. d # NoClient
      BY <1>1, <2>2, TableFinite DEF Open
    <3>3. slots'[i] = d
      BY <1>2, <3>1, <3>2, FirstFree
    <3> QED BY <3>3 DEF Listed
  <2> QED BY <2>1, <2>2
<1>7. DOMAIN events' \subseteq Open'
  BY <1>1 DEF TableInv
<1> QED BY <1>1, <1>2, <1>4, <1>5, <1>6, <1>7 DEF TableInv

LEMMA NextTable ==
  ASSUME Shape, TableInv, [Next]_vars
  PROVE  TableInv'
<1> USE DEF server, clients, epoll, user
<1>1. CASE UNCHANGED vars
  BY <1>1, QuietTable DEF vars, Open, TableInv
<1>2. ASSUME NEW c \in Clients, Acts(c) PROVE TableInv'
  <2>1. CASE ClientStep(c)
    <3>1. UNCHANGED server /\ Open' = Open
      <4>1. CASE Connect(c)
        BY <4>1 DEF Connect, Open, Shape
      <4>2. CASE SendRest(c) \/ Read(c) \/ Leave(c, "fin") \/ Leave(c, "gone")
        BY <4>2 DEF SendRest, Arrive, Read, Leave, Open
      <4>3. ASSUME NEW k \in Kinds[c], SendHalf(c, k) \/ SendRequest(c, k)
            PROVE  UNCHANGED server /\ Open' = Open
        BY <4>3 DEF SendHalf, SendRequest, Begin, Arrive, Open
      <4> QED BY <2>1, <4>1, <4>2, <4>3 DEF ClientStep
    <3> QED BY <3>1, QuietTable DEF TableInv
  <2>2. CASE AcceptClient(c)
    BY <2>2, AcceptTable
  <2>3. CASE NameFails(c)
    <3>1. Open' = Open
      BY <2>3 DEF NameFails, Backlog, Open, Shape
    <3> QED BY <2>3, <3>1, QuietTable DEF NameFails, TableInv
  <2>4. CASE \/ Receive(c) \/ SendKills(c) \/ HangUp(c)
             \/ \E s : Send(c) /\ (TurnsRound(c, s) \/ GoesOn(c, s))
    <3>1. UNCHANGED <<slots, conn, pc>>
      BY <2>4, SendKinds DEF Receive, SendKills, HangUp, TurnsRound, GoesOn, Keeps
    <3>2. Event(c)
      BY <2>4, SendKinds DEF Receive, SendKills, HangUp
    <3>3. DOMAIN events' \subseteq DOMAIN events /\ pc = "events"
      BY <3>2 DEF Event
    <3>4. Open' = Open
      BY <3>1 DEF Open
    <3> QED BY <3>1, <3>3, <3>4, QuietTable
  <2>5. CASE \/ ReceiveEnds(c) \/ SendEnds(c) \/ \E s : Send(c) /\ Drops(c, s)
    <3>1. Event(c) /\ pc' = pc
      BY <2>5, SendKinds DEF ReceiveEnds, SendEnds
    <3>2. \E w : Free(c, "closed", w)
      BY <2>5 DEF ReceiveEnds, SendEnds, Drops
    <3>3. DOMAIN events' \subseteq DOMAIN events \ {c} /\ pc = "events"
      BY <3>1 DEF Event
    <3> QED BY <3>1, <3>2, <3>3, FreeTable
  <2>6. CASE SweepClient(c)
    <3>1. pc' = pc /\ pc = "sweep" /\ events' = events /\ Free(c, "expired", wire[c])
      BY <2>6 DEF SweepClient
    <3>2. DOMAIN events = {}
      BY <3>1 DEF TableInv
    <3> QED BY <3>1, <3>2, FreeTable
  <2>7. Send(c) => \E s : Drops(c, s) \/ TurnsRound(c, s) \/ GoesOn(c, s)
    BY SendKinds
  <2> QED BY <1>2, <2>1, <2>2, <2>3, <2>4, <2>5, <2>6, <2>7 DEF Acts
<1>3. CASE Turns
  <2>1. /\ slots' = slots /\ events' = events /\ conn' = conn
        /\ pc' = "events" => pc = "events"
        /\ pc = "events" /\ pc' # "events" => DOMAIN events = {}
        /\ pc = "exit" <=> pc' = "exit"
    BY <1>3, TurnsSame
  <2>2. Open' = Open
    BY <2>1 DEF Open
  <2>3. pc' # "events" => DOMAIN events' = {}
    BY <2>1 DEF TableInv
  <2> QED BY <2>1, <2>2, <2>3, QuietTable
<1>4. CASE WaitEvents
  <2>1. /\ slots' = slots /\ conn' = conn /\ pc = "wait" /\ pc' = "events"
        /\ DOMAIN events' = Ready
    BY <1>4 DEF WaitEvents
  <2>2. Open' = Open /\ Ready \subseteq Open
    BY <2>1 DEF Open, Ready
  <2> QED BY <2>1, <2>2 DEF TableInv, Listed
<1>5. CASE WaitTimeout
  <2>1. slots' = slots /\ conn' = conn /\ pc = "wait" /\ pc' = "sweep" /\ events' = events
    BY <1>5 DEF WaitTimeout
  <2>2. Open' = Open
    BY <2>1 DEF Open
  <2> QED BY <2>1, <2>2, QuietTable DEF TableInv
<1>6. CASE Exit
  BY <1>6 DEF Exit, TableInv
<1>7. CASE Tick
  <2>1. UNCHANGED server /\ conn' = conn
    BY <1>7 DEF Tick
  <2>2. Open' = Open
    BY <2>1 DEF Open
  <2> QED BY <2>1, <2>2, QuietTable DEF TableInv
<1> QED BY <1>1, <1>2, <1>3, <1>4, <1>5, <1>6, <1>7, StepKinds

LEMMA TableIsExact == TableInv => TableExact
<1> SUFFICES ASSUME TableInv, pc # "exit", NEW c \in Clients
             PROVE  LET n == Cardinality({i \in Slots : slots[i] = c})
                    IN IF c \in Open
                       THEN n <= 1 /\ (Cardinality(Clients) <= MaxClients => n = 1)
                       ELSE n = 0
  BY DEF TableInv, TableExact
<1> DEFINE S == {i \in Slots : slots[i] = c}
<1>1. c # NoClient
  BY TableFinite
<1>2. \A i, j \in S : i = j
  BY <1>1 DEF TableInv
<1>3. CASE S = {}
  <2>1. Cardinality(S) = 0
    BY <1>3, FS_EmptySet
  <2>2. c \in Open => ~(Cardinality(Clients) <= MaxClients)
    BY <1>3 DEF TableInv, Listed
  <2> QED BY <2>1, <2>2
<1>4. ASSUME NEW i \in S PROVE Cardinality(S) = 1 /\ c \in Open
  <2>1. S = {i}
    BY <1>2, <1>4
  <2>2. c \in Open
    BY <1>1, <1>4 DEF TableInv
  <2> QED BY <2>1, <2>2, FS_Singleton
<1> QED BY <1>3, <1>4

\* The table of clients agrees with the registered connections (http_server.c:196-255):
\* one slot for a client, if there is one, and none for a client that is freed.
THEOREM TableIsKept == Spec => []TableExact
<1>1. Init => Shape /\ TableInv
  BY InitIInv DEF IInv
<1>2. Shape /\ TableInv /\ [Next]_vars => (Shape /\ TableInv)'
  BY NextShape, NextTable
<1> QED BY <1>1, <1>2, TableIsExact, PTL DEF Spec

-----------------------------------------------------------------------------
(* A client that waits for each answer: what it and the server have done *)

LEMMA SentLast ==
  ASSUME NEW s \in Seq(AllKinds), s # <<>>
  PROVE  /\ Front(s) \in Seq(AllKinds) /\ Last(s) \in AllKinds
         /\ Answers(s) = Cat(Answers(Front(s)), Answer(Last(s)))
<1>1. PICK t \in Seq(AllKinds), k \in AllKinds : s = Append(t, k)
  BY SequenceEmptyOrAppend
<1>2. Front(Append(t, k)) = t /\ Last(Append(t, k)) = k
  BY DEF Front, Last
<1>3. Answers(Append(t, k)) = Cat(Answers(t), Answer(k))
  BY AnswersAppend DEF Cat
<1> QED BY <1>1, <1>2, <1>3

LEMMA SentMore ==
  ASSUME NEW s \in Seq(AllKinds), NEW k \in AllKinds
  PROVE  /\ Append(s, k) \in Seq(AllKinds) /\ Append(s, k) # <<>>
         /\ Front(Append(s, k)) = s /\ Last(Append(s, k)) = k
BY DEF Front, Last

LEMMA PrefixOfCat ==
  ASSUME NEW T, NEW a \in Seq(T), NEW b \in Seq(T)
  PROVE  IsPrefix(a, Cat(a, b)) /\ IsPrefix(a, a)
<1>1. IsPrefix(a, a \o b)
  BY PrefixOfConcat
<1>2. IsPrefix(a, a)
  BY DEF IsPrefix
<1> QED BY <1>1, <1>2 DEF Cat

\* Busy with something to send: something is to be sent.
LEMMA RestIs ==
  ASSUME NEW x, Busy(x)
  PROVE  Rest(x) \in Seq(Units) /\ (x.send_buf # <<>> => Len(Rest(x)) >= 1)
<1>1. x.send_buf \in Seq(Units) /\ After(x.status) \in Seq(Units)
  BY UnitsOf DEF Busy, Client
<1>2. /\ Cat(x.send_buf, After(x.status)) \in Seq(Units)
      /\ Len(Cat(x.send_buf, After(x.status))) = Len(x.send_buf) + Len(After(x.status))
  BY <1>1, CatFacts
<1>3. Len(x.send_buf) \in Nat /\ Len(After(x.status)) \in Nat
  BY <1>1
<1>4. x.send_buf # <<>> => Len(x.send_buf) >= 1
  BY <1>1
<1> QED BY <1>1, <1>2, <1>3, <1>4 DEF Rest, Busy, Client, States

\* In each of the three situations the client has the beginning of its answers.
LEMMA RightSoFar ==
  ASSUME NEW c, Typed(c), AtRest(c) \/ Underway(c) \/ Answering(c)
  PROVE  IsPrefix(Cat(got[c], wire[c]), Answers(sent[c]))
<1>1. Cat(got[c], wire[c]) \in Seq(Units) /\ Cat(got[c], <<>>) = got[c]
  BY CatFacts DEF Typed
<1>2. CASE AtRest(c)
  BY <1>1, <1>2, PrefixOfCat DEF AtRest
<1>3. CASE Underway(c)
  <2>1. Answers(sent[c]) = Cat(got[c], Answer(Last(sent[c]))) /\ Last(sent[c]) \in AllKinds
    BY <1>3, SentLast DEF Typed, Underway
  <2>2. Answer(Last(sent[c])) \in Seq(Units) /\ got[c] \in Seq(Units)
    BY <2>1, AnswerIs DEF Typed
  <2>3. IsPrefix(got[c], Cat(got[c], Answer(Last(sent[c]))))
    BY <2>2, PrefixOfCat
  <2>4. Cat(got[c], wire[c]) = got[c]
    BY <1>1, <1>3 DEF Underway
  <2> QED BY <2>1, <2>3, <2>4
<1>4. CASE Answering(c)
  <2>1. Rest(cl[c]) \in Seq(Units)
    BY <1>4, RestIs DEF Answering
  <2> QED BY <1>1, <1>4, <2>1, PrefixOfCat DEF Answering
<1> QED BY <1>2, <1>3, <1>4

\* Sequences that have been concatenated and are no longer.
LEMMA NothingAdded ==
  ASSUME NEW T, NEW a \in Seq(T), NEW b \in Seq(T), Len(Cat(a, b)) <= Len(a)
  PROVE  b = <<>>
<1>1. Len(Cat(a, b)) = Len(a) + Len(b)
  BY CatFacts
<1>2. Len(a) \in Nat /\ Len(b) \in Nat
  OBVIOUS
<1>3. Len(b) = 0
  BY <1>1, <1>2
<1> QED BY <1>3

LEMMA CatLonger ==
  ASSUME NEW T, NEW a \in Seq(T), NEW b \in Seq(T)
  PROVE  Len(a) <= Len(Cat(a, b))
<1>1. Len(Cat(a, b)) = Len(a) + Len(b)
  BY CatFacts
<1>2. Len(a) \in Nat /\ Len(b) \in Nat
  OBVIOUS
<1> QED BY <1>1, <1>2

\* A client that has read all it is owed is at rest, and nothing is on its way.
LEMMA AllRead ==
  ASSUME NEW c, Typed(c), AtRest(c) \/ Underway(c) \/ Answering(c),
         got[c] = Answers(sent[c])
  PROVE  AtRest(c) /\ wire[c] = <<>>
<1>1. got[c] \in Seq(Units) /\ wire[c] \in Seq(Units) /\ Len(got[c]) \in Nat
  BY DEF Typed
<1>2. CASE AtRest(c)
  <2>1. Cat(got[c], wire[c]) = got[c]
    BY <1>2 DEF AtRest
  <2>2. wire[c] = <<>>
    BY <1>1, <2>1, NothingAdded
  <2> QED BY <1>2, <2>2
<1>3. CASE Underway(c)
  <2> DEFINE a == Answer(Last(sent[c]))
  <2>1. Cat(got[c], a) = got[c] /\ Last(sent[c]) \in AllKinds
    BY <1>3, SentLast DEF Typed, Underway
  <2>2. a \in Seq(Units) /\ Len(a) >= 1
    BY <2>1, AnswerIs
  <2> HIDE DEF a
  <2>3. a = <<>>
    BY <1>1, <2>1, <2>2, NothingAdded
  <2> QED BY <2>2, <2>3
<1>4. CASE Answering(c)
  <2> DEFINE g == Cat(got[c], wire[c])
             r == Rest(cl[c])
  <2>1. r \in Seq(Units) /\ Len(r) >= 1
    BY <1>4, RestIs DEF Answering
  <2>2. g \in Seq(Units) /\ Len(got[c]) <= Len(g)
    BY <1>1, CatFacts, CatLonger
  <2>3. Cat(g, r) = got[c]
    BY <1>4 DEF Answering
  <2> HIDE DEF r, g
  <2>4. Len(Cat(g, r)) <= Len(g)
    <3>1. Len(got[c]) <= Len(g)
      BY <2>2
    <3> QED BY <2>3, <3>1
  <2>5. r = <<>>
    BY <2>1, <2>2, <2>4, NothingAdded
  <2> QED BY <2>1, <2>5
<1> QED BY <1>2, <1>3, <1>4

-----------------------------------------------------------------------------
(* Served, step by step *)

\* A client that is being served.
Fits(c) == Typed(c) /\ (AtRest(c) \/ Underway(c) \/ Answering(c))

Right == \A c \in Clients : Fits(c) => IsPrefix(Cat(got[c], wire[c]), Answers(sent[c]))

LEMMA FitsRight == Right
BY RightSoFar DEF Right, Fits

LEMMA FitsRightNext == Right'
BY FitsRight, PTL

LEMMA StillServed ==
  ASSUME NEW c \in Clients, Fits(c)',
         conn'[c] \in {"new", "backlog"} => cl'[c] = NewClient /\ interest'[c] = "in"
  PROVE  Served(c)'
BY FitsRightNext DEF Right, Served, Fits

\* The server has forgotten the client, which has the beginning of its answers.
LEMMA StillRight ==
  ASSUME NEW c \in Clients, Typed(c)', conn'[c] \notin {"new", "backlog", "open"},
         IsPrefix(Cat(got[c], wire[c]), Answers(sent[c]))'
  PROVE  Served(c)'
BY DEF Served

LEMMA SameFits ==
  ASSUME NEW d \in Clients, Fits(d), cl'[d] = cl[d], inbox'[d] = inbox[d],
         wire'[d] = wire[d], sent'[d] = sent[d], half'[d] = half[d], got'[d] = got[d]
  PROVE  Fits(d)'
BY DEF Fits, Typed, AtRest, Underway, Answering

LEMMA ReadMoves ==
  ASSUME NEW T, NEW g \in Seq(T), NEW w \in Seq(T), w # <<>>
  PROVE  /\ Append(g, Head(w)) \in Seq(T) /\ Tail(w) \in Seq(T) /\ Len(Tail(w)) = Len(w) - 1
         /\ Cat(Append(g, Head(w)), Tail(w)) = Cat(g, w)
<1>1. Head(w) \in T /\ Tail(w) \in Seq(T) /\ Len(Tail(w)) = Len(w) - 1
  OBVIOUS
<1>2. Append(g, Head(w)) \in Seq(T)
  BY <1>1
<1>3. Append(g, Head(w)) \o Tail(w) = g \o w
  OBVIOUS
<1> QED BY <1>1, <1>2, <1>3 DEF Cat

LEMMA BeginServed ==
  ASSUME Shape, NEW c \in Patient, Served(c), NEW k \in Kinds[c], Begin(c, k),
         UNCHANGED <<wire, got, cl, conn, interest>>,
         \/ half' = [half EXCEPT ![c] = TRUE] /\ inbox' = [inbox EXCEPT ![c] = @ \o <<<<k, 1>>>>]
         \/ half' = half /\ inbox' = [inbox EXCEPT ![c] = @ \o Text(k)]
  PROVE  Served(c)'
<1>1. c \in Clients /\ c \notin Pipeliners /\ k \in AllKinds
  BY EventAssumption DEF Patient
<1>2. /\ Up(c) /\ ~half[c] /\ got[c] = Answers(sent[c])
      /\ sent' = [sent EXCEPT ![c] = Append(@, k)]
  BY <1>1 DEF Begin
<1>3. Typed(c) /\ (AtRest(c) \/ Underway(c) \/ Answering(c))
  BY <1>2 DEF Served, Up
<1>4. AtRest(c) /\ wire[c] = <<>>
  BY <1>2, <1>3, AllRead
<1>5. /\ sent[c] \in Seq(AllKinds) /\ sent'[c] = Append(sent[c], k)
      /\ wire'[c] = wire[c] /\ got'[c] = got[c] /\ cl'[c] = cl[c]
  BY <1>1, <1>2, <1>3 DEF Shape, Typed
<1>6. /\ sent'[c] \in Seq(AllKinds) /\ sent'[c] # <<>>
      /\ Front(sent'[c]) = sent[c] /\ Last(sent'[c]) = k
  BY <1>1, <1>5, SentMore
<1>7. Typed(c)'
  BY <1>3, <1>5, <1>6 DEF Typed
<1>8. inbox[c] = <<>> /\ <<>> \o <<<<k, 1>>>> = <<<<k, 1>>>> /\ <<>> \o Text(k) = Text(k)
  BY <1>4 DEF AtRest, Text
<1>9. inbox'[c] = IF half'[c] THEN <<<<k, 1>>>> ELSE Text(k)
  BY <1>1, <1>2, <1>8 DEF Shape
<1>10. Underway(c)'
  BY <1>2, <1>4, <1>5, <1>6, <1>9 DEF Underway, AtRest
<1> QED BY <1>1, <1>7, <1>10, StillServed DEF Fits, Served

LEMMA Joined ==
  ASSUME NEW a, NEW b
  PROVE  <<a>> \o <<b>> = <<a, b>> /\ <<>> \o <<b>> = <<b>> /\ <<a>> \o <<>> = <<a>>
<1>1. <<a>> \in Seq({a, b}) /\ <<b>> \in Seq({a, b})
  OBVIOUS
<1>2. <<>> \o <<b>> = <<b>> /\ <<a>> \o <<>> = <<a>>
  BY <1>1, ConcatEmptySeq
<1>3. <<a>> \o <<b>> = Append(<<a>>, b)
  BY <1>1, AppendIsConcat
<1>4. /\ Append(<<a>>, b) \in Seq({a, b}) /\ Len(Append(<<a>>, b)) = 2
      /\ Append(<<a>>, b)[1] = a /\ Append(<<a>>, b)[2] = b
  BY <1>1, AppendProperties
<1>5. <<a, b>> \in Seq({a, b}) /\ Len(<<a, b>>) = 2 /\ <<a, b>>[1] = a /\ <<a, b>>[2] = b
  OBVIOUS
<1> DEFINE s == Append(<<a>>, b)
           t == <<a, b>>
<1>6. s = t
  <2> HIDE DEF s, t
  <2>1. \A i \in 1 .. Len(s) : s[i] = t[i]
    BY <1>4, <1>5 DEF s, t
  <2> QED BY <1>4, <1>5, <2>1, SeqEqual DEF s, t
<1> QED BY <1>2, <1>3, <1>6

LEMMA RestServed ==
  ASSUME Shape, NEW c \in Patient, Served(c), SendRest(c)
  PROVE  Served(c)'
<1> DEFINE k == Last(sent[c])
<1>1. c \in Clients
  BY DEF Patient
<1>2. /\ Up(c) /\ half[c] /\ sent' = sent /\ wire' = wire /\ got' = got
      /\ cl' = cl /\ conn' = conn /\ interest' = interest
      /\ half' = [half EXCEPT ![c] = FALSE]
      /\ inbox' = [inbox EXCEPT ![c] = @ \o <<<<k, 2>>>>]
  BY DEF SendRest, Arrive
<1>3. Typed(c) /\ Underway(c)
  BY <1>2 DEF Served, Up, AtRest, Answering
<1>4. half'[c] = FALSE /\ inbox'[c] = inbox[c] \o <<<<k, 2>>>>
  BY <1>1, <1>2 DEF Shape
<1>5. <<<<k, 1>>>> \o <<<<k, 2>>>> = Text(k) /\ <<>> \o <<<<k, 2>>>> = <<<<k, 2>>>>
  BY Joined DEF Text
<1>6. k = Last(sent'[c])
  BY <1>2
<1> HIDE DEF k
<1>7. \/ cl[c].recv_buf = <<>> /\ inbox[c] = <<<<k, 1>>>>
      \/ cl[c].recv_buf = <<<<k, 1>>>> /\ inbox[c] = <<>>
  BY <1>2, <1>3 DEF Underway, k
<1>8. \/ cl[c].recv_buf = <<>> /\ inbox'[c] = Text(k)
      \/ cl[c].recv_buf = <<<<k, 1>>>> /\ inbox'[c] = <<<<k, 2>>>>
  BY <1>4, <1>5, <1>7
<1>9. Underway(c)'
  BY <1>2, <1>3, <1>4, <1>6, <1>8 DEF Underway
<1>10. Typed(c)'
  BY <1>2, <1>3 DEF Typed
<1> QED BY <1>1, <1>2, <1>9, <1>10, StillServed DEF Fits, Served

LEMMA ReadServed ==
  ASSUME Shape, NEW c \in Patient, Served(c), Read(c)
  PROVE  Served(c)'
<1>1. c \in Clients /\ Typed(c)
  BY DEF Patient, Served
<1>2. /\ wire[c] # <<>> /\ sent' = sent /\ half' = half /\ inbox' = inbox
      /\ cl' = cl /\ conn' = conn /\ interest' = interest
      /\ got'[c] = Append(got[c], Head(wire[c])) /\ wire'[c] = Tail(wire[c])
  BY <1>1 DEF Read, Shape
<1>3. got[c] \in Seq(Units) /\ wire[c] \in Seq(Units)
  BY <1>1 DEF Typed
<1>4. /\ got'[c] \in Seq(Units) /\ wire'[c] \in Seq(Units)
      /\ Len(wire'[c]) = Len(wire[c]) - 1
      /\ Cat(got'[c], wire'[c]) = Cat(got[c], wire[c])
  BY <1>2, <1>3, ReadMoves
<1>5. Len(wire'[c]) <= SndBuf
  BY <1>1, <1>3, <1>4, EventAssumption DEF Typed
<1>6. Typed(c)'
  BY <1>1, <1>2, <1>4, <1>5 DEF Typed
<1>7. CASE AtRest(c) \/ Answering(c)
  <2>1. (AtRest(c) \/ Answering(c))'
    BY <1>2, <1>4, <1>7 DEF AtRest, Answering
  <2> QED BY <1>1, <1>2, <1>6, <2>1, StillServed DEF Fits, Served
<1>8. CASE Underway(c)
  BY <1>2, <1>8 DEF Underway
<1>9. CASE conn[c] \notin {"new", "backlog", "open"}
  <2>1. IsPrefix(Cat(got[c], wire[c]), Answers(sent[c]))'
    BY <1>2, <1>4 DEF Served
  <2> QED BY <1>1, <1>2, <1>6, <1>9, <2>1, StillRight
<1> QED BY <1>7, <1>8, <1>9 DEF Served

LEMMA ClientServed ==
  ASSUME Shape, NEW c \in Patient, Served(c), ClientStep(c)
  PROVE  Served(c)'
<1> USE DEF server, epoll, user
<1>1. c \in Clients
  BY DEF Patient
<1>2. CASE Connect(c)
  <2>1. /\ UNCHANGED <<cl, inbox, wire, interest, sent, half, got>>
        /\ conn[c] = "new"
    BY <1>2 DEF Connect
  <2>2. Fits(c) /\ cl[c] = NewClient /\ interest[c] = "in"
    BY <2>1 DEF Served, Fits
  <2>3. Fits(c)'
    BY <1>1, <2>1, <2>2, SameFits
  <2> QED BY <1>1, <2>1, <2>2, <2>3, StillServed
<1>3. CASE SendRest(c)
  BY <1>3, RestServed
<1>4. CASE Read(c)
  BY <1>4, ReadServed
<1>5. CASE Leave(c, "fin") \/ Leave(c, "gone")
  BY <1>1, <1>5, SameServed DEF Leave
<1>6. ASSUME NEW k \in Kinds[c], SendHalf(c, k) PROVE Served(c)'
  <2>1. /\ Begin(c, k) /\ UNCHANGED <<wire, got, cl, conn, interest>>
        /\ half' = [half EXCEPT ![c] = TRUE]
        /\ inbox' = [inbox EXCEPT ![c] = @ \o <<<<k, 1>>>>]
    BY <1>6 DEF SendHalf, Arrive
  <2> QED BY <2>1, BeginServed
<1>7. ASSUME NEW k \in Kinds[c], SendRequest(c, k) PROVE Served(c)'
  <2>1. /\ Begin(c, k) /\ UNCHANGED <<wire, got, cl, conn, interest>>
        /\ half' = half
        /\ inbox' = [inbox EXCEPT ![c] = @ \o Text(k)]
    BY <1>7 DEF SendRequest, Arrive, Text
  <2> QED BY <2>1, BeginServed
<1> QED BY <1>2, <1>3, <1>4, <1>5, <1>6, <1>7 DEF ClientStep

\* What a client is to get is a sequence of units while it is served.
LEMMA FitsAnswers ==
  ASSUME NEW c, Fits(c)
  PROVE  Answers(sent[c]) \in Seq(Units)
<1>1. got[c] \in Seq(Units) /\ wire[c] \in Seq(Units)
  BY DEF Fits, Typed
<1>2. Cat(got[c], wire[c]) \in Seq(Units)
  BY <1>1, CatFacts
<1>3. CASE AtRest(c)
  BY <1>2, <1>3 DEF AtRest
<1>4. CASE Underway(c)
  <2>1. /\ Answers(sent[c]) = Cat(got[c], Answer(Last(sent[c])))
        /\ Last(sent[c]) \in AllKinds
    BY <1>4, SentLast DEF Fits, Typed, Underway
  <2>2. Answer(Last(sent[c])) \in Seq(Units)
    BY <2>1, AnswerIs
  <2> QED BY <1>1, <2>1, <2>2, CatFacts
<1>5. CASE Answering(c)
  <2>1. Rest(cl[c]) \in Seq(Units)
    BY <1>5, RestIs DEF Answering
  <2>2. Cat(Cat(got[c], wire[c]), Rest(cl[c])) \in Seq(Units)
    BY <1>2, <2>1, CatFacts
  <2> QED BY <1>5, <2>2 DEF Answering
<1> QED BY <1>3, <1>4, <1>5 DEF Fits

\* A client that is freed keeps what the socket w has of its answers, or loses it.
LEMMA FreeServed ==
  ASSUME Shape, NEW c \in Clients, Typed(c), Answers(sent[c]) \in Seq(Units),
         NEW how, how \in {"closed", "expired"}, NEW w \in Seq(Units), Len(w) <= SndBuf,
         IsPrefix(Cat(got[c], w), Answers(sent[c])),
         Free(c, how, w), UNCHANGED user
  PROVE  Served(c)'
<1>1. /\ conn'[c] = how /\ sent' = sent /\ got' = got
      /\ wire'[c] = w \/ wire'[c] = <<>>
  BY DEF Free, Shape, user
<1>2. /\ got[c] \in Seq(Units) /\ sent[c] \in Seq(AllKinds)
      /\ <<>> \in Seq(Units) /\ Len(<<>>) = 0
  BY DEF Typed
<1>3. Len(Answers(sent[c])) \in Nat
  OBVIOUS
<1>4. IsPrefix(Cat(got[c], <<>>), Answers(sent[c]))
  <2>1. IsPrefix(got[c] \o w, Answers(sent[c]))
    BY DEF Cat
  <2>2. IsPrefix(got[c], Answers(sent[c]))
    BY <1>2, <1>3, <2>1, PrefixShorter
  <2>3. Cat(got[c], <<>>) = got[c]
    BY <1>2, CatFacts
  <2> QED BY <2>2, <2>3
<1>5. wire'[c] \in Seq(Units) /\ Len(wire'[c]) <= SndBuf
  <2>1. Len(<<>>) <= SndBuf
    BY <1>2, EventAssumption
  <2> QED BY <1>1, <1>2, <2>1
<1>6. Typed(c)'
  BY <1>1, <1>2, <1>5 DEF Typed
<1>7. IsPrefix(Cat(got[c], wire[c]), Answers(sent[c]))'
  BY <1>1, <1>4
<1> QED BY <1>1, <1>6, <1>7, StillRight

\* The same, for what the socket had.
LEMMA FreeAtOnce ==
  ASSUME Shape, TableInv, NEW c \in Patient, Served(c), c \in Open,
         NEW how, how \in {"closed", "expired"}, Free(c, how, wire[c]), UNCHANGED user
  PROVE  Served(c)'
<1>1. c \in Clients /\ Fits(c)
  BY DEF Patient, Open, Served, Fits
<1>2. Answers(sent[c]) \in Seq(Units)
  BY <1>1, FitsAnswers
<1>3. /\ Typed(c) /\ wire[c] \in Seq(Units) /\ Len(wire[c]) <= SndBuf
      /\ IsPrefix(Cat(got[c], wire[c]), Answers(sent[c]))
  BY DEF Served, Typed
<1> QED BY <1>1, <1>2, <1>3, FreeServed

LEMMA IdleOpen ==
  ASSUME TableInv, pc # "exit", NEW c \in Clients, Idle(c)
  PROVE  c \in Open
<1>1. PICK i \in Slots : slots[i] = c
  BY DEF Idle, Listed
<1> QED BY <1>1, TableFinite DEF TableInv

LEMMA AcceptServed ==
  ASSUME Shape, NEW c \in Patient, Served(c), AcceptClient(c) \/ NameFails(c)
  PROVE  Served(c)'
<1>1. c \in Clients /\ conn[c] = "backlog"
  BY DEF Patient, AcceptClient, NameFails, Backlog
<1>2. Fits(c) /\ cl[c] = NewClient
  BY <1>1 DEF Served, Fits
<1>3. CASE AcceptClient(c)
  <2>1. /\ UNCHANGED <<inbox, wire, sent, half, got>>
        /\ cl'[c] = cl[c] /\ conn'[c] = "open"
    BY <1>1, <1>2, <1>3 DEF AcceptClient, Shape, user
  <2>2. Fits(c)'
    BY <1>1, <1>2, <2>1, SameFits
  <2> QED BY <1>1, <2>1, <2>2, StillServed
<1>4. CASE NameFails(c)
  <2>1. UNCHANGED <<wire, sent, got>> /\ conn'[c] = "refused"
    BY <1>1, <1>4 DEF NameFails, Shape, user
  <2>2. Typed(c)' /\ IsPrefix(Cat(got[c], wire[c]), Answers(sent[c]))'
    BY <2>1 DEF Served, Typed
  <2> QED BY <1>1, <2>1, <2>2, StillRight
<1> QED BY <1>3, <1>4

LEMMA ReceiveServed ==
  ASSUME Shape, TableInv, NEW c \in Patient, Served(c), Alert(c), Receive(c)
  PROVE  Served(c)'
<1>1. c \in Clients /\ c \in Open /\ conn[c] = "open"
  <2>1. pc = "events" /\ c \in DOMAIN events
    BY DEF Receive, Event
  <2> QED BY <2>1 DEF TableInv, Open
<1>2. Fits(c) /\ Typed(c)
  BY <1>1 DEF Served, Fits
<1>3. Receiving(cl[c])
  <2>1. ~Sending(c)
    BY <1>1 DEF Receive, Event, Alert, Due
  <2> QED BY <1>2, <2>1 DEF Fits, AtRest, Underway, Answering, Busy, Client, States, Sending
<1>4. \E y : y = ReceiveRequests(cl[c], inbox[c])
  OBVIOUS
<1>5. PICK y : y = ReceiveRequests(cl[c], inbox[c])
  BY <1>4
<1>6. /\ cl'[c] = y /\ inbox'[c] = <<>> /\ wire' = wire /\ conn' = conn
      /\ sent' = sent /\ half' = half /\ got' = got
  BY <1>1, <1>5 DEF Receive, Shape, user
<1>7. Typed(c)'
  BY <1>2, <1>6 DEF Typed
<1>8. SUFFICES (AtRest(c) \/ Underway(c) \/ Answering(c))'
  BY <1>1, <1>6, <1>7, StillServed DEF Fits
<1>9. CASE AtRest(c)
  <2>1. cl[c].recv_buf \o inbox[c] = <<>>
    BY <1>9 DEF AtRest
  <2>2. Receiving(y) /\ y.recv_buf = <<>>
    <3>1. "bad" \in AllKinds
      BY DEF AllKinds
    <3> QED BY <1>3, <1>5, <2>1, <3>1, ReceiveHalf
  <2> QED BY <1>6, <1>9, <2>2 DEF AtRest
<1>10. CASE Underway(c)
  <2> DEFINE k == Last(sent[c])
             data == cl[c].recv_buf \o inbox[c]
  <2>1. k \in AllKinds /\ Answers(sent[c]) = Cat(got[c], Answer(k))
    BY <1>2, <1>10, SentLast DEF Typed, Underway
  <2>2. data = IF half[c] THEN <<<<k, 1>>>> ELSE Text(k)
    <3>1. \/ cl[c].recv_buf = <<>> /\ inbox[c] = IF half[c] THEN <<<<k, 1>>>> ELSE Text(k)
          \/ cl[c].recv_buf = <<<<k, 1>>>> /\ inbox[c] = IF half[c] THEN <<>> ELSE <<<<k, 2>>>>
      BY <1>10 DEF Underway
    <3>2. /\ <<>> \o <<<<k, 1>>>> = <<<<k, 1>>>> /\ <<<<k, 1>>>> \o <<>> = <<<<k, 1>>>>
          /\ <<<<k, 1>>>> \o <<<<k, 2>>>> = Text(k)
      BY Joined DEF Text
    <3>3. <<>> \o Text(k) = Text(k)
      BY DEF Text
    <3> HIDE DEF k
    <3> QED BY <3>1, <3>2, <3>3
  <2>3. k = Last(sent'[c])
    BY <1>6
  <2> HIDE DEF k
  <2>4. CASE half[c]
    <3>1. Receiving(y) /\ y.recv_buf = <<<<k, 1>>>>
      BY <1>3, <1>5, <2>1, <2>2, <2>4, ReceiveHalf
    <3> QED BY <1>6, <1>10, <2>3, <2>4, <3>1 DEF Underway
  <2>5. CASE ~half[c]
    <3>1. /\ Busy(y) /\ y.state = "SENDING_HEADERS" /\ y.status = StatusOf(k)
          /\ y.send_buf = Header(StatusOf(k))
      <4>1. Cat(cl[c].recv_buf, inbox[c]) = Text(k) /\ k \in AllKinds
        BY <2>1, <2>2, <2>5 DEF Cat
      <4> HIDE DEF data
      <4> QED BY <1>3, <1>5, <4>1, ReceiveWhole
    <3>2. Rest(y) = Answer(k)
      BY <2>1, <3>1, AnswerIs DEF Rest, Cat
    <3>3. Cat(got[c], wire[c]) = got[c]
      <4>1. got[c] \in Seq(Units)
        BY <1>2 DEF Typed
      <4> QED BY <1>10, <4>1, CatFacts DEF Underway
    <3>4. y.send_buf # <<>>
      BY <3>1 DEF Header
    <3> QED BY <1>6, <2>1, <2>5, <3>1, <3>2, <3>3, <3>4 DEF Answering
  <2> QED BY <2>4, <2>5
<1>11. CASE Answering(c)
  BY <1>3, <1>11 DEF Answering, Busy, Receiving
<1> QED BY <1>2, <1>9, <1>10, <1>11 DEF Fits

\* Of a client that is Due to be sent to, an answer is being sent.
LEMMA SendServed ==
  ASSUME Shape, TableInv, NEW c \in Patient, Served(c), Alert(c), Send(c)
  PROVE  Served(c)'
<1>1. c \in Clients /\ c \in Open /\ conn[c] = "open" /\ Due(c, "out")
  <2>1. Event(c) /\ "out" \in events[c]
    BY SendKinds
  <2> QED BY <2>1 DEF Event, TableInv, Open, Due
<1>2. Fits(c) /\ Typed(c)
  BY <1>1 DEF Served, Fits
<1>3. Answering(c)
  <2>1. Sending(c)
    BY <1>1 DEF Alert, Due
  <2> QED BY <1>2, <2>1 DEF Fits, AtRest, Underway, Receiving, Sending
<1>4. PICK s : /\ s = SendResponses([x |-> cl[c], wire |-> wire[c]])
               /\ Drops(c, s) \/ TurnsRound(c, s) \/ GoesOn(c, s)
  BY SendKinds
<1>5. UNCHANGED user
  BY SendKinds
<1>6. /\ s.wire \in Seq(Units) /\ Len(s.wire) <= SndBuf
      /\ Cat(s.wire, Rest(s.x)) = Cat(wire[c], Rest(cl[c]))
      /\ \/ Receiving(s.x) /\ s.x.recv_buf = <<>>
         \/ Busy(s.x) /\ s.x.send_buf # <<>> /\ Len(s.wire) = SndBuf
  <2>1. Busy(cl[c]) /\ wire[c] \in Seq(Units) /\ Len(wire[c]) <= SndBuf
    BY <1>2, <1>3 DEF Typed, Answering
  <2>2. Progressed(cl[c], wire[c], s)
    BY <1>4, <2>1, SendProgresses
  <2> QED BY <2>2 DEF Progressed
<1>7. got[c] \in Seq(Units) /\ wire[c] \in Seq(Units)
  BY <1>2 DEF Typed
<1>8. Rest(s.x) \in Seq(Units) /\ (Receiving(s.x) => Rest(s.x) = <<>>)
  <2>1. Receiving(s.x) => Rest(s.x) = <<>>
    BY DEF Receiving, Rest
  <2>2. <<>> \in Seq(Units)
    OBVIOUS
  <2> QED BY <1>6, <2>1, <2>2, RestIs
<1>9. Cat(Cat(got[c], s.wire), Rest(s.x)) = Answers(sent[c])
  <2>1. Rest(cl[c]) \in Seq(Units) /\ s.wire \in Seq(Units)
    BY <1>3, <1>6, RestIs DEF Answering
  <2>2. Cat(Cat(got[c], s.wire), Rest(s.x)) = Cat(got[c], Cat(s.wire, Rest(s.x)))
    BY <1>7, <1>8, <2>1, CatRegroups
  <2>3. Cat(Cat(got[c], wire[c]), Rest(cl[c])) = Cat(got[c], Cat(wire[c], Rest(cl[c])))
    BY <1>7, <2>1, CatRegroups
  <2>4. Cat(Cat(got[c], wire[c]), Rest(cl[c])) = Answers(sent[c])
    BY <1>3 DEF Answering
  <2> QED BY <1>6, <2>2, <2>3, <2>4, Zenon
<1>10. Cat(got[c], s.wire) \in Seq(Units)
  BY <1>6, <1>7, CatFacts
<1>11. CASE Drops(c, s)
  <2>1. IsPrefix(Cat(got[c], s.wire), Answers(sent[c]))
    <3>1. IsPrefix(Cat(got[c], s.wire), Cat(Cat(got[c], s.wire), Rest(s.x)))
      BY <1>8, <1>10, PrefixOfCat
    <3> QED BY <1>9, <3>1
  <2>2. Answers(sent[c]) \in Seq(Units)
    BY <1>2, FitsAnswers
  <2>3. Free(c, "closed", s.wire) /\ s.wire \in Seq(Units) /\ Len(s.wire) <= SndBuf
    BY <1>6, <1>11 DEF Drops
  <2> QED BY <1>1, <1>2, <1>5, <2>1, <2>2, <2>3, FreeServed
<1>12. ASSUME Keeps(c, s)
       PROVE  /\ cl'[c] = s.x /\ wire'[c] = s.wire /\ inbox'[c] = inbox[c] /\ conn'[c] = "open"
              /\ sent' = sent /\ half' = half /\ got' = got /\ Typed(c)'
  <2>1. /\ cl'[c] = s.x /\ wire'[c] = s.wire /\ inbox' = inbox /\ conn' = conn
        /\ sent' = sent /\ half' = half /\ got' = got
    BY <1>1, <1>5, <1>12 DEF Keeps, Shape, user
  <2>2. Typed(c)'
    BY <1>2, <1>6, <2>1 DEF Typed
  <2> QED BY <1>1, <2>1, <2>2
<1>13. CASE TurnsRound(c, s)
  <2>1. Keeps(c, s) /\ Receiving(s.x) /\ s.x.recv_buf = <<>>
    BY <1>6, <1>13 DEF TurnsRound, Busy
  <2>2. Cat(got[c], s.wire) = Answers(sent[c])
    <3>1. Cat(Cat(got[c], s.wire), Rest(s.x)) = Cat(got[c], s.wire)
      BY <1>8, <1>10, <2>1, CatFacts
    <3> QED BY <1>9, <3>1
  <2>3. AtRest(c)'
    BY <1>3, <1>12, <2>1, <2>2 DEF AtRest, Answering
  <2> QED BY <1>1, <1>12, <2>1, <2>3, StillServed DEF Fits
<1>14. CASE GoesOn(c, s)
  <2>1. Keeps(c, s) /\ Busy(s.x) /\ s.x.send_buf # <<>>
    BY <1>6, <1>14 DEF GoesOn, Receiving
  <2>2. Answering(c)'
    BY <1>3, <1>9, <1>12, <2>1 DEF Answering
  <2> QED BY <1>1, <1>12, <2>1, <2>2, StillServed DEF Fits
<1> QED BY <1>4, <1>11, <1>13, <1>14

LEMMA ActsServed ==
  ASSUME Shape, TableInv, NEW c \in Patient, Served(c), Alert(c), Acts(c)
  PROVE  Served(c)'
<1> USE DEF epoll, user, clients
<1>1. c \in Clients
  BY DEF Patient
<1>2. CASE ReceiveEnds(c) \/ SendEnds(c)
  <2>1. c \in Open /\ Free(c, "closed", wire[c]) /\ UNCHANGED user
    BY <1>2 DEF ReceiveEnds, SendEnds, Event, TableInv
  <2> QED BY <2>1, FreeAtOnce
<1>3. CASE SendKills(c) \/ HangUp(c)
  BY <1>1, <1>3, SameServed DEF SendKills, HangUp
<1>4. CASE SweepClient(c)
  <2>1. c \in Open /\ Free(c, "expired", wire[c]) /\ UNCHANGED user
    BY <1>1, <1>4, IdleOpen DEF SweepClient
  <2> QED BY <2>1, FreeAtOnce
<1> QED BY <1>2, <1>3, <1>4, ClientServed, AcceptServed, ReceiveServed, SendServed DEF Acts

LEMMA ExitServed ==
  ASSUME NEW c \in Clients, Served(c), Exit
  PROVE  Served(c)'
<1>1. /\ UNCHANGED <<cl, inbox, wire, interest, sent, half, got>>
      /\ conn'[c] = "closed" \/ conn'[c] = conn[c]
  BY DEF Exit, epoll, user
<1>2. CASE conn'[c] = "closed"
  <2>1. Typed(c)' /\ IsPrefix(Cat(got[c], wire[c]), Answers(sent[c]))'
    BY <1>1 DEF Served, Typed
  <2> QED BY <1>2, <2>1, StillRight
<1>3. CASE conn'[c] = conn[c]
  BY <1>1, <1>3, SameServed
<1> QED BY <1>1, <1>2, <1>3

\* The clock changes only how long a client has been idle.
Aged(x) == [x EXCEPT !.idle = Later(@)]

LEMMA AgedIs ==
  ASSUME NEW x \in Client
  PROVE  /\ Aged(x) \in Client /\ Aged(x).state = x.state /\ Aged(x).recv_buf = x.recv_buf
         /\ Aged(x).requests = x.requests /\ Aged(x).status = x.status
         /\ Aged(x).send_buf = x.send_buf
<1>1. Expire \in Nat /\ x.idle \in 0 .. Expire
  BY EventAssumption DEF Client
<1>2. Later(x.idle) \in 0 .. Expire
  BY <1>1 DEF Later
<1> QED BY <1>2 DEF Aged, Client

LEMMA TickServed ==
  ASSUME Shape, NEW c \in Clients, Served(c), Tick
  PROVE  Served(c)'
<1>1. /\ UNCHANGED <<conn, inbox, wire, interest, sent, half, got>>
      /\ cl'[c] = IF c \in Open THEN Aged(cl[c]) ELSE cl[c]
  BY DEF Tick, Aged, epoll, user
<1>2. CASE c \notin Open
  BY <1>1, <1>2, SameServed
<1>3. CASE c \in Open
  <2>1. conn[c] = "open" /\ Fits(c) /\ Typed(c)
    BY <1>3 DEF Open, Served, Fits
  <2>2. cl[c] \in Client
    BY <2>1 DEF Fits, AtRest, Underway, Answering, Receiving, Busy
  <2>3. /\ cl'[c] \in Client /\ cl'[c].state = cl[c].state /\ cl'[c].recv_buf = cl[c].recv_buf
        /\ cl'[c].requests = cl[c].requests /\ cl'[c].status = cl[c].status
        /\ cl'[c].send_buf = cl[c].send_buf
    BY <1>1, <1>3, <2>2, AgedIs
  <2>4. /\ Receiving(cl[c]) => Receiving(cl'[c])
        /\ Busy(cl[c]) => Busy(cl'[c])
        /\ Rest(cl'[c]) = Rest(cl[c])
    BY <2>3 DEF Receiving, Busy, Rest
  <2>5. Typed(c)'
    BY <1>1, <2>1 DEF Typed
  <2>6. (AtRest(c) \/ Underway(c) \/ Answering(c))'
    BY <1>1, <2>1, <2>3, <2>4 DEF Fits, AtRest, Underway, Answering
  <2> QED BY <1>1, <2>1, <2>5, <2>6, StillServed DEF Fits
<1> QED BY <1>2, <1>3

LEMMA NextServed ==
  ASSUME Shape, TableInv, NEW d \in Patient, Served(d), Alert(d), [Next]_vars
  PROVE  Served(d)'
<1> USE DEF epoll, user, clients
<1>1. d \in Clients
  BY DEF Patient
<1>2. CASE UNCHANGED vars
  BY <1>1, <1>2, SameServed DEF vars
<1>3. ASSUME NEW c \in Clients, Acts(c) PROVE Served(d)'
  <2>1. CASE c = d
    BY <1>3, <2>1, ActsServed
  <2>2. CASE c # d
    <3>1. SameClient(d)
      BY <1>1, <1>3, <2>2, Others
    <3> QED BY <1>1, <3>1, SameServed DEF SameClient
  <2> QED BY <2>1, <2>2
<1>4. CASE Turns
  BY <1>1, <1>4, TurnsSame, SameServed DEF SameClient
<1>5. CASE WaitEvents \/ WaitTimeout
  BY <1>1, <1>5, SameServed DEF WaitEvents, WaitTimeout
<1>6. CASE Exit
  BY <1>1, <1>6, ExitServed
<1>7. CASE Tick
  BY <1>1, <1>7, TickServed
<1> QED BY <1>2, <1>3, <1>4, <1>5, <1>6, <1>7, StepKinds

-----------------------------------------------------------------------------
(* Alert, step by step *)

\* A client that is not open has nothing to be alert to.
LEMMA ClosedAlert ==
  ASSUME NEW c, conn'[c] # "open"
  PROVE  Alert(c)'
BY DEF Alert

LEMMA ClientAlert ==
  ASSUME Shape, NEW c \in Clients, Alert(c), ClientStep(c)
  PROVE  Alert(c)'
<1> USE DEF server, epoll, user
<1>1. CASE Connect(c)
  <2>1. conn'[c] # "open"
    BY <1>1 DEF Connect, Shape
  <2> QED BY <2>1, ClosedAlert
<1>2. ASSUME NEW data, Arrive(c, data), conn' = conn PROVE Alert(c)'
  <2>1. /\ edge'[c] = (edge[c] \/ interest[c] = "in") /\ interest' = interest
        /\ cl' = cl /\ peer' = peer /\ wire' = wire /\ nospace' = nospace /\ events' = events
    BY <1>2 DEF Arrive, Shape
  <2> QED BY <1>2, <2>1 DEF Alert, Sending, Due, Full
<1>3. CASE SendRest(c)
  <2>1. \E data : Arrive(c, data)
    BY <1>3 DEF SendRest
  <2>2. conn' = conn
    BY <1>3 DEF SendRest, Arrive
  <2> QED BY <1>2, <2>1, <2>2
<1>4. ASSUME NEW k \in Kinds[c], SendHalf(c, k) \/ SendRequest(c, k) PROVE Alert(c)'
  <2>1. \E data : Arrive(c, data)
    BY <1>4 DEF SendHalf, SendRequest
  <2>2. conn' = conn
    BY <1>4 DEF SendHalf, SendRequest, Arrive
  <2> QED BY <1>2, <2>1, <2>2
<1>5. CASE Read(c)
  <2>1. /\ edge'[c] = (edge[c] \/ (nospace[c] /\ interest[c] = "out"))
        /\ interest' = interest /\ cl' = cl /\ peer' = peer /\ conn' = conn
        /\ inbox' = inbox /\ events' = events
    BY <1>5 DEF Read, Shape
  <2> QED BY <2>1 DEF Alert, Sending, Due, Full
<1>6. ASSUME NEW how, Leave(c, how) PROVE Alert(c)'
  <2>1. /\ edge'[c] = TRUE /\ UNCHANGED <<cl, conn, inbox, wire, interest, nospace, events>>
    BY <1>6 DEF Leave, Shape
  <2> QED BY <2>1 DEF Alert, Sending, Due, Full
<1> QED BY <1>1, <1>3, <1>4, <1>5, <1>6 DEF ClientStep

\* After its event has been handled a client is in the batch no more.
LEMMA EventHandled ==
  ASSUME NEW c, Event(c)
  PROVE  c \notin DOMAIN events' /\ \A f : ~Due(c, f)'
BY DEF Event, Due

LEMMA AcceptAlert ==
  ASSUME Shape, TableInv, NEW c \in Clients, AcceptClient(c) \/ NameFails(c)
  PROVE  Alert(c)'
<1>1. CASE NameFails(c)
  <2>1. conn'[c] # "open"
    BY <1>1 DEF NameFails, Shape
  <2> QED BY <2>1, ClosedAlert
<1>2. CASE AcceptClient(c)
  <2>1. /\ cl'[c] = NewClient /\ interest'[c] = "in" /\ inbox' = inbox /\ peer' = peer
        /\ edge'[c] = (inbox[c] # <<>> \/ peer[c] # "open")
        /\ events' = events /\ pc = "events" /\ conn[c] = "backlog"
    BY <1>2 DEF AcceptClient, Shape, Backlog
  <2>2. c \notin DOMAIN events'
    BY <2>1 DEF TableInv, Open
  <2>3. ~Sending(c)'
    BY <2>1 DEF Sending, NewClient
  <2> QED BY <2>1, <2>2, <2>3 DEF Alert
<1> QED BY <1>1, <1>2

\* Whatever arrives, receive_requests leaves the state or starts an answer.
LEMMA ReceiveState ==
  ASSUME NEW x \in Client, NEW data
  PROVE  ReceiveRequests(x, data).state \in {x.state, "SENDING_HEADERS"}
<1> DEFINE r == RecvData(x, data)
<1>1. r.state = x.state
  BY DEF RecvData, Client
<1>2. DOMAIN Parse(r) = DOMAIN x
  BY DEF Parse, RecvData
<1>3. BuildHeader(Parse(r)).state = "SENDING_HEADERS"
  <2> DEFINE q == Parse(r)
  <2>1. "state" \in DOMAIN q
    BY <1>2 DEF Client
  <2> HIDE DEF q, r
  <2> QED BY <2>1 DEF BuildHeader
<1> HIDE DEF r
<1> QED BY <1>1, <1>3 DEF ReceiveRequests, r

LEMMA ReceiveAlert ==
  ASSUME Shape, TableInv, NEW c \in Patient, Served(c), Alert(c), Receive(c)
  PROVE  Alert(c)'
<1>1. c \in Clients /\ c \in Open /\ conn[c] = "open"
  <2>1. pc = "events" /\ c \in DOMAIN events
    BY DEF Receive, Event
  <2> QED BY <2>1 DEF TableInv, Open
<1>2. ~Sending(c) /\ interest[c] = "in"
  BY <1>1 DEF Receive, Event, Alert, Due
<1>3. wire[c] \in Seq(Units) /\ Len(wire[c]) <= SndBuf /\ Len(wire[c]) \in Nat /\ SndBuf \in Nat
  BY EventAssumption DEF Served, Typed
<1>4. Receiving(cl[c])
  <2>1. AtRest(c) \/ Underway(c) \/ Answering(c)
    BY <1>1 DEF Served
  <2> QED BY <1>2, <2>1 DEF AtRest, Underway, Answering, Busy, Client, States, Sending
<1>5. \E y : y = ReceiveRequests(cl[c], inbox[c])
  OBVIOUS
<1>6. PICK y : y = ReceiveRequests(cl[c], inbox[c])
  BY <1>5
<1>7. y.state \in {"RECEIVING_HEADERS", "SENDING_HEADERS"}
  BY <1>4, <1>6, ReceiveState DEF Receiving
<1>8. /\ cl'[c] = y /\ inbox'[c] = <<>> /\ wire' = wire /\ conn' = conn /\ peer' = peer
      /\ ~HungUp(c, y)
      /\ IF y.state = "SENDING_HEADERS" THEN Rearm(c, "out") ELSE UNCHANGED epoll
  BY <1>1, <1>6 DEF Receive, Shape
<1>9. c \notin DOMAIN events' /\ \A f : ~Due(c, f)'
  BY EventHandled DEF Receive
<1>10. CASE y.state = "SENDING_HEADERS"
  <2>1. /\ interest'[c] = "out"
        /\ edge'[c] = (edge[c] \/ peer[c] # "open" \/ Len(wire'[c]) < SndBuf)
        /\ nospace'[c] = (nospace[c] \/ Len(wire'[c]) = SndBuf)
    BY <1>1, <1>8, <1>10 DEF Rearm, Shape
  <2>2. Sending(c)'
    BY <1>8, <1>10 DEF Sending
  <2>3. IF Full(c)' THEN nospace'[c] ELSE edge'[c]
    <3>1. Len(wire'[c]) < SndBuf \/ Len(wire'[c]) = SndBuf
      BY <1>3, <1>8
    <3> QED BY <2>1, <3>1, Zenon DEF Full
  <2> QED BY <1>9, <2>1, <2>2, <2>3 DEF Alert
<1>11. CASE y.state = "RECEIVING_HEADERS"
  <2>1. interest' = interest /\ edge' = edge
    BY <1>8, <1>11 DEF epoll
  <2>2. ~Sending(c)'
    BY <1>8, <1>11 DEF Sending
  <2>3. peer'[c] # "open" => edge'[c]
    <3>1. c \in DOMAIN events /\ "rdhup" \notin events[c]
      BY <1>8, <1>11 DEF Receive, Event, HungUp
    <3> QED BY <1>1, <1>8, <2>1, <3>1 DEF Alert, Due
  <2> QED BY <1>2, <1>8, <1>9, <2>1, <2>2, <2>3 DEF Alert
<1> QED BY <1>7, <1>10, <1>11

LEMMA SendAlert ==
  ASSUME Shape, TableInv, NEW c \in Patient, Served(c), Alert(c), Send(c)
  PROVE  Alert(c)'
<1>1. /\ c \in Clients /\ c \in Open /\ conn[c] = "open" /\ Due(c, "out")
      /\ c \notin DOMAIN events' /\ \A f : ~Due(c, f)'
  <2>1. Event(c) /\ "out" \in events[c]
    BY SendKinds
  <2>2. c \notin DOMAIN events' /\ \A f : ~Due(c, f)'
    BY <2>1, EventHandled
  <2> QED BY <2>1, <2>2 DEF Event, TableInv, Open, Due
<1>2. Sending(c) /\ interest[c] = "out"
  BY <1>1 DEF Alert, Due
<1>3. Answering(c) /\ Typed(c)
  BY <1>1, <1>2 DEF Served, AtRest, Underway, Receiving, Sending
<1>4. PICK s : /\ s = SendResponses([x |-> cl[c], wire |-> wire[c]])
               /\ Drops(c, s) \/ TurnsRound(c, s) \/ GoesOn(c, s)
  BY SendKinds
<1>5. peer' = peer
  BY SendKinds
<1>6. \/ Receiving(s.x)
      \/ Busy(s.x) /\ s.x.send_buf # <<>> /\ Len(s.wire) = SndBuf
  <2>1. Busy(cl[c]) /\ wire[c] \in Seq(Units) /\ Len(wire[c]) <= SndBuf
    BY <1>3 DEF Typed, Answering
  <2>2. Progressed(cl[c], wire[c], s)
    BY <1>4, <2>1, SendProgresses
  <2> QED BY <2>2 DEF Progressed
<1>7. CASE Drops(c, s)
  <2>1. conn'[c] # "open"
    BY <1>1, <1>7 DEF Drops, Free, Shape
  <2> QED BY <2>1, ClosedAlert
<1>8. CASE TurnsRound(c, s)
  <2>1. /\ cl'[c] = s.x /\ ~Sending(c)'
        /\ interest'[c] = "in"
        /\ edge'[c] = (edge[c] \/ peer[c] # "open" \/ inbox'[c] # <<>>)
    BY <1>1, <1>8 DEF TurnsRound, Keeps, Rearm, Shape, Sending
  <2> QED BY <1>1, <1>5, <2>1 DEF Alert
<1>9. CASE GoesOn(c, s)
  <2>1. Busy(s.x) /\ s.x.send_buf # <<>> /\ Len(s.wire) = SndBuf
    BY <1>6, <1>9 DEF GoesOn, Receiving
  <2>2. /\ cl'[c] = s.x /\ wire'[c] = s.wire /\ interest' = interest
        /\ nospace'[c] = TRUE
    BY <1>1, <1>9, <2>1 DEF GoesOn, Keeps, Shape
  <2>3. Sending(c)' /\ Full(c)'
    BY <2>1, <2>2 DEF Sending, Full, Busy, Client, States
  <2> QED BY <1>1, <1>2, <2>2, <2>3 DEF Alert
<1> QED BY <1>4, <1>7, <1>8, <1>9

LEMMA ActsAlert ==
  ASSUME Shape, TableInv, NEW c \in Patient, Served(c), Alert(c), Acts(c), alive'
  PROVE  Alert(c)'
<1> USE DEF epoll, user, clients
<1>1. c \in Clients
  BY DEF Patient
<1>2. CASE ReceiveEnds(c) \/ SendEnds(c) \/ SweepClient(c)
  <2>1. conn'[c] # "open"
    <3>1. ASSUME NEW how, how \in {"closed", "expired"}, NEW w, Free(c, how, w)
          PROVE  conn'[c] # "open"
      BY <1>1, <3>1 DEF Free, Shape
    <3>2. Free(c, "closed", wire[c]) \/ Free(c, "expired", wire[c])
      BY <1>2 DEF ReceiveEnds, SendEnds, SweepClient
    <3> QED BY <3>1, <3>2
  <2> QED BY <2>1, ClosedAlert
<1>3. CASE SendKills(c)
  BY <1>3 DEF SendKills
<1>4. CASE HangUp(c)
  <2>1. /\ c \in Open /\ events[c] = {"rdhup"} /\ c \in DOMAIN events
        /\ Event(c) /\ UNCHANGED clients
    BY <1>4 DEF HangUp, Event, TableInv
  <2>2. c \notin DOMAIN events' /\ \A f : ~Due(c, f)'
    BY <2>1, EventHandled
  <2>3. /\ ~Due(c, "out") /\ Sending(c) /\ interest[c] = "out" /\ conn[c] = "open"
        /\ IF Full(c) THEN nospace[c] \/ edge[c] ELSE edge[c]
    BY <2>1 DEF Alert, Due, Open
  <2> QED BY <2>1, <2>2, <2>3 DEF Alert, Sending, Full
<1> QED BY <1>1, <1>2, <1>3, <1>4, ClientAlert, AcceptAlert, ReceiveAlert, SendAlert DEF Acts

\* epoll_wait returns: what it reports stands for the edges it takes.
LEMMA PollAlert ==
  ASSUME Shape, TableInv, NEW c \in Patient, Served(c), Alert(c), WaitEvents \/ WaitTimeout
  PROVE  Alert(c)'
<1> SUFFICES ASSUME conn'[c] = "open" PROVE Alert(c)'
  BY ClosedAlert
<1>1. /\ UNCHANGED <<cl, conn, peer, inbox, wire, interest>> /\ pc = "wait"
      /\ edge' = [d \in Clients |-> FALSE]
      /\ nospace' = [d \in Clients |-> nospace[d] \/ (edge[d] /\ Full(d))]
      /\ WaitEvents => events' = [d \in Ready |-> Flags(d)]
      /\ WaitTimeout => events' = events /\ Ready = {}
  BY DEF WaitEvents, WaitTimeout, Polled
<1>2. /\ c \in Clients /\ c \in Open /\ conn[c] = "open" /\ ~edge'[c]
      /\ nospace'[c] = (nospace[c] \/ (edge[c] /\ Full(c)))
  BY <1>1 DEF Patient, Open
<1>3. DOMAIN events = {} /\ DOMAIN events' = Ready
  BY <1>1 DEF TableInv
<1>4. /\ c \in Ready <=> edge[c] /\ Flags(c) # {}
      /\ c \in Ready => events'[c] = Flags(c)
  <2>1. c \in Ready <=> edge[c] /\ Flags(c) # {}
    BY <1>2 DEF Ready
  <2> QED BY <1>1, <2>1
<1>5. /\ "in" \in Flags(c) <=> interest[c] = "in" /\ (inbox[c] # <<>> \/ peer[c] # "open")
      /\ "out" \in Flags(c) <=> interest[c] = "out" /\ (Len(wire[c]) < SndBuf \/ peer[c] = "gone")
      /\ "rdhup" \in Flags(c) <=> peer[c] # "open"
      /\ Flags(c) \subseteq {"in", "out", "rdhup"}
  BY DEF Flags
<1>6. Len(wire[c]) < SndBuf \/ Full(c)
  <2>1. Len(wire[c]) \in Nat /\ SndBuf \in Nat /\ Len(wire[c]) <= SndBuf
    BY EventAssumption DEF Served, Typed
  <2> QED BY <2>1 DEF Full
<1>7. interest[c] = IF Sending(c) THEN "out" ELSE "in"
  BY <1>2 DEF Alert
<1>8. (Sending(c) <=> Sending(c)') /\ (Full(c) <=> Full(c)')
  BY <1>1 DEF Sending, Full
<1>9. ~Sending(c) /\ (inbox[c] # <<>> \/ peer[c] # "open") => Due(c, "in")'
  <2>1. ~Sending(c) /\ (inbox[c] # <<>> \/ peer[c] # "open") => edge[c] /\ "in" \in Flags(c)
    BY <1>2, <1>3, <1>5, <1>7 DEF Alert, Due
  <2> QED BY <1>3, <1>4, <2>1 DEF Due
<1>10. Sending(c) => Due(c, "out")' \/ (Full(c) /\ nospace'[c])
  <2>1. Sending(c) => IF Full(c) THEN nospace[c] \/ edge[c] ELSE edge[c]
    BY <1>2, <1>3 DEF Alert, Due
  <2>2. Sending(c) /\ ~Full(c) => "out" \in Flags(c)
    BY <1>5, <1>6, <1>7
  <2> QED BY <1>2, <1>3, <1>4, <2>1, <2>2 DEF Due
<1>11. c \in DOMAIN events' =>
         /\ Due(c, "in")' <=> ~Sending(c)
         /\ Due(c, "out")' => Sending(c)
         /\ peer[c] # "open" => Due(c, "rdhup")'
  BY <1>3, <1>4, <1>5, <1>7 DEF Due
<1>12. (interest[c] = IF Sending(c) THEN "out" ELSE "in")'
  BY <1>1, <1>7, <1>8
<1>13. (~Sending(c) /\ (inbox[c] # <<>> \/ peer[c] # "open") => edge[c] \/ Due(c, "in"))'
  BY <1>1, <1>8, <1>9
<1>14. (Sending(c) => \/ Due(c, "out")
                     \/ IF Full(c) THEN nospace[c] \/ edge[c] ELSE edge[c])'
  BY <1>8, <1>10
<1>15. (c \in DOMAIN events =>
          /\ Due(c, "in") <=> ~Sending(c)
          /\ Due(c, "out") => Sending(c)
          /\ peer[c] # "open" => edge[c] \/ Due(c, "rdhup"))'
  <2>1. peer' = peer
    BY <1>1
  <2> QED BY <1>8, <1>11, <2>1
<1> QED BY <1>12, <1>13, <1>14, <1>15 DEF Alert

LEMMA NextAlert ==
  ASSUME Shape, TableInv, NEW d \in Patient, Served(d), Alert(d), Next, alive'
  PROVE  Alert(d)'
<1>1. d \in Clients
  BY DEF Patient
<1>2. ASSUME NEW c \in Clients, Acts(c) PROVE Alert(d)'
  <2>1. CASE c = d
    BY <1>2, <2>1, ActsAlert
  <2>2. CASE c # d
    BY <1>1, <1>2, <2>2, Others, SameAlert
  <2> QED BY <2>1, <2>2
<1>3. CASE Turns
  BY <1>1, <1>3, TurnsSame, SameAlert
<1>4. CASE WaitEvents \/ WaitTimeout
  BY <1>4, PollAlert
<1>5. CASE Exit
  <2>1. /\ UNCHANGED <<events, cl, peer, inbox, wire, epoll>>
        /\ conn'[d] = "closed" \/ conn'[d] = conn[d]
    BY <1>1, <1>5 DEF Exit
  <2> QED BY <2>1 DEF Alert, Sending, Full, Due, epoll
<1>6. CASE Tick
  <2>1. /\ UNCHANGED <<events, conn, peer, inbox, wire, epoll>>
        /\ cl'[d] = IF d \in Open THEN Aged(cl[d]) ELSE cl[d]
    BY <1>1, <1>6 DEF Tick, Aged, server
  <2>2. CASE conn'[d] # "open"
    BY <2>2, ClosedAlert
  <2>3. CASE conn'[d] = "open"
    <3>1. cl[d] \in Client
      BY <2>1, <2>3 DEF Served, AtRest, Underway, Answering, Receiving, Busy
    <3>2. cl'[d].state = cl[d].state
      BY <2>1, <3>1, AgedIs
    <3> QED BY <2>1, <3>2 DEF Alert, Sending, Full, Due, epoll
  <2> QED BY <2>2, <2>3
<1> QED BY <1>2, <1>3, <1>4, <1>5, <1>6, StepKinds

\* Only send, for an answer to a client that has gone, ends the process.
LEMMA KilledInEvents ==
  ASSUME Next, ~alive'
  PROVE  pc' = "events"
<1> USE DEF server, clients, epoll, user
<1>0. alive
  BY DEF Next
<1>1. ASSUME NEW c \in Clients, Acts(c) PROVE pc' = "events"
  <2>1. CASE ClientStep(c)
    BY <1>0, <2>1 DEF ClientStep, Connect, SendHalf, SendRest, SendRequest, Begin, Arrive,
                      Read, Leave
  <2>2. CASE AcceptClient(c) \/ NameFails(c) \/ HangUp(c) \/ SweepClient(c)
    BY <1>0, <2>2 DEF AcceptClient, NameFails, HangUp, SweepClient
  <2>3. CASE Receive(c) \/ ReceiveEnds(c) \/ SendEnds(c)
    BY <1>0, <2>3 DEF Receive, ReceiveEnds, SendEnds
  <2>4. CASE Send(c)
    BY <1>0, <2>4, SendKinds
  <2>5. CASE SendKills(c)
    BY <2>5 DEF SendKills, Event
  <2> QED BY <1>1, <2>1, <2>2, <2>3, <2>4, <2>5 DEF Acts
<1>2. CASE Turns
  BY <1>0, <1>2, TurnsSame
<1>3. CASE WaitEvents \/ WaitTimeout \/ Exit \/ Tick
  BY <1>0, <1>3 DEF WaitEvents, WaitTimeout, Exit, Tick
<1> QED BY <1>1, <1>2, <1>3, StepKinds

LEMMA NextIInv == IInv /\ [Next]_vars => IInv'
<1> SUFFICES ASSUME IInv, [Next]_vars PROVE IInv'
  OBVIOUS
<1>1. Shape /\ TableInv /\ \A c \in Patient : Served(c)
  BY DEF IInv
<1>2. Shape' /\ TableInv'
  BY <1>1, NextShape, NextTable
<1>3. CASE Next
  <2>1. alive /\ \A c \in Patient : Alert(c)
    BY <1>3 DEF IInv, Next
  <2>2. \A c \in Patient : Served(c)'
    BY <1>1, <1>3, <2>1, NextServed
  <2>3. alive' => \A c \in Patient : Alert(c)'
    BY <1>1, <1>3, <2>1, NextAlert
  <2>4. ~alive' => pc' = "events"
    BY <1>3, KilledInEvents
  <2>5. Patient' = Patient
    BY DEF Patient
  <2> QED BY <1>2, <2>2, <2>3, <2>4, <2>5 DEF IInv
<1>4. CASE UNCHANGED vars
  <2>1. \A c \in Patient : c \in Clients /\ SameClient(c) /\ SameEvent(c)
    BY <1>4 DEF vars, server, clients, epoll, user, SameClient, SameEvent, Patient
  <2>2. \A c \in Patient : Served(c)'
    BY <1>1, <2>1, SameServed DEF SameClient
  <2>3. (\A c \in Patient : Alert(c)) => \A c \in Patient : Alert(c)'
    BY <2>1, SameAlert
  <2>4. pc' = pc /\ alive' = alive /\ Patient' = Patient
    BY <1>4 DEF vars, server, Patient
  <2> QED BY <1>2, <2>2, <2>3, <2>4 DEF IInv
<1> QED BY <1>3, <1>4

\* A client that waits for each answer is, between any two steps, at rest, asking
\* or being answered, and alert: what holds the claims about it together.
THEOREM Invariance == Spec => []IInv
BY InitIInv, NextIInv, PTL DEF Spec

\* It reads the answers to its requests, in order, whatever the requests, the
\* splits, the sizes and the other clients (http_server.c:355-489).
THEOREM AnswersStayInOrder == Spec => []AnswersInOrder
<1>1. IInv => AnswersInOrder
  <2>1. ASSUME IInv, NEW c \in Clients \ Pipeliners
        PROVE  IsPrefix(Cat(got[c], wire[c]), Answers(sent[c]))
    BY <2>1 DEF IInv, Patient, Served
  <2> QED BY <2>1 DEF AnswersInOrder, Cat
<1> QED BY <1>1, Invariance, PTL

\* It is never left waiting for an edge that has come already (http_server.c:208-233).
THEOREM EdgesAreKept == Spec => []NoLostEdge
<1>1. IInv => NoLostEdge
  <2> SUFFICES ASSUME IInv, pc = "wait", NEW c \in Open \ Pipeliners
               PROVE  /\ interest[c] = IF Sending(c) THEN "out" ELSE "in"
                      /\ ~Sending(c) /\ (inbox[c] # <<>> \/ peer[c] # "open") => edge[c]
                      /\ Sending(c) /\ cl[c].send_buf # <<>> =>
                           IF Full(c) THEN nospace[c] \/ edge[c] ELSE edge[c]
    BY DEF NoLostEdge
  <2>1. alive /\ DOMAIN events = {} /\ c \in Patient /\ conn[c] = "open"
    BY DEF IInv, TableInv, Patient, Open
  <2>2. Alert(c) /\ \A f : ~Due(c, f)
    BY <2>1 DEF IInv, Due
  <2> QED BY <2>1, <2>2 DEF Alert
<1> QED BY <1>1, Invariance, PTL

=============================================================================
