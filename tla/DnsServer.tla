----------------------------- MODULE DnsServer -----------------------------
(* The DNS cache server labs/dnsserverlab-handout: one process, one UDP      *)
(* socket, a table of records read from a file when it starts.  The scan of  *)
(* the table takes time, so a record may expire behind or ahead of it; one   *)
(* action is one turn of its loop.                                           *)
(*                                                                           *)
(* A name on the wire and as a string stand for each other, one to one, on   *)
(* this side.  Aliases have no cycle: along one, the scan appends a record   *)
(* at each turn and runs out of the 1024 bytes of the response.              *)
EXTENDS DnsNetwork

CONSTANTS Databases,     \* the files: sequences of [name, type, data, ttl]
          MaxTime        \* bound on the clock

Entries ==
  [name : Names, type : {"A", "CNAME", "other"}, data : Names \cup Addresses \cup {None}, ttl : Int]

ASSUME DatabaseAssumption == Databases \subseteq Seq(Entries)

VARIABLES now, db,
          started,       \* cachedb_start
          inbox,         \* what the kernel has queued for the socket
          srv            \* place, request, name looked for, i, answer, found

serverVars == <<now, db, started, inbox, srv>>

\* Between requests the buffers are cleared.
Place(p) == [place |-> p, req |-> None, qname |-> None, i |-> 0, answer |-> <<>>, found |-> FALSE]

ServerInit ==
  /\ now = 0 /\ db \in Databases /\ started = 0 /\ inbox = <<>>
  /\ srv = Place("start")

Tick == now < MaxTime /\ now' = now + 1 /\ UNCHANGED <<db, started, inbox, srv, netVars>>

-----------------------------------------------------------------------------
\* main, init_db and create_server_socket.
Start ==
  /\ srv.place = "start" /\ started' = now
  /\ srv' = Place("recv")
  /\ UNCHANGED <<now, db, inbox, netVars>>

Arrive(d) ==
  /\ d.to = "server" /\ srv.place # "start"
  /\ Take(d) /\ inbox' = Append(inbox, d)
  /\ UNCHANGED <<now, db, started, srv>>

IsValidRequest(d) == ~d.qr /\ d.opcode = 0 /\ d.questions = 1

\* serve_udp and the head of get_response.
Receive ==
  /\ srv.place = "recv" /\ inbox # <<>> /\ inbox' = Tail(inbox)
  /\ srv' = [place |-> IF IsValidRequest(Head(inbox)) THEN "scan" ELSE "send",
             req |-> Head(inbox), qname |-> Head(inbox).name, i |-> 0,
             answer |-> <<>>, found |-> FALSE]
  /\ UNCHANGED <<now, db, started, netVars>>

Expires(e) == started + e.ttl
Remaining(e) == Expires(e) - now
MutantLive(e) == Remaining(e) >= 0      \* a second too long
Live(e) == Remaining(e) > 0

\* rr_to_wire: names are written out, never as pointers.
Wire(e) == [name |-> e.name, type |-> e.type, data |-> e.data,
            ttl |-> Remaining(e), compressed |-> FALSE]

\* i = 0 and then i++: entry 0 is not looked at for an alias.
MutantAfterAlias(i) == i + 1      \* goes on from there
AfterAlias(i) == 1

Scan ==
  LET cur == db[srv.i + 1]
      matches == cur.name = srv.qname /\ Live(cur)
  IN
  /\ srv.place = "scan" /\ srv.i < Len(db)
  /\ \/ /\ matches /\ cur.type = srv.req.type
        /\ srv' = [srv EXCEPT !.place = "send", !.found = TRUE,
                              !.answer = Append(@, Wire(cur))]
     \/ /\ matches /\ cur.type # srv.req.type /\ cur.type = "CNAME"
        /\ srv' = [srv EXCEPT !.qname = cur.data, !.i = AfterAlias(@),
                              !.answer = Append(@, Wire(cur))]
     \/ /\ ~matches \/ cur.type \notin {srv.req.type, "CNAME"}
        /\ srv' = [srv EXCEPT !.i = @ + 1]
  /\ UNCHANGED <<now, db, started, inbox, netVars>>

ScanEnds ==
  /\ srv.place = "scan" /\ srv.i >= Len(db)
  /\ srv' = [srv EXCEPT !.place = "send"]
  /\ UNCHANGED <<now, db, started, inbox, netVars>>

\* The flags of a format error are not put in network order: 0x8001 and 0x8101
\* go out as 0x0180 and 0x0181, a query that is recursive and, if the request
\* was not, without an error.
Reply(req) ==
  IF IsValidRequest(req)
    THEN [to |-> req.from, from |-> "server", owner |-> req.owner, copy |-> FALSE,
          qr |-> TRUE, rd |-> req.rd, rcode |-> IF srv.found THEN 0 ELSE 3,
          name |-> req.name, type |-> req.type, records |-> srv.answer]
    ELSE [to |-> req.from, from |-> "server", owner |-> req.owner, copy |-> FALSE,
          qr |-> FALSE, rd |-> TRUE, rcode |-> IF req.rd THEN 1 ELSE 0,
          name |-> None, type |-> "other", records |-> <<>>]

MutantSendReply ==      \* a negative answer is not sent
  /\ srv.place = "send" /\ srv' = Place("recv")
  /\ IF srv.found THEN Send(Reply(srv.req)) ELSE UNCHANGED netVars
  /\ UNCHANGED <<now, db, started, inbox>>

SendReply ==
  /\ srv.place = "send" /\ srv' = Place("recv")
  /\ Send(Reply(srv.req))
  /\ UNCHANGED <<now, db, started, inbox>>

ServerStep == Start \/ Receive \/ Scan \/ ScanEnds \/ SendReply

-----------------------------------------------------------------------------
(* Properties *)

Answering == srv.place = "send" /\ IsValidRequest(srv.req)
NameAfter(k) == IF k = 0 THEN srv.req.name ELSE srv.answer[k].data

\* What is sent for a valid query is a chain: every record is of the table, had
\* not expired when it was found, and is of the name the one before it is an
\* alias of; with NOERROR the last one is of the type asked for, and only it
\* (server.c:275-306).
AnswerIsChain ==
  Answering =>
    LET n == Len(srv.answer)
        alias(k) == srv.answer[k].type = "CNAME" /\ srv.req.type # "CNAME"
    IN
    /\ \A k \in 1 .. n :
         /\ srv.answer[k].name = NameAfter(k - 1) /\ srv.answer[k].ttl > 0
         /\ \E e \in {db[x] : x \in DOMAIN db} :
              e.name = srv.answer[k].name /\ e.type = srv.answer[k].type
              /\ e.data = srv.answer[k].data
    /\ IF srv.found THEN /\ srv.answer[n].type = srv.req.type
                         /\ \A k \in 1 .. n - 1 : alias(k)
                    ELSE \A k \in 1 .. n : alias(k)

\* NXDOMAIN is sent only if the name the aliases have led to has no record of
\* the type asked for, and is no alias, in the whole table, whatever the order
\* of the file; but once an alias has been followed, entry 0 does not count
\* (server.c:303).
NegativeSound ==
  Answering /\ ~srv.found =>
    \A x \in DOMAIN db :
      db[x].name = NameAfter(Len(srv.answer)) /\ Live(db[x]) =>
        \/ db[x].type \notin {srv.req.type, "CNAME"}
        \/ x = 1 /\ srv.answer # <<>>
=============================================================================
