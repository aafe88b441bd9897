---------------------------- MODULE DnsResolver ----------------------------
(* The DNS stub resolver labs/dnsresolverlab-handout/resolver.c: every       *)
(* process sends one query and takes the first datagram that comes from the  *)
(* server to its port as the answer, without a timeout and without looking   *)
(* at the ID, which is the same in every process because rand is not seeded. *)
(* Ports are used again.  The server is the one of this repository or some   *)
(* other one, Upstream, which answers from Zone with compressed names.       *)
(* Not modelled: a recv that fails (the answer is then read from a buffer    *)
(* that was never written), names of more than four labels.                  *)
EXTENDS DnsNetwork

CONSTANTS Ports,
          Typed,     \* the arguments: pairs <<name, spelling>>
          Servers,   \* the servers they ask, of {"server", "upstream"}
          Zone,      \* what Upstream knows: [Names -> a record or None]
          Glue       \* a record of these that it may add

ASSUME ResolverAssumption ==
  /\ IsFiniteSet(Names) /\ None \notin Names /\ \A typed \in Typed : typed[1] \in Names
  /\ Servers \subseteq {"server", "upstream"} /\ Ports \cap {"server", "upstream"} = {}
  /\ Glue.name \in Names /\ Zone[Glue.name] = Glue /\ Glue # None
  /\ \A n \in Names : Zone[n] # None =>
       Zone[n].name = n /\ (Zone[n].type = "CNAME" => Zone[n].data \in Names)
  /\ \E rank \in [Names -> 0 .. Cardinality(Names)] :  \* no cycle of aliases
       \A n \in Names : Zone[n] # None /\ Zone[n].type = "CNAME" => rank[Zone[n].data] < rank[n]

VARIABLE res         \* of each resolver: phase, port, server, qname, result

\* Lower case and no dot at the end: every spelling has one canonical name.
Canonicalize(typed) == typed[1]

ResolverInit ==
  res = [r \in Resolvers |-> [phase |-> "idle", port |-> None, server |-> None,
                              qname |-> None, result |-> None]]

-----------------------------------------------------------------------------
\* name_ascii_to_wire counts three length bytes whatever the number of labels:
\* with two, a byte that was never written comes before the type; with four,
\* the type begins one byte early, on the byte 0 that ends the name.
WrittenTypes(n) == CASE Labels[n] = 2 -> {"other", "junk"}
                     [] Labels[n] = 3 -> {"A"}
                     [] Labels[n] = 4 -> {"junk"}

\* create_dns_query: a recursive query for an A record.
Queries(r, port, server, n) ==
  {[to |-> server, from |-> port, owner |-> r, copy |-> FALSE, qr |-> FALSE, opcode |-> 0,
    questions |-> 1, rd |-> TRUE, name |-> n, type |-> t] : t \in WrittenTypes(n)}

Free(port) == \A r \in Resolvers : res[r].phase = "waiting" => res[r].port # port

\* resolve up to the recv of send_recv_message.
Ask(r, typed, port, server) ==
  /\ res[r].phase = "idle" /\ Free(port)
  /\ res' = [res EXCEPT ![r] = [phase |-> "waiting", port |-> port, server |-> server,
                                qname |-> Canonicalize(typed), result |-> None]]
  /\ \E q \in Queries(r, port, server, Canonicalize(typed)) : Send(q)

\* rr_from_wire skips eleven bytes of a name that is not a pointer and takes
\* what it finds there for the name: no name, then.
NameRead(rr) == IF rr.compressed THEN rr.name ELSE None

MutantMatches(rr, n) == rr.compressed      \* any record will do
Matches(rr, n) == NameRead(rr) = n

\* The address at the end of the aliases, which must follow in order.
GetAnswerAddress(qname, records) ==
  LET from[k \in 1 .. Len(records) + 1] ==
        [n \in Names |->
           IF k > Len(records) \/ ~Matches(records[k], n) THEN None
           ELSE IF records[k].type = "A" THEN records[k].data
           ELSE from[k + 1][IF records[k].type = "CNAME" THEN records[k].data ELSE n]]
  IN from[1][qname]

TakeAnswer(r, d) ==
  /\ res[r].phase = "waiting" /\ d.to = res[r].port /\ d.from = res[r].server
  /\ Take(d)
  /\ res' = [res EXCEPT ![r] = [phase |-> "done", port |-> None, server |-> None, qname |-> @.qname,
                                result |-> GetAnswerAddress(@.qname, d.records)]]

-----------------------------------------------------------------------------
\* The chain of records Zone has for a name; its aliases have no cycle.
Chain(n) ==
  LET from[m \in Names] == IF Zone[m] = None THEN <<>>
                           ELSE IF Zone[m].type = "CNAME" THEN <<Zone[m]>> \o from[Zone[m].data]
                           ELSE <<Zone[m]>>
  IN from[n]

UpstreamReply(d) ==
  /\ d \in net /\ d.to = "upstream"
  /\ \E extra \in {<<>>, <<Glue>>} :
       net' = (net \ {d}) \cup
              {[to |-> d.from, from |-> "upstream", owner |-> d.owner, copy |-> FALSE,
                qr |-> TRUE, rd |-> d.rd, rcode |-> 0, name |-> d.name, type |-> d.type,
                records |-> (IF d.type = "A" THEN Chain(d.name) ELSE <<>>) \o extra]}
  /\ UNCHANGED <<duplicates, lost, res>>

-----------------------------------------------------------------------------
(* Properties *)

\* An address that is printed is the one at the end of the aliases of the name
\* that was asked for, though the answer may be a late one to another process
\* (resolver.c:512) or carry records of other names.
AddressOfName ==
  \A r \in Resolvers :
    res[r].result # None =>
      LET c == Chain(res[r].qname)
      IN c # <<>> /\ c[Len(c)].type = "A" /\ c[Len(c)].data = res[r].result

\* A resolver ends unless its query or the answer to it is lost; then it waits
\* for ever (resolver.c:512).
ResolverEnds ==
  \A r \in Resolvers : res[r].phase = "waiting" ~> res[r].phase = "done" \/ r \in lost
=============================================================================
