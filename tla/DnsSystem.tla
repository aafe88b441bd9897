----------------------------- MODULE DnsSystem -----------------------------
(* Resolvers, the cache server and an upstream server on one network, and    *)
(* a request of another client, valid or not, that is on its way.            *)
EXTENDS DnsServer, DnsResolver

CONSTANTS OtherRequests

ASSUME RequestAssumption ==
  \A d \in OtherRequests :
    /\ d.to = "server" /\ d.from \notin {"server", "upstream"}
    /\ {"to", "from", "name", "copy"} \subseteq DOMAIN d

dnsVars == <<netVars, serverVars, res>>

DnsInit == (\E d \in OtherRequests : net = {d}) /\ duplicates = 0 /\ lost = {} /\ ServerInit /\ ResolverInit

Resolve(r) ==
  \/ \E typed \in Typed, port \in Ports, server \in Servers : Ask(r, typed, port, server)
  \/ \E d \in net : TakeAnswer(r, d)

DnsNext ==
  \/ (Tick \/ ServerStep) /\ UNCHANGED res
  \/ (\E d \in net : Arrive(d)) /\ UNCHANGED res
  \/ (\E d \in net : Lose(d) \/ Duplicate(d)) /\ UNCHANGED <<serverVars, res>>
  \/ (\E r \in Resolvers : Resolve(r)) /\ UNCHANGED serverVars
  \/ (\E d \in net : UpstreamReply(d)) /\ UNCHANGED serverVars

\* The server and the resolvers run, and what is not lost arrives.
Moves(d) ==
  \/ Arrive(d) /\ UNCHANGED res
  \/ UpstreamReply(d) /\ UNCHANGED serverVars
DnsFairness ==
  /\ WF_dnsVars(ServerStep /\ UNCHANGED res)
  /\ WF_dnsVars(\E d \in net : Moves(d))
  /\ \A r \in Resolvers : WF_dnsVars((\E d \in net : TakeAnswer(r, d)) /\ UNCHANGED serverVars)

DnsSpec == DnsInit /\ [][DnsNext]_dnsVars /\ DnsFairness
=============================================================================
