----------------------------- MODULE DnsNetwork -----------------------------
(* Datagrams between the DNS programs of labs/: any may be lost, delayed     *)
(* past another one, or delivered twice.                                     *)
EXTENDS Integers, Sequences, FiniteSets

CONSTANTS Names,      \* domain names as canonicalize_name leaves them
          Labels,     \* [Names -> Nat], how many labels a name has
          Addresses, None, Resolvers,
          MaxDuplicates    \* bound on the datagrams that are duplicated

ASSUME NameAssumption == Labels \in [Names -> {2, 3, 4}]

VARIABLES net,        \* datagrams on their way
          duplicates, \* how many have been duplicated
          lost        \* history: whose query or answer was lost

netVars == <<net, duplicates, lost>>

\* A type is "A", "CNAME", "other", which is 0, or "junk", anything else.

Send(d) == net' = net \cup {d} /\ UNCHANGED <<duplicates, lost>>
Take(d) == d \in net /\ net' = net \ {d} /\ UNCHANGED <<duplicates, lost>>

Lose(d) ==
  /\ d \in net /\ net' = net \ {d} /\ lost' = lost \cup ({d.owner} \cap Resolvers)
  /\ UNCHANGED duplicates

Duplicate(d) ==
  /\ d \in net /\ duplicates < MaxDuplicates /\ duplicates' = duplicates + 1
  /\ net' = net \cup {[d EXCEPT !.copy = TRUE]}
  /\ UNCHANGED lost
=============================================================================
