---------------------------- MODULE ThreadCounts ----------------------------
(* Counting the threads that stand at given places of the code, and the      *)
(* hands that hold an item on its way through a queue.                      *)
EXTENDS Integers, FiniteSets

At(pc, S, places) == {t \in S : pc[t] \in places}

Count(pc, S, places) == Cardinality(At(pc, S, places))

\* From pc to pcNext the only thread of S that may move is t, and it moves to `to`.
Moved(pc, pcNext, S, t, to) == \A s \in S : pcNext[s] = IF s = t THEN to ELSE pc[s]

\* The arguments in S for which f is x.
Where(f, S, x) == {s \in S : f[s] = x}

\* How many hands x is in: those of a producer that offers it, of the queue,
\* once for each of its places, and of a consumer that has taken it.
Hands(x, queue, pending, taken, P, C) ==
  Cardinality(Where(pending, P, x)) + Cardinality(Where(queue, DOMAIN queue, x))
    + Cardinality(Where(taken, C, x))
=============================================================================
