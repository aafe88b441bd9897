----------------------------- MODULE BlockCache -----------------------------
(* What a set-associative cache promises, whatever its replacement policy:   *)
(* an access hits exactly when its block is resident, a miss brings the      *)
(* block in, and evicts one block of the same set exactly when that set is   *)
(* full.                                                                     *)
EXTENDS Integers, FiniteSets

VARIABLES setBits, numLines,        \* 2^setBits sets of numLines lines each
          resident,                 \* the block numbers in the cache
          asked,                    \* the block of the last access
          hits, misses, evictions

vars == <<setBits, numLines, resident, asked, hits, misses, evictions>>

SameSet(b) == {r \in resident : r % 2 ^ setBits = b % 2 ^ setBits}

Init ==
  /\ setBits \in Nat /\ numLines \in Nat \ {0} /\ asked \in Int
  /\ resident = {} /\ hits = 0 /\ misses = 0 /\ evictions = 0

Hit ==
  /\ hits' = hits + 1
  /\ UNCHANGED <<setBits, numLines, resident, misses, evictions>>

Miss(b) ==
  /\ b \notin resident /\ misses' = misses + 1
  /\ \/ /\ Cardinality(SameSet(b)) < numLines
        /\ resident' = resident \cup {b} /\ UNCHANGED evictions
     \/ /\ Cardinality(SameSet(b)) = numLines
        /\ \E v \in SameSet(b) : resident' = (resident \ {v}) \cup {b}
        /\ evictions' = evictions + 1
  /\ UNCHANGED <<setBits, numLines, hits>>

Access(block) == IF block \in resident THEN Hit ELSE Miss(block)
Next == Access(asked')

Spec == Init /\ [][Next]_vars
=============================================================================
