------------------------------ MODULE CacheSim ------------------------------
(* The cache simulator labs/cachelab/csim.c: it reads a trace of memory      *)
(* accesses and counts the hits, misses and evictions of a cache of          *)
(* 2^setBits sets of numLines lines of 2^dataBits bytes.                     *)
(*                                                                           *)
(* An int has WordBits bits, and the 64 of the code is twice that.  A shift  *)
(* by more than the width, which cacheSimulate makes and C leaves undefined, *)
(* is taken modulo the width, as the shift instruction of x86 does.  The     *)
(* number of sets is at least two: with -s 0 the index is the whole of the   *)
(* shifted address and leaves the array.  The text of the trace and of the   *)
(* arguments is left out.                                                    *)
EXTENDS Integers, FiniteSets

CONSTANTS WordBits,
          Settings,    \* the triples <<s, E, b>> the program is started with
          Addresses,   \* signed ints, as fscanf stores them
          MaxAccesses  \* bound: calls of cacheSimulate

ASSUME CacheAssumption ==
  /\ WordBits \in Nat \ {0, 1} /\ MaxAccesses \in Nat
  /\ Settings \subseteq (Nat \ {0}) \X (Nat \ {0}) \X Nat
  /\ \A p \in Settings : p[1] + p[3] < WordBits
  /\ Addresses \subseteq -(2 ^ (WordBits - 1)) .. 2 ^ (WordBits - 1) - 1

VARIABLES setBits, numLines, dataBits,   \* the arguments
          sets,                          \* the cache
          hits, misses, evictions,
          again,                         \* second access of an M record, as a set
          asked, lastUse, rehit          \* history: last block; last uses; sets hit

args == <<setBits, numLines, dataBits>>
simVars == <<args, sets, hits, misses, evictions, again, asked, lastUse, rehit>>

SetNumbers == 0 .. 2 ^ setBits - 1
LineNumbers == 0 .. numLines - 1

Block(address) == address \div 2 ^ dataBits

CsimInit ==
  /\ \E p \in Settings : setBits = p[1] /\ numLines = p[2] /\ dataBits = p[3]
  /\ sets = [x \in SetNumbers |->
               [l \in LineNumbers |-> [valid |-> FALSE, accessCount |-> 0, tag |-> 0]]]
  /\ hits = 0 /\ misses = 0 /\ evictions = 0
  /\ again = {} /\ asked = 0 /\ rehit = {}
  /\ lastUse = [b \in {Block(address) : address \in Addresses} |-> 0]

-----------------------------------------------------------------------------
ShiftLeft(x, n) == LET k == n % WordBits IN (x % 2 ^ (WordBits - k)) * 2 ^ k
ShiftRight(x, n) == x \div 2 ^ (n % WordBits)

SetIndex(address) ==
  LET tagBits == 2 * WordBits - (setBits + dataBits)
  IN ShiftRight(ShiftLeft(address, tagBits), tagBits + dataBits)

MutantTag(address) == address \div 2 ^ (setBits + dataBits + 1)  \* one bit short
Tag(address) == address \div 2 ^ (setBits + dataBits)

\* The first line that is not valid.
FindEmptyLine(lines) ==
  CHOOSE l \in LineNumbers : ~lines[l].valid /\ \A k \in 0 .. l - 1 : lines[k].valid

\* The first line with the least count, and the greatest count of the set.
MutantFindLRU(lines) ==  \* the comparison the wrong way round
  CHOOSE l \in LineNumbers : \A k \in LineNumbers : lines[l].accessCount >= lines[k].accessCount
FindLRU(lines) ==
  CHOOSE l \in LineNumbers :
    /\ \A k \in LineNumbers : lines[l].accessCount <= lines[k].accessCount
    /\ \A k \in 0 .. l - 1 : lines[l].accessCount < lines[k].accessCount
MaxUsed(lines) ==
  CHOOSE n \in {lines[l].accessCount : l \in LineNumbers} :
    \A l \in LineNumbers : lines[l].accessCount <= n

Hits(address) ==
  {l \in LineNumbers : LET line == sets[SetIndex(address)][l]
                       IN line.valid /\ line.tag = Tag(address)}

\* The line a miss fills, and what it becomes.
Victim(lines) ==
  IF \A l \in LineNumbers : lines[l].valid THEN FindLRU(lines) ELSE FindEmptyLine(lines)

Touch(address) ==
  asked' = Block(address) /\ lastUse' = [lastUse EXCEPT ![Block(address)] = hits + misses + 1]

Used(line) == [line EXCEPT !.accessCount = @ + 1]

HitLine(address) ==
  /\ Hits(address) # {}
  /\ sets' = [sets EXCEPT ![SetIndex(address)] =
                [l \in LineNumbers |-> IF l \in Hits(address) THEN Used(@[l]) ELSE @[l]]]
  /\ hits' = hits + Cardinality(Hits(address))
  /\ rehit' = rehit \cup {SetIndex(address)}
  /\ UNCHANGED <<misses, evictions>>

MissLine(address) ==
  LET lines == sets[SetIndex(address)]
      full == \A l \in LineNumbers : lines[l].valid
  IN
  /\ Hits(address) = {}
  /\ sets' = [sets EXCEPT ![SetIndex(address)][Victim(lines)] =
                [valid |-> TRUE, tag |-> Tag(address), accessCount |-> MaxUsed(lines) + 1]]
  /\ misses' = misses + 1
  /\ evictions' = IF full THEN evictions + 1 ELSE evictions
  /\ UNCHANGED <<hits, rehit>>

CacheSimulate(address) ==
  /\ hits + misses < MaxAccesses
  /\ HitLine(address) \/ MissLine(address)
  /\ Touch(address)
  /\ UNCHANGED args

\* main: I changes nothing, L and S access once, M twice.
LoadOrStore(address) == again = {} /\ CacheSimulate(address) /\ again' = {}
Modify(address) == again = {} /\ CacheSimulate(address) /\ again' = {address}
ModifyAgain(address) == address \in again /\ CacheSimulate(address) /\ again' = {}

CsimNext ==
  \E address \in Addresses :
    LoadOrStore(address) \/ Modify(address) \/ ModifyAgain(address)

CsimSpec == CsimInit /\ [][CsimNext]_simVars

-----------------------------------------------------------------------------
(* Properties *)

ValidLines == {p \in SetNumbers \X LineNumbers : sets[p[1]][p[2]].valid}
Resident == {sets[p[1]][p[2]].tag * 2 ^ setBits + p[1] : p \in ValidLines}

Blocks == INSTANCE BlockCache WITH resident <- Resident

\* Whatever the trace, the simulator behaves as a set-associative cache: the set
\* and the tag of an address stand for its block, no block is in two lines, and
\* the three counters count what happened (csim.c:331-394).
ImplementsCache == Blocks!Spec

\* In a set in which nothing has been hit yet, the block that goes is the one
\* used least recently, "a least recently used replacement policy" (csim.c:283).
\* After a hit, which only adds one to the line's count (csim.c:355), it need
\* not be.
EvictsOldest ==
  [][\A b \in Resident \ Resident' :
       b % 2 ^ setBits \notin rehit =>
         \A r \in Resident : r % 2 ^ setBits = b % 2 ^ setBits /\ r # b => lastUse[b] < lastUse[r]]_simVars
=============================================================================
