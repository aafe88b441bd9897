--------------------------- MODULE CacheLabProofs ---------------------------
(* For any word width, cache, addresses and matrix: the cache simulator      *)
(* behaves as a set-associative cache and evicts the least recently used     *)
(* block of a set without hits; the transpose kernels transpose.             *)
EXTENDS CacheSim, Transpose, FiniteSetTheorems, WellFoundedInduction, TLAPS

-----------------------------------------------------------------------------
(* Arithmetic *)

\* A set of naturals that is not empty has a least element.
LEMMA LeastNat ==
  ASSUME NEW S \in SUBSET Nat, S # {}
  PROVE  \E x \in S : \A y \in S : x <= y
<1> DEFINE R == {p \in Nat \X Nat : p[1] < p[2]}
<1>1. IsWellFoundedOn(R, Nat)
  BY NatLessThanWellFounded, Zenon DEF OpToRel
<1>2. PICK x \in S : \A y \in S : ~(<<y, x>> \in R)
  <2> HIDE DEF R
  <2> QED BY <1>1, WFMin
<1>3. ASSUME NEW y \in S PROVE x <= y
  <2>1. <<y, x>> \notin R
    <3> HIDE DEF R
    <3> QED BY <1>2
  <2>2. x \in Nat /\ y \in Nat /\ ~(y < x)
    BY <2>1
  <2> QED BY <2>2
<1> QED BY <1>3

\* One that is bounded has a greatest one.
LEMMA GreatestNat ==
  ASSUME NEW S \in SUBSET Nat, S # {}, NEW b \in Nat, \A x \in S : x <= b
  PROVE  \E x \in S : \A y \in S : y <= x
<1> DEFINE D == {n \in Nat : \E x \in S : n = b - x}
<1>1. D \in SUBSET Nat /\ D # {}
  <2>1. PICK x \in S : TRUE
    OBVIOUS
  <2>2. b - x \in Nat /\ b - x \in D
    BY <2>1
  <2> QED BY <2>2
<1>2. PICK n \in D : \A m \in D : n <= m
  <2> HIDE DEF D
  <2> QED BY <1>1, LeastNat
<1>3. PICK x \in S : n = b - x
  BY <1>2
<1>4. ASSUME NEW y \in S PROVE y <= x
  <2>1. b - y \in D
    OBVIOUS
  <2>2. n <= b - y
    BY <1>2, <2>1
  <2> QED BY <1>3, <2>2
<1> QED BY <1>4

\* Quotient and remainder.
LEMMA DivMod ==
  ASSUME NEW x \in Int, NEW d \in Nat \ {0}
  PROVE  x \div d \in Int /\ x % d \in 0 .. d - 1 /\ x = d * (x \div d) + (x % d)
OBVIOUS

LEMMA DivModUnique ==
  ASSUME NEW d \in Nat \ {0}, NEW q \in Int, NEW r \in 0 .. d - 1
  PROVE  (d * q + r) \div d = q /\ (d * q + r) % d = r
<1>1. \A p \in Int, s \in 0 .. d - 1 : d * q + r = d * p + s => p = q /\ s = r
  OBVIOUS
<1>2. d * q + r \in Int
  OBVIOUS
<1> DEFINE x == d * q + r
<1> HIDE DEF x
<1>3. x \div d \in Int /\ x % d \in 0 .. d - 1 /\ x = d * (x \div d) + (x % d)
  BY <1>2, DivMod DEF x
<1>4. x \div d = q /\ x % d = r
  BY <1>1, <1>3 DEF x
<1> QED BY <1>4 DEF x

LEMMA OnceMore == \A d \in Nat \ {0} : \A r \in 0 .. d - 1 : (d + r) % d = r
<1> TAKE d \in Nat \ {0}
<1> TAKE r \in 0 .. d - 1
<1>1. d + r = d * 1 + r
  OBVIOUS
<1>2. (d * 1 + r) % d = r
  BY DivModUnique
<1> QED BY <1>1, <1>2

\* The digits of x to the base a, and then of its quotient to the base b.
LEMMA DivDiv ==
  ASSUME NEW x \in Int, NEW a \in Nat \ {0}, NEW b \in Nat \ {0}
  PROVE  /\ (x \div a) \div b = x \div (a * b)
         /\ (x \div a) % b = (x % (a * b)) \div a
<1> DEFINE q == x \div a
           r == x % a
           p == q \div b
           s == q % b
<1>1. q \in Int /\ r \in 0 .. a - 1 /\ x = a * q + r
  BY DivMod
<1>2. p \in Int /\ s \in 0 .. b - 1 /\ q = b * p + s
  BY <1>1, DivMod
<1> HIDE DEF q, r, p, s
<1>3. a * b \in Nat \ {0}
  OBVIOUS
<1>4. x = (a * b) * p + (a * s + r)
  BY <1>1, <1>2
<1>5. a * s + r \in 0 .. (a * b) - 1
  <2>1. a * s <= a * (b - 1)
    BY <1>2
  <2> QED BY <1>1, <1>2, <2>1
<1>6. x \div (a * b) = p /\ x % (a * b) = a * s + r
  BY <1>2, <1>3, <1>4, <1>5, DivModUnique
<1>7. (a * s + r) \div a = s
  BY <1>1, <1>2, DivModUnique
<1> QED BY <1>6, <1>7 DEF q, p, s

LEMMA DivCancels ==
  ASSUME NEW x \in Int, NEW a \in Nat \ {0}, NEW b \in Nat \ {0}
  PROVE  (x * b) \div (a * b) = x \div a
<1>1. ((x * b) \div b) = x
  <2>1. x * b = b * x + 0 /\ 0 \in 0 .. b - 1
    OBVIOUS
  <2> QED BY <2>1, DivModUnique
<1>2. ((x * b) \div b) \div a = (x * b) \div (b * a)
  BY DivDiv
<1>3. b * a = a * b
  OBVIOUS
<1> QED BY <1>1, <1>2, <1>3

\* Powers of two, as the numbers of subsets.
LEMMA PowerType ==
  ASSUME NEW n \in Nat
  PROVE  2 ^ n \in Nat \ {0}
<1>1. IsFiniteSet(1 .. n) /\ Cardinality(1 .. n) = n
  BY FS_Interval
<1>2. Cardinality(SUBSET (1 .. n)) = 2 ^ n /\ IsFiniteSet(SUBSET (1 .. n))
  BY <1>1, FS_SUBSET
<1>3. {} \in SUBSET (1 .. n)
  OBVIOUS
<1>4. Cardinality(SUBSET (1 .. n)) \in Nat /\ Cardinality(SUBSET (1 .. n)) # 0
  BY <1>2, <1>3, FS_CardinalityType, FS_EmptySet
<1> QED BY <1>2, <1>4

LEMMA PowerZero == 2 ^ 0 = 1
<1>1. IsFiniteSet({}) /\ Cardinality({}) = 0
  BY FS_EmptySet
<1>2. Cardinality(SUBSET {}) = 2 ^ 0
  BY <1>1, FS_SUBSET
<1>3. SUBSET {} = {{}}
  OBVIOUS
<1> QED BY <1>2, <1>3, FS_Singleton

LEMMA PowerNext ==
  ASSUME NEW n \in Nat
  PROVE  2 ^ (n + 1) = 2 * 2 ^ n
<1> DEFINE S == SUBSET (1 .. n)
           T == {X \cup {n + 1} : X \in S}
           f == [X \in S |-> X \cup {n + 1}]
<1>1. IsFiniteSet(1 .. n) /\ Cardinality(1 .. n) = n
      /\ IsFiniteSet(1 .. n + 1) /\ Cardinality(1 .. n + 1) = n + 1
  BY FS_Interval
<1>2. Cardinality(S) = 2 ^ n /\ IsFiniteSet(S) /\ Cardinality(SUBSET (1 .. n + 1)) = 2 ^ (n + 1)
  BY <1>1, FS_SUBSET
<1>3. SUBSET (1 .. n + 1) = S \cup T
  <2>1. ASSUME NEW X \in SUBSET (1 .. n + 1) PROVE X \in S \cup T
    <3>1. CASE n + 1 \in X
      <4>1. X \ {n + 1} \in S /\ X = (X \ {n + 1}) \cup {n + 1}
        BY <3>1
      <4> QED BY <4>1
    <3>2. CASE n + 1 \notin X
      BY <3>2
    <3> QED BY <3>1, <3>2
  <2>2. \A X \in S \cup T : X \in SUBSET (1 .. n + 1)
    OBVIOUS
  <2> QED BY <2>1, <2>2
<1>4. S \cap T = {}
  OBVIOUS
<1>5. f \in Bijection(S, T)
  <2>1. f \in [S -> T] /\ (\A Y \in T : \E X \in S : f[X] = Y)
        /\ \A X \in S : f[X] = X \cup {n + 1}
    <3> HIDE DEF S
    <3> QED OBVIOUS
  <2>2. \A X, Y \in S : X \cup {n + 1} = Y \cup {n + 1} => X = Y
    <3> SUFFICES ASSUME NEW X \in S, NEW Y \in S, X \cup {n + 1} = Y \cup {n + 1} PROVE X = Y
      OBVIOUS
    <3>1. n + 1 \notin X /\ n + 1 \notin Y
      OBVIOUS
    <3> QED BY <3>1
  <2>3. \A X, Y \in S : f[X] = f[Y] => X = Y
    <3> HIDE DEF S, T, f
    <3> QED BY <2>1, <2>2
  <2> HIDE DEF S, T, f
  <2> QED BY <2>1, <2>3 DEF Bijection, Injection, Surjection, IsInjective
<1> HIDE DEF S, T, f
<1>6. IsFiniteSet(T) /\ Cardinality(T) = Cardinality(S)
  BY <1>2, <1>5, FS_Bijection DEF ExistsBijection
<1>7. Cardinality(S \cup T) = Cardinality(S) + Cardinality(T) - Cardinality(S \cap T)
  BY <1>2, <1>6, FS_Union
<1>8. Cardinality(S \cap T) = 0
  BY <1>4, FS_EmptySet
<1>9. 2 ^ n \in Nat
  BY PowerType
<1>10. 2 ^ (n + 1) = 2 ^ n + 2 ^ n - 0
  BY <1>2, <1>3, <1>6, <1>7, <1>8
<1> QED BY <1>9, <1>10

LEMMA PowerSum ==
  ASSUME NEW m \in Nat, NEW n \in Nat
  PROVE  2 ^ (m + n) = 2 ^ m * 2 ^ n
<1> DEFINE Bad == {k \in Nat : 2 ^ (m + k) # 2 ^ m * 2 ^ k}
<1>1. ASSUME Bad # {} PROVE FALSE
  <2>1. PICK k \in Bad : \A j \in Bad : k <= j
    <3>1. Bad \in SUBSET Nat
      OBVIOUS
    <3> HIDE DEF Bad
    <3> QED BY <1>1, <3>1, LeastNat
  <2>2. k \in Nat /\ 2 ^ (m + k) # 2 ^ m * 2 ^ k
    BY <2>1
  <2>3. k # 0
    <3>1. 2 ^ m * 1 = 2 ^ m /\ m + 0 = m
      BY PowerType
    <3> QED BY <2>2, <3>1, PowerZero
  <2>4. k - 1 \in Nat /\ 2 ^ (m + (k - 1)) = 2 ^ m * 2 ^ (k - 1)
    BY <2>1, <2>2, <2>3
  <2>5. 2 ^ k = 2 * 2 ^ (k - 1) /\ 2 ^ (m + k) = 2 * 2 ^ (m + (k - 1))
    <3>1. k = (k - 1) + 1 /\ m + k = (m + (k - 1)) + 1 /\ m + (k - 1) \in Nat
      BY <2>4
    <3> QED BY <2>4, <3>1, PowerNext
  <2>6. 2 ^ m \in Nat /\ 2 ^ (k - 1) \in Nat
    BY <2>4, PowerType
  <2> QED BY <2>2, <2>4, <2>5, <2>6
<1> QED BY <1>1

-----------------------------------------------------------------------------
(* The simulator *)

Line == [valid : BOOLEAN, accessCount : Nat, tag : Int]

BlockOf(x, l) == sets[x][l].tag * 2 ^ setBits + x

CacheTypes ==
  /\ <<setBits, numLines, dataBits>> \in Settings
  /\ sets \in [SetNumbers -> [LineNumbers -> Line]]
  /\ hits \in Nat /\ misses \in Nat /\ evictions \in Nat
  /\ again \subseteq Addresses /\ asked \in Int
  /\ lastUse \in [{Block(address) : address \in Addresses} -> Nat]

\* No block is in two lines.
OneLine ==
  \A x \in SetNumbers, l, k \in LineNumbers :
    sets[x][l].valid /\ sets[x][k].valid /\ sets[x][l].tag = sets[x][k].tag => l = k

\* In a set without hits the counts are in the order of the last uses.
UsedInv ==
  \A x \in SetNumbers, l \in LineNumbers :
    /\ sets[x][l].accessCount <= hits + misses
    /\ sets[x][l].valid =>
         /\ BlockOf(x, l) \in DOMAIN lastUse /\ lastUse[BlockOf(x, l)] <= hits + misses
         /\ x \notin rehit => \A k \in LineNumbers : k # l /\ sets[x][k].valid =>
              /\ sets[x][l].accessCount # sets[x][k].accessCount
              /\ sets[x][l].accessCount < sets[x][k].accessCount
                   => lastUse[BlockOf(x, l)] < lastUse[BlockOf(x, k)]

CacheInv == CacheTypes /\ OneLine /\ UsedInv

\* The arguments are small enough, and there are lines and sets.
LEMMA Sizes ==
  ASSUME CacheTypes
  PROVE  /\ setBits \in Nat \ {0} /\ numLines \in Nat \ {0} /\ dataBits \in Nat
         /\ WordBits \in Nat /\ setBits + dataBits < WordBits
         /\ 2 ^ setBits \in Nat \ {0} /\ 2 ^ dataBits \in Nat \ {0}
         /\ 0 \in LineNumbers /\ LineNumbers \subseteq Nat
<1>1. /\ setBits \in Nat \ {0} /\ numLines \in Nat \ {0} /\ dataBits \in Nat
      /\ WordBits \in Nat /\ setBits + dataBits < WordBits
  BY CacheAssumption DEF CacheTypes
<1> QED BY <1>1, PowerType DEF LineNumbers

\* A block number is a tag and the number of a set.
LEMMA SetOfBlock ==
  ASSUME CacheTypes, NEW x \in SetNumbers, NEW tag \in Int
  PROVE  (tag * 2 ^ setBits + x) \div 2 ^ setBits = tag /\ (tag * 2 ^ setBits + x) % 2 ^ setBits = x
<1> DEFINE d == 2 ^ setBits
<1>1. d \in Nat \ {0} /\ x \in 0 .. d - 1
  BY Sizes DEF SetNumbers
<1> HIDE DEF d
<1>2. tag * d = d * tag
  BY <1>1
<1>3. (tag * d + x) \div d = tag /\ (tag * d + x) % d = x
  BY <1>1, <1>2, DivModUnique
<1> QED BY <1>3 DEF d

\* What cacheSimulate's shifts leave of an address is the set and the tag of its
\* block, though 64 is not the width of an int (csim.c:340).
LEMMA ShiftsAreRight ==
  ASSUME CacheTypes, NEW address \in Addresses
  PROVE  /\ Block(address) \in Int /\ Tag(address) \in Int /\ SetIndex(address) \in SetNumbers
         /\ Block(address) = Tag(address) * 2 ^ setBits + SetIndex(address)
<1> DEFINE s == setBits
           b == dataBits
           W == WordBits
           S == 2 ^ s
           D == 2 ^ b
           K == 2 ^ (W - (s + b))
<1>1. s \in Nat \ {0} /\ b \in Nat /\ W \in Nat /\ s + b < W
  BY Sizes
<1>2. address \in Int
  <2>1. 2 ^ (WordBits - 1) \in Nat
    BY <1>1, PowerType
  <2> QED BY <2>1, CacheAssumption
<1>3. (2 * W - (s + b)) % W = W - (s + b) /\ ((2 * W - (s + b)) + b) % W = W - s
  <2>1. 2 * W - (s + b) = W + (W - (s + b)) /\ (2 * W - (s + b)) + b = W + (W - s)
    BY <1>1
  <2>2. W \in Nat \ {0} /\ W - (s + b) \in 0 .. W - 1 /\ W - s \in 0 .. W - 1
    BY <1>1
  <2>3. (W + (W - (s + b))) % W = W - (s + b) /\ (W + (W - s)) % W = W - s
    BY <2>2, OnceMore
  <2> QED BY <2>1, <2>3
<1>4. S \in Nat \ {0} /\ D \in Nat \ {0} /\ K \in Nat \ {0}
  BY <1>1, PowerType
<1>5. 2 ^ (s + b) = D * S /\ 2 ^ (W - s) = D * K
  <2>1. b + s = s + b /\ b + (W - (s + b)) = W - s /\ W - (s + b) \in Nat
    BY <1>1
  <2> QED BY <1>1, <2>1, PowerSum
<1>6. SetIndex(address) = ((address % (D * S)) * K) \div (D * K)
  <2>1. W - (W - (s + b)) = s + b
    BY <1>1
  <2> QED BY <1>3, <1>5, <2>1 DEF SetIndex, ShiftLeft, ShiftRight
<1>7. Tag(address) = address \div (D * S) /\ Block(address) = address \div D
  BY <1>5 DEF Tag, Block
<1> HIDE DEF S, D, K
<1>8. D * S \in Nat \ {0}
  BY <1>4
<1>9. SetIndex(address) = (address % (D * S)) \div D
  <2>1. address % (D * S) \in Int
    BY <1>2, <1>8, DivMod
  <2> QED BY <1>4, <1>6, <2>1, DivCancels
<1>10. (address \div D) \div S = address \div (D * S) /\ (address \div D) % S = (address % (D * S)) \div D
  BY <1>2, <1>4, DivDiv
<1>11. Block(address) \in Int
  BY <1>2, <1>4, <1>7, DivMod
<1>12. Tag(address) = Block(address) \div S /\ SetIndex(address) = Block(address) % S
  BY <1>7, <1>9, <1>10
<1>13. Block(address) \div S \in Int /\ Block(address) % S \in 0 .. S - 1
       /\ Block(address) = S * (Block(address) \div S) + (Block(address) % S)
  BY <1>4, <1>11, DivMod
<1>14. Tag(address) \in Int /\ SetIndex(address) \in 0 .. S - 1
       /\ Block(address) = S * Tag(address) + SetIndex(address)
  BY <1>12, <1>13
<1>15. S * Tag(address) = Tag(address) * S
  BY <1>4, <1>14
<1> QED BY <1>11, <1>14, <1>15 DEF SetNumbers, S

\* Lines hold the same block only if they are one.
LEMMA BlocksDiffer ==
  ASSUME CacheTypes, OneLine, NEW x \in SetNumbers, NEW l \in LineNumbers, sets[x][l].valid,
         NEW y \in SetNumbers, NEW k \in LineNumbers, sets[y][k].valid,
         BlockOf(x, l) = BlockOf(y, k)
  PROVE  x = y /\ l = k
<1>1. sets[x][l].tag \in Int /\ sets[y][k].tag \in Int
  BY DEF CacheTypes, Line
<1>2. x = y /\ sets[x][l].tag = sets[y][k].tag
  BY <1>1, SetOfBlock DEF BlockOf
<1> QED BY <1>2 DEF OneLine

\* A line hits if it holds the block.
LEMMA HitsAre ==
  ASSUME CacheTypes, OneLine, NEW address \in Addresses
  PROVE  \A y \in SetNumbers, k \in LineNumbers :
           sets[y][k].valid /\ BlockOf(y, k) = Block(address)
             <=> y = SetIndex(address) /\ k \in Hits(address)
<1> DEFINE x == SetIndex(address)
<1>1. x \in SetNumbers /\ Tag(address) \in Int /\ Block(address) = Tag(address) * 2 ^ setBits + x
  BY ShiftsAreRight
<1> TAKE y \in SetNumbers, k \in LineNumbers
<1>2. sets[y][k].tag \in Int
  BY DEF CacheTypes, Line
<1>3. ASSUME sets[y][k].valid, BlockOf(y, k) = Block(address)
      PROVE  y = x /\ k \in Hits(address)
  <2>1. y = x /\ sets[y][k].tag = Tag(address)
    <3> HIDE DEF x
    <3> QED BY <1>1, <1>2, <1>3, SetOfBlock DEF BlockOf
  <2> QED BY <1>3, <2>1 DEF Hits
<1>4. ASSUME y = x, k \in Hits(address)
      PROVE  sets[y][k].valid /\ BlockOf(y, k) = Block(address)
  BY <1>1, <1>4 DEF Hits, BlockOf
<1> QED BY <1>3, <1>4

\* Only line l of set x is written.
Writes(x, l, line) ==
  /\ sets' \in [SetNumbers -> [LineNumbers -> Line]]
  /\ \A y \in SetNumbers, k \in LineNumbers :
       sets'[y][k] = IF y = x /\ k = l THEN line ELSE sets[y][k]

LEMMA HitWrites ==
  ASSUME CacheInv, NEW address \in Addresses, HitLine(address)
  PROVE  \E l \in Hits(address) :
           /\ sets[SetIndex(address)][l].valid /\ BlockOf(SetIndex(address), l) = Block(address)
           /\ Writes(SetIndex(address), l, Used(sets[SetIndex(address)][l]))
           /\ hits' = hits + 1
<1> DEFINE x == SetIndex(address)
<1> USE DEF CacheInv
<1>1. x \in SetNumbers
  BY ShiftsAreRight
<1>2. PICK l \in Hits(address) : TRUE
  BY DEF HitLine
<1>3. l \in LineNumbers
  BY DEF Hits
<1>4. Hits(address) = {l}
  BY <1>1 DEF Hits, OneLine
<1>5. hits' = hits + 1
  BY <1>4, FS_Singleton DEF HitLine
<1>6. sets' = [sets EXCEPT ![x] =
                 [k \in LineNumbers |-> IF k \in Hits(address) THEN Used(sets[x][k])
                                                               ELSE sets[x][k]]]
  BY DEF HitLine
<1> HIDE DEF x
<1>7. \A y \in SetNumbers : y # x => sets'[y] = sets[y]
  BY <1>6 DEF CacheTypes
<1>8. \A k \in LineNumbers :
        sets'[x][k] = IF k = l THEN Used(sets[x][l]) ELSE sets[x][k]
  BY <1>1, <1>4, <1>6 DEF CacheTypes
<1>9. DOMAIN sets' = SetNumbers /\ sets'[x] = [k \in LineNumbers |-> sets'[x][k]]
  BY <1>1, <1>6 DEF CacheTypes
<1>10. \A k \in LineNumbers : sets'[x][k] \in Line
  <2>1. \A k \in LineNumbers : sets[x][k] \in Line
    BY <1>1 DEF CacheTypes
  <2>2. \A r \in Line : Used(r) \in Line
    BY DEF Line, Used
  <2> QED BY <1>8, <2>1, <2>2
<1>11. sets'[x] \in [LineNumbers -> Line]
  BY <1>9, <1>10
<1>12. sets' \in [SetNumbers -> [LineNumbers -> Line]]
  BY <1>1, <1>6, <1>7, <1>9, <1>11 DEF CacheTypes
<1>13. Writes(x, l, Used(sets[x][l]))
  BY <1>1, <1>7, <1>8, <1>12 DEF Writes
<1> QED BY <1>1, <1>3, <1>5, <1>13, HitsAre DEF x

Full(x) == \A l \in LineNumbers : sets[x][l].valid

\* The loops that look for the first empty line, for the least and for the
\* greatest count end at one.
LEMMA EmptyLine ==
  ASSUME CacheTypes, NEW x \in SetNumbers, ~Full(x)
  PROVE  FindEmptyLine(sets[x]) \in LineNumbers /\ ~sets[x][FindEmptyLine(sets[x])].valid
<1> DEFINE Empty == {l \in LineNumbers : ~sets[x][l].valid}
<1>1. Empty \in SUBSET Nat /\ Empty # {}
  BY Sizes DEF Full
<1>2. PICK l \in Empty : \A k \in Empty : l <= k
  <2> HIDE DEF Empty
  <2> QED BY <1>1, LeastNat
<1>3. \A k \in 0 .. l - 1 : k \in LineNumbers /\ k \notin Empty
  BY <1>1, <1>2, Sizes DEF LineNumbers
<1>4. l \in LineNumbers /\ ~sets[x][l].valid /\ \A k \in 0 .. l - 1 : sets[x][k].valid
  BY <1>2, <1>3
<1> QED BY <1>4 DEF FindEmptyLine

LEMMA LeastUsed ==
  ASSUME CacheTypes, NEW x \in SetNumbers
  PROVE  /\ FindLRU(sets[x]) \in LineNumbers
         /\ \A k \in LineNumbers :
              sets[x][FindLRU(sets[x])].accessCount <= sets[x][k].accessCount
<1> DEFINE c(l) == sets[x][l].accessCount
           Counts == {c(l) : l \in LineNumbers}
<1>1. \A l \in LineNumbers : c(l) \in Nat
  BY DEF CacheTypes, Line
<1>2. Counts \in SUBSET Nat /\ Counts # {}
  BY <1>1, Sizes
<1>3. PICK n \in Counts : \A m \in Counts : n <= m
  <2> HIDE DEF Counts
  <2> QED BY <1>2, LeastNat
<1> DEFINE Least == {l \in LineNumbers : c(l) = n}
<1>4. Least \in SUBSET Nat /\ Least # {}
  BY <1>3, Sizes
<1>5. PICK l \in Least : \A k \in Least : l <= k
  <2> HIDE DEF Least
  <2> QED BY <1>4, LeastNat
<1>6. \A k \in LineNumbers : c(l) <= c(k)
  BY <1>3, <1>5
<1>7. \A k \in 0 .. l - 1 : c(l) < c(k)
  <2> TAKE k \in 0 .. l - 1
  <2>1. k \in LineNumbers /\ k \notin Least
    BY <1>4, <1>5, Sizes DEF LineNumbers
  <2>2. c(k) # n /\ n <= c(k) /\ c(l) = n /\ n \in Nat /\ c(k) \in Nat
    BY <1>1, <1>2, <1>3, <1>5, <2>1
  <2> QED BY <2>2
<1>8. l \in LineNumbers
  BY <1>5
<1> QED BY <1>6, <1>7, <1>8 DEF FindLRU

LEMMA MostUsed ==
  ASSUME CacheTypes, UsedInv, NEW x \in SetNumbers
  PROVE  /\ MaxUsed(sets[x]) \in Nat /\ MaxUsed(sets[x]) <= hits + misses
         /\ \A k \in LineNumbers : sets[x][k].accessCount <= MaxUsed(sets[x])
<1> DEFINE c(l) == sets[x][l].accessCount
           Counts == {c(l) : l \in LineNumbers}
<1>1. \A l \in LineNumbers : c(l) \in Nat /\ c(l) <= hits + misses
  BY DEF CacheTypes, Line, UsedInv
<1>2. Counts \in SUBSET Nat /\ Counts # {} /\ hits + misses \in Nat
      /\ \A n \in Counts : n <= hits + misses
  BY <1>1, Sizes DEF CacheTypes
<1>3. PICK n \in Counts : \A m \in Counts : m <= n
  <2> HIDE DEF Counts
  <2> QED BY <1>2, GreatestNat
<1>4. \A l \in LineNumbers : sets[x][l].accessCount <= n
  BY <1>3
<1>5. MaxUsed(sets[x]) \in Counts /\ \A l \in LineNumbers : c(l) <= MaxUsed(sets[x])
  BY <1>3, <1>4 DEF MaxUsed
<1> QED BY <1>2, <1>5

LEMMA MissWrites ==
  ASSUME CacheInv, NEW address \in Addresses, MissLine(address)
  PROVE  LET x == SetIndex(address)
             v == Victim(sets[x])
         IN /\ v \in LineNumbers /\ (sets[x][v].valid <=> Full(x))
            /\ Full(x) => \A k \in LineNumbers : sets[x][v].accessCount <= sets[x][k].accessCount
            /\ Writes(x, v, [valid |-> TRUE, tag |-> Tag(address),
                             accessCount |-> MaxUsed(sets[x]) + 1])
            /\ misses' = misses + 1 /\ evictions' = IF Full(x) THEN evictions + 1 ELSE evictions
<1> DEFINE x == SetIndex(address)
           v == Victim(sets[x])
           new == [valid |-> TRUE, tag |-> Tag(address), accessCount |-> MaxUsed(sets[x]) + 1]
<1> USE DEF CacheInv
<1>1. x \in SetNumbers /\ Tag(address) \in Int
  BY ShiftsAreRight
<1>2. /\ sets' = [sets EXCEPT ![x][v] = new]
      /\ misses' = misses + 1 /\ evictions' = IF Full(x) THEN evictions + 1 ELSE evictions
  BY DEF MissLine, Full
<1>3. new \in Line
  BY <1>1, MostUsed DEF Line
<1> HIDE DEF x, new
<1>4. v \in LineNumbers /\ (sets[x][v].valid <=> Full(x))
      /\ (Full(x) => \A k \in LineNumbers : sets[x][v].accessCount <= sets[x][k].accessCount)
  <2>1. CASE Full(x)
    <3>1. v = FindLRU(sets[x])
      BY <2>1 DEF Victim, Full
    <3> QED BY <1>1, <2>1, <3>1, LeastUsed DEF Full
  <2>2. CASE ~Full(x)
    <3>1. v = FindEmptyLine(sets[x])
      BY <2>2 DEF Victim, Full
    <3> QED BY <1>1, <2>2, <3>1, EmptyLine
  <2> QED BY <2>1, <2>2
<1> HIDE DEF v
<1>5. Writes(x, v, new)
  BY <1>1, <1>2, <1>3, <1>4 DEF Writes, CacheTypes
<1> QED BY <1>2, <1>4, <1>5 DEF x, v, new

-----------------------------------------------------------------------------
(* The invariant *)

LEMMA InitCache == CsimInit => CacheInv
<1> SUFFICES ASSUME CsimInit PROVE CacheInv
  OBVIOUS
<1>1. <<setBits, numLines, dataBits>> \in Settings
  <2>1. PICK p \in Settings : setBits = p[1] /\ numLines = p[2] /\ dataBits = p[3]
    BY DEF CsimInit
  <2>2. p \in (Nat \ {0}) \X (Nat \ {0}) \X Nat
    BY CacheAssumption
  <2>3. p = <<p[1], p[2], p[3]>>
    BY <2>2
  <2> QED BY <2>1, <2>3
<1>2. \A x \in SetNumbers, l \in LineNumbers : sets[x][l] = [valid |-> FALSE, accessCount |-> 0, tag |-> 0]
  BY DEF CsimInit
<1>3. sets \in [SetNumbers -> [LineNumbers -> Line]]
  BY DEF CsimInit, Line
<1>4. CacheTypes
  BY <1>1, <1>3 DEF CsimInit, CacheTypes
<1>5. OneLine /\ UsedInv
  BY <1>2 DEF OneLine, UsedInv, CsimInit
<1> QED BY <1>4, <1>5 DEF CacheInv

\* What an access to a block does, hit or miss: one line of its set holds it,
\* and has been used last; no other line changes.
Accessed(x, l, line, block) ==
  /\ x \in SetNumbers /\ l \in LineNumbers /\ Writes(x, l, line)
  /\ line.valid /\ block = line.tag * 2 ^ setBits + x /\ block \in DOMAIN lastUse
  /\ \A k \in LineNumbers : k # l /\ sets[x][k].valid => BlockOf(x, k) # block
  /\ line.accessCount <= hits + misses + 1
  /\ x \notin rehit' => \A k \in LineNumbers : sets[x][k].accessCount < line.accessCount
  /\ rehit \subseteq rehit' /\ UNCHANGED args
  /\ asked' = block /\ lastUse' = [lastUse EXCEPT ![block] = hits + misses + 1]
  /\ hits' \in Nat /\ misses' \in Nat /\ evictions' \in Nat /\ again' \subseteq Addresses
  /\ hits' + misses' = hits + misses + 1

LEMMA AccessKeepsInv ==
  ASSUME CacheInv, NEW x, NEW l, NEW line, NEW block, Accessed(x, l, line, block)
  PROVE  CacheInv'
<1> USE DEF CacheInv
<1>1. /\ setBits' = setBits /\ numLines' = numLines /\ dataBits' = dataBits
      /\ SetNumbers' = SetNumbers /\ LineNumbers' = LineNumbers
      /\ x \in SetNumbers /\ l \in LineNumbers
  BY DEF Accessed, args, SetNumbers, LineNumbers
<1>2. \A y \in SetNumbers, k \in LineNumbers :
        sets'[y][k] = IF y = x /\ k = l THEN line ELSE sets[y][k]
  BY DEF Accessed, Writes
<1>3. line \in Line /\ \A y \in SetNumbers, k \in LineNumbers : sets[y][k] \in Line /\ sets'[y][k] \in Line
  <2>1. \A y \in SetNumbers, k \in LineNumbers : sets[y][k] \in Line /\ sets'[y][k] \in Line
    BY DEF Accessed, Writes, CacheTypes
  <2>2. line = sets'[x][l]
    BY <1>1, <1>2
  <2> QED BY <1>1, <2>1, <2>2
<1>4. block \in Int
  <2>1. line.tag \in Int /\ x \in Int /\ 2 ^ setBits \in Int
    BY <1>1, <1>3, Sizes DEF Line, SetNumbers
  <2> QED BY <2>1 DEF Accessed
<1>5. CacheTypes'
  <2>1. DOMAIN lastUse' = DOMAIN lastUse /\ lastUse' \in [DOMAIN lastUse -> Nat]
    BY DEF CacheTypes, Accessed
  <2>2. {Block(address)' : address \in Addresses} = {Block(address) : address \in Addresses}
    BY <1>1 DEF Block
  <2>3. sets' \in [SetNumbers -> [LineNumbers -> Line]]
    BY DEF Accessed, Writes
  <2> QED BY <1>1, <1>4, <2>1, <2>2, <2>3 DEF CacheTypes, Accessed
<1>6. \A y \in SetNumbers, k \in LineNumbers :
        BlockOf(y, k)' = IF y = x /\ k = l THEN block ELSE BlockOf(y, k)
  BY <1>1, <1>2 DEF BlockOf, Accessed
<1>7. \A y \in SetNumbers, k \in LineNumbers :
        sets'[y][k].valid /\ ~(y = x /\ k = l) => sets[y][k].valid /\ BlockOf(y, k) # block
  <2> SUFFICES ASSUME NEW y \in SetNumbers, NEW k \in LineNumbers, sets'[y][k].valid,
                      ~(y = x /\ k = l)
               PROVE  sets[y][k].valid /\ BlockOf(y, k) # block
    OBVIOUS
  <2>1. sets[y][k].valid
    BY <1>2
  <2>2. CASE y = x
    BY <2>1, <2>2 DEF Accessed
  <2>3. CASE y # x
    <3>1. BlockOf(y, k) % 2 ^ setBits = y
      BY <1>3, SetOfBlock DEF BlockOf, Line
    <3>2. block % 2 ^ setBits = x
      BY <1>1, <1>3, SetOfBlock DEF Accessed, Line
    <3> QED BY <2>1, <2>3, <3>1, <3>2
  <2> QED BY <2>2, <2>3
<1>8. OneLine'
  <2> SUFFICES ASSUME NEW y \in SetNumbers, NEW j \in LineNumbers, NEW k \in LineNumbers,
                      sets'[y][j].valid, sets'[y][k].valid, sets'[y][j].tag = sets'[y][k].tag
               PROVE  j = k
    BY <1>1 DEF OneLine
  <2>1. BlockOf(y, j)' = BlockOf(y, k)'
    BY DEF BlockOf
  <2>2. CASE y = x /\ (j = l \/ k = l)
    BY <1>6, <1>7, <2>1, <2>2
  <2>3. CASE ~(y = x /\ (j = l \/ k = l))
    BY <1>2, <2>3 DEF OneLine
  <2> QED BY <2>2, <2>3
<1>9. \A b \in DOMAIN lastUse : lastUse'[b] = IF b = block THEN hits + misses + 1 ELSE lastUse[b]
  BY DEF Accessed, CacheTypes
<1>10. hits + misses \in Nat /\ (hits + misses)' = hits + misses + 1 /\ DOMAIN lastUse' = DOMAIN lastUse
       /\ block \in DOMAIN lastUse
  <2>1. hits + misses \in Nat
    BY DEF CacheTypes
  <2>2. DOMAIN lastUse' = DOMAIN lastUse
    BY DEF CacheTypes, Accessed
  <2> QED BY <2>1, <2>2 DEF Accessed
<1>11. UsedInv'
  <2> SUFFICES ASSUME NEW y \in SetNumbers, NEW j \in LineNumbers
      PROVE  /\ sets'[y][j].accessCount <= hits + misses + 1
             /\ sets'[y][j].valid =>
                  /\ BlockOf(y, j)' \in DOMAIN lastUse /\ lastUse'[BlockOf(y, j)'] <= hits + misses + 1
                  /\ y \notin rehit' => \A k \in LineNumbers : k # j /\ sets'[y][k].valid =>
                       /\ sets'[y][j].accessCount # sets'[y][k].accessCount
                       /\ sets'[y][j].accessCount < sets'[y][k].accessCount
                            => lastUse'[BlockOf(y, j)'] < lastUse'[BlockOf(y, k)']
    BY <1>1, <1>10 DEF UsedInv
  <2>1. sets'[y][j].accessCount <= hits + misses + 1
    <3>1. sets[y][j].accessCount <= hits + misses /\ sets[y][j].accessCount \in Nat
      BY <1>3 DEF UsedInv, Line
    <3> QED BY <1>2, <1>10, <3>1 DEF Accessed
  <2>2. ASSUME NEW k \in LineNumbers, sets'[y][k].valid
        PROVE  /\ BlockOf(y, k)' \in DOMAIN lastUse
               /\ lastUse'[BlockOf(y, k)'] = IF y = x /\ k = l THEN hits + misses + 1
                                                               ELSE lastUse[BlockOf(y, k)]
               /\ ~(y = x /\ k = l) => sets[y][k].valid /\ lastUse[BlockOf(y, k)] \in Nat
                                       /\ lastUse[BlockOf(y, k)] <= hits + misses
    <3>1. CASE y = x /\ k = l
      BY <1>6, <1>9, <1>10, <3>1
    <3>2. CASE ~(y = x /\ k = l)
      <4>1. sets[y][k].valid /\ BlockOf(y, k) # block
        BY <1>7, <2>2, <3>2
      <4>2. BlockOf(y, k) \in DOMAIN lastUse /\ lastUse[BlockOf(y, k)] <= hits + misses
        BY <4>1 DEF UsedInv
      <4>3. lastUse[BlockOf(y, k)] \in Nat
        BY <4>2 DEF CacheTypes
      <4> QED BY <1>6, <1>9, <3>2, <4>1, <4>2, <4>3
    <3> QED BY <3>1, <3>2
  <2>3. ASSUME sets'[y][j].valid, y \notin rehit', NEW k \in LineNumbers, k # j, sets'[y][k].valid
        PROVE  /\ sets'[y][j].accessCount # sets'[y][k].accessCount
               /\ sets'[y][j].accessCount < sets'[y][k].accessCount
                    => lastUse'[BlockOf(y, j)'] < lastUse'[BlockOf(y, k)']
    <3>1. y \notin rehit
      BY <2>3 DEF Accessed
    <3>2. \A m \in LineNumbers : sets[y][m].accessCount \in Nat /\ line.accessCount \in Nat
      BY <1>3 DEF Line
    <3>3. y = x => \A m \in LineNumbers : sets[x][m].accessCount < line.accessCount
      BY <2>3 DEF Accessed
    <3>4. CASE y = x /\ j = l
      BY <1>1, <1>2, <2>3, <3>2, <3>3, <3>4
    <3>5. CASE y = x /\ k = l
      <4>1. lastUse'[BlockOf(y, j)'] < lastUse'[BlockOf(y, k)']
        BY <1>10, <2>2, <2>3, <3>5
      <4> QED BY <1>1, <1>2, <2>3, <3>2, <3>3, <3>5, <4>1
    <3>6. CASE ~(y = x /\ (j = l \/ k = l))
      <4>1. sets'[y][j] = sets[y][j] /\ sets'[y][k] = sets[y][k]
            /\ sets[y][j].valid /\ sets[y][k].valid
        BY <1>2, <2>3, <3>6
      <4>2. /\ sets[y][j].accessCount # sets[y][k].accessCount
            /\ sets[y][j].accessCount < sets[y][k].accessCount
                 => lastUse[BlockOf(y, j)] < lastUse[BlockOf(y, k)]
        BY <2>3, <3>1, <4>1 DEF UsedInv
      <4>3. lastUse'[BlockOf(y, j)'] = lastUse[BlockOf(y, j)]
            /\ lastUse'[BlockOf(y, k)'] = lastUse[BlockOf(y, k)]
        BY <2>2, <2>3, <3>6
      <4> QED BY <4>1, <4>2, <4>3
    <3> QED BY <3>4, <3>5, <3>6
  <2>4. sets'[y][j].valid => lastUse'[BlockOf(y, j)'] <= hits + misses + 1
    BY <1>10, <2>2
  <2> QED BY <2>1, <2>2, <2>3, <2>4
<1> QED BY <1>5, <1>8, <1>11

LEMMA Known ==
  ASSUME CacheTypes, NEW address \in Addresses
  PROVE  Block(address) \in DOMAIN lastUse
BY DEF CacheTypes

\* A call that hits, and one that does not.
LEMMA HitAccess ==
  ASSUME CacheInv, NEW address \in Addresses, CacheSimulate(address), HitLine(address),
         again' \subseteq Addresses
  PROVE  \E l \in Hits(address) :
           /\ sets[SetIndex(address)][l].valid /\ hits' = hits + 1
           /\ Accessed(SetIndex(address), l, Used(sets[SetIndex(address)][l]), Block(address))
<1> DEFINE x == SetIndex(address)
           block == Block(address)
<1> USE DEF CacheInv
<1>1. PICK l \in Hits(address) :
        /\ sets[x][l].valid /\ BlockOf(x, l) = block /\ Writes(x, l, Used(sets[x][l]))
        /\ hits' = hits + 1
  BY HitWrites
<1>2. x \in SetNumbers /\ l \in LineNumbers /\ block \in DOMAIN lastUse
  BY ShiftsAreRight, Known DEF Hits
<1> HIDE DEF x, block
<1>3. sets[x][l] \in Line
  BY <1>2 DEF CacheTypes
<1>4. LET line == Used(sets[x][l])
      IN line.valid /\ block = line.tag * 2 ^ setBits + x
         /\ line.accessCount = sets[x][l].accessCount + 1
  BY <1>1, <1>3 DEF Used, Line, BlockOf
<1>5. sets[x][l].accessCount \in Nat /\ sets[x][l].accessCount <= hits + misses
  BY <1>2, <1>3 DEF Line, UsedInv
<1>6. \A k \in LineNumbers : k # l /\ sets[x][k].valid => BlockOf(x, k) # block
  BY <1>1, <1>2, BlocksDiffer
<1>7. /\ x \in rehit' /\ rehit \subseteq rehit' /\ misses' = misses /\ evictions' = evictions
      /\ UNCHANGED args /\ asked' = block
      /\ lastUse' = [lastUse EXCEPT ![block] = hits + misses + 1]
  BY DEF HitLine, CacheSimulate, Touch, x, block
<1>8. hits \in Nat /\ misses \in Nat /\ evictions \in Nat
  BY DEF CacheTypes
<1>9. Accessed(x, l, Used(sets[x][l]), block)
  BY <1>1, <1>2, <1>4, <1>5, <1>6, <1>7, <1>8 DEF Accessed
<1> QED BY <1>1, <1>9 DEF x, block

LEMMA MissAccess ==
  ASSUME CacheInv, NEW address \in Addresses, CacheSimulate(address), MissLine(address),
         again' \subseteq Addresses
  PROVE  LET x == SetIndex(address)
             v == Victim(sets[x])
         IN /\ (sets[x][v].valid <=> Full(x))
            /\ Full(x) => \A k \in LineNumbers : sets[x][v].accessCount <= sets[x][k].accessCount
            /\ misses' = misses + 1 /\ evictions' = IF Full(x) THEN evictions + 1 ELSE evictions
            /\ rehit' = rehit /\ hits' = hits
            /\ \A y \in SetNumbers, k \in LineNumbers :
                 sets[y][k].valid => BlockOf(y, k) # Block(address)
            /\ \E line : Accessed(x, v, line, Block(address))
<1> DEFINE x == SetIndex(address)
           v == Victim(sets[x])
           block == Block(address)
           new == [valid |-> TRUE, tag |-> Tag(address), accessCount |-> MaxUsed(sets[x]) + 1]
<1> USE DEF CacheInv
<1>1. /\ v \in LineNumbers /\ (sets[x][v].valid <=> Full(x))
      /\ Full(x) => \A k \in LineNumbers : sets[x][v].accessCount <= sets[x][k].accessCount
      /\ Writes(x, v, new)
      /\ misses' = misses + 1 /\ evictions' = IF Full(x) THEN evictions + 1 ELSE evictions
  BY MissWrites
<1>2. /\ x \in SetNumbers /\ block \in DOMAIN lastUse /\ block = Tag(address) * 2 ^ setBits + x
      /\ MaxUsed(sets[x]) \in Nat /\ MaxUsed(sets[x]) <= hits + misses
      /\ \A k \in LineNumbers : sets[x][k].accessCount <= MaxUsed(sets[x])
  BY ShiftsAreRight, Known, MostUsed
<1>3. \A y \in SetNumbers, k \in LineNumbers : sets[y][k].valid => BlockOf(y, k) # block
  BY HitsAre DEF MissLine
<1>4. /\ rehit' = rehit /\ hits' = hits /\ UNCHANGED args /\ asked' = block
      /\ lastUse' = [lastUse EXCEPT ![block] = hits + misses + 1]
  BY DEF MissLine, CacheSimulate, Touch
<1>5. hits \in Nat /\ misses \in Nat /\ evictions \in Nat
      /\ \A k \in LineNumbers : sets[x][k].accessCount \in Nat
  BY <1>2 DEF CacheTypes, Line
<1>6. new.valid /\ new.tag = Tag(address) /\ new.accessCount = MaxUsed(sets[x]) + 1
  OBVIOUS
<1>7. Accessed(x, v, new, block)
  <2> HIDE DEF x, v, block, new
  <2>1. new.accessCount <= hits + misses + 1
        /\ \A k \in LineNumbers : sets[x][k].accessCount < new.accessCount
    BY <1>2, <1>5, <1>6
  <2>2. evictions' \in Nat
    BY <1>1, <1>5
  <2> QED BY <1>1, <1>2, <1>3, <1>4, <1>5, <1>6, <2>1, <2>2 DEF Accessed
<1> HIDE DEF new
<1> QED BY <1>1, <1>3, <1>4, <1>7

\* A step is an access to an address, or none.
LEMMA Steps ==
  ASSUME CacheInv, [CsimNext]_simVars
  PROVE  \/ UNCHANGED simVars
         \/ \E address \in Addresses :
              /\ CacheSimulate(address) /\ again' \subseteq Addresses
              /\ HitLine(address) \/ MissLine(address)
BY DEF CacheInv, CacheTypes, CsimNext, LoadOrStore, Modify, ModifyAgain, CacheSimulate

LEMMA NextCache == CacheInv /\ [CsimNext]_simVars => CacheInv'
<1> SUFFICES ASSUME CacheInv, [CsimNext]_simVars PROVE CacheInv'
  OBVIOUS
<1>1. CASE UNCHANGED simVars
  <2>1. CacheTypes'
    BY <1>1 DEF CacheInv, CacheTypes, SetNumbers, LineNumbers, Block, simVars, args
  <2>2. OneLine'
    BY <1>1 DEF CacheInv, OneLine, SetNumbers, LineNumbers, simVars, args
  <2>3. UsedInv'
    BY <1>1 DEF CacheInv, UsedInv, BlockOf, SetNumbers, LineNumbers, Block, simVars, args
  <2> QED BY <2>1, <2>2, <2>3 DEF CacheInv
<1>2. ASSUME NEW address \in Addresses, CacheSimulate(address), again' \subseteq Addresses,
             HitLine(address) \/ MissLine(address)
      PROVE  CacheInv'
  BY <1>2, HitAccess, MissAccess, AccessKeepsInv
<1> QED BY <1>1, <1>2, Steps

\* The simulator's arrays, counts and counters, and the history of uses.
THEOREM CacheInvariance == CsimSpec => []CacheInv
BY InitCache, NextCache, PTL DEF CsimSpec

-----------------------------------------------------------------------------
(* What is resident *)

LEMMA ResidentIs ==
  \A b : b \in Resident <=> \E x \in SetNumbers, l \in LineNumbers : sets[x][l].valid /\ b = BlockOf(x, l)
<1>1. ASSUME NEW b \in Resident
      PROVE  \E x \in SetNumbers, l \in LineNumbers : sets[x][l].valid /\ b = BlockOf(x, l)
  BY DEF Resident, ValidLines, BlockOf
<1>2. ASSUME NEW x \in SetNumbers, NEW l \in LineNumbers, sets[x][l].valid
      PROVE  BlockOf(x, l) \in Resident
  <2>1. <<x, l>> \in ValidLines /\ <<x, l>>[1] = x /\ <<x, l>>[2] = l
    BY <1>2 DEF ValidLines
  <2> QED BY <2>1 DEF Resident, BlockOf
<1> QED BY <1>1, <1>2

\* After an access the block is resident, and what was in the line is not.
LEMMA ResidentNext ==
  ASSUME CacheInv, NEW x, NEW l, NEW line, NEW block, Accessed(x, l, line, block)
  PROVE  Resident' = (IF sets[x][l].valid THEN Resident \ {BlockOf(x, l)} ELSE Resident) \cup {block}
<1> USE DEF CacheInv
<1>1. SetNumbers' = SetNumbers /\ LineNumbers' = LineNumbers /\ x \in SetNumbers /\ l \in LineNumbers
      /\ setBits' = setBits
  BY DEF Accessed, args, SetNumbers, LineNumbers
<1>2. \A y \in SetNumbers, k \in LineNumbers :
        sets'[y][k] = IF y = x /\ k = l THEN line ELSE sets[y][k]
  BY DEF Accessed, Writes
<1>3. \A y \in SetNumbers, k \in LineNumbers :
        BlockOf(y, k)' = IF y = x /\ k = l THEN block ELSE BlockOf(y, k)
  BY <1>1, <1>2 DEF BlockOf, Accessed
<1>4. \A b : b \in Resident' <=>
        \E y \in SetNumbers, k \in LineNumbers : sets'[y][k].valid /\ b = BlockOf(y, k)'
  <2>1. ASSUME NEW b \in Resident'
        PROVE  \E y \in SetNumbers, k \in LineNumbers : sets'[y][k].valid /\ b = BlockOf(y, k)'
    BY <1>1 DEF Resident, ValidLines, BlockOf
  <2>2. ASSUME NEW y \in SetNumbers, NEW k \in LineNumbers, sets'[y][k].valid
        PROVE  BlockOf(y, k)' \in Resident'
    <3>1. <<y, k>> \in ValidLines' /\ <<y, k>>[1] = y /\ <<y, k>>[2] = k
      BY <1>1, <2>2 DEF ValidLines
    <3> QED BY <3>1 DEF Resident, BlockOf
  <2> QED BY <2>1, <2>2
<1>5. \A b : b \in Resident' <=>
        \/ b = block
        \/ \E y \in SetNumbers, k \in LineNumbers :
             ~(y = x /\ k = l) /\ sets[y][k].valid /\ b = BlockOf(y, k)
  <2>1. line.valid
    BY DEF Accessed
  <2> QED BY <1>1, <1>2, <1>3, <1>4, <2>1
<1>6. \A y \in SetNumbers, k \in LineNumbers :
        sets[x][l].valid /\ sets[y][k].valid /\ BlockOf(y, k) = BlockOf(x, l) => y = x /\ k = l
  BY <1>1, BlocksDiffer
<1>7. \A b : b \in Resident' <=>
        b \in (IF sets[x][l].valid THEN Resident \ {BlockOf(x, l)} ELSE Resident) \cup {block}
  BY <1>1, <1>5, <1>6, ResidentIs
<1> QED BY <1>7

\* In a set without hits the block that is evicted is the one that has not been
\* used for longest (csim.c:283, 383).
LEMMA EvictionStep ==
  ASSUME CacheInv, [CsimNext]_simVars, NEW b \in Resident \ Resident',
         b % 2 ^ setBits \notin rehit,
         NEW r \in Resident, r % 2 ^ setBits = b % 2 ^ setBits, r # b
  PROVE  lastUse[b] < lastUse[r]
<1> USE DEF CacheInv
<1>1. ~UNCHANGED simVars
  <2>1. UNCHANGED simVars => Resident' = Resident
    BY DEF simVars, args, Resident, ValidLines, SetNumbers, LineNumbers
  <2> QED BY <2>1
<1>2. PICK address \in Addresses : CacheSimulate(address) /\ again' \subseteq Addresses
                                   /\ (HitLine(address) \/ MissLine(address))
  BY <1>1, Steps
<1> DEFINE x == SetIndex(address)
           v == Victim(sets[x])
<1>3. CASE HitLine(address)
  <2>1. PICK l \in Hits(address) :
          /\ sets[x][l].valid
          /\ Accessed(x, l, Used(sets[x][l]), Block(address))
    BY <1>2, <1>3, HitAccess
  <2>2. x \in SetNumbers /\ l \in LineNumbers
    BY ShiftsAreRight DEF Hits
  <2>3. BlockOf(x, l) = Block(address)
    BY <2>2, HitsAre
  <2>4. Resident' = (Resident \ {Block(address)}) \cup {Block(address)}
    BY <2>1, <2>3, ResidentNext
  <2> QED BY <2>4
<1>4. CASE MissLine(address)
  <2>1. /\ (sets[x][v].valid <=> Full(x))
        /\ Full(x) => \A k \in LineNumbers : sets[x][v].accessCount <= sets[x][k].accessCount
        /\ \E line : Accessed(x, v, line, Block(address))
    BY <1>2, <1>4, MissAccess
  <2> HIDE DEF x, v
  <2>2. Resident' = (IF sets[x][v].valid THEN Resident \ {BlockOf(x, v)} ELSE Resident)
                      \cup {Block(address)}
    BY <2>1, ResidentNext
  <2>3. sets[x][v].valid /\ b = BlockOf(x, v)
    BY <2>2
  <2>4. x \in SetNumbers /\ v \in LineNumbers
    BY <2>1 DEF Accessed
  <2>5. PICK y \in SetNumbers, k \in LineNumbers : sets[y][k].valid /\ r = BlockOf(y, k)
    BY ResidentIs
  <2>6. sets[x][v].tag \in Int /\ sets[y][k].tag \in Int
        /\ sets[x][v].accessCount \in Nat /\ sets[y][k].accessCount \in Nat
    BY <2>4 DEF CacheTypes, Line
  <2>7. y = x /\ b % 2 ^ setBits = x
    BY <2>3, <2>4, <2>5, <2>6, SetOfBlock DEF BlockOf
  <2>8. k # v /\ sets[x][v].accessCount <= sets[x][k].accessCount
    BY <2>1, <2>3, <2>5, <2>7
  <2>9. sets[x][v].accessCount # sets[x][k].accessCount
        /\ (sets[x][v].accessCount < sets[x][k].accessCount => lastUse[b] < lastUse[r])
    BY <2>3, <2>4, <2>5, <2>7, <2>8 DEF UsedInv
  <2> QED BY <2>6, <2>7, <2>8, <2>9
<1> QED BY <1>2, <1>3, <1>4

THEOREM EvictsLeastRecent == CsimSpec => EvictsOldest
<1>1. CacheInv /\ [CsimNext]_simVars =>
        [\A b \in Resident \ Resident' :
           b % 2 ^ setBits \notin rehit =>
             \A r \in Resident : r % 2 ^ setBits = b % 2 ^ setBits /\ r # b => lastUse[b] < lastUse[r]]_simVars
  BY EvictionStep
<1> QED BY <1>1, CacheInvariance, PTL DEF CsimSpec, EvictsOldest

\* A set has as many resident blocks as valid lines.
LEMMA BlocksOfSet ==
  ASSUME CacheInv, NEW address \in Addresses
  PROVE  LET n == Cardinality(Blocks!SameSet(Block(address)))
         IN /\ Full(SetIndex(address)) => n = numLines
            /\ ~Full(SetIndex(address)) => n < numLines
<1> DEFINE x == SetIndex(address)
           block == Block(address)
           Valid == {l \in LineNumbers : sets[x][l].valid}
           Same == Blocks!SameSet(block)
           f == [l \in Valid |-> BlockOf(x, l)]
<1> USE DEF CacheInv
<1>1. x \in SetNumbers /\ block \in Int /\ Tag(address) \in Int /\ block = Tag(address) * 2 ^ setBits + x
  BY ShiftsAreRight
<1>2. block % 2 ^ setBits = x
  <2> HIDE DEF x, block
  <2> QED BY <1>1, SetOfBlock
<1> HIDE DEF x
<1>3. Same = {r \in Resident : r % 2 ^ setBits = x}
  BY <1>2 DEF Blocks!SameSet
<1>4. \A y \in SetNumbers, l \in LineNumbers : BlockOf(y, l) % 2 ^ setBits = y
  BY SetOfBlock DEF BlockOf, CacheTypes, Line
<1> HIDE DEF Same, block
<1>5. \A l \in Valid : BlockOf(x, l) \in Same
  BY <1>1, <1>3, <1>4, ResidentIs
<1>6. \A r \in Same : \E l \in Valid : r = BlockOf(x, l)
  <2> TAKE r \in Same
  <2>1. PICK y \in SetNumbers, l \in LineNumbers : sets[y][l].valid /\ r = BlockOf(y, l)
    BY <1>3, ResidentIs
  <2>2. y = x
    BY <1>3, <1>4, <2>1
  <2> QED BY <2>1, <2>2
<1>7. \A l, k \in Valid : BlockOf(x, l) = BlockOf(x, k) => l = k
  BY <1>1, BlocksDiffer
<1>8. f \in Bijection(Valid, Same)
  <2>1. f \in [Valid -> Same] /\ \A l \in Valid : f[l] = BlockOf(x, l)
    BY <1>5
  <2> HIDE DEF f, Valid
  <2> QED BY <1>6, <1>7, <2>1 DEF Bijection, Injection, Surjection, IsInjective
<1>9. IsFiniteSet(LineNumbers) /\ Cardinality(LineNumbers) = numLines
  BY Sizes, FS_Interval DEF LineNumbers
<1>10. Valid \subseteq LineNumbers /\ IsFiniteSet(Valid) /\ (~Full(x) => Valid # LineNumbers)
       /\ (Full(x) => Valid = LineNumbers)
  BY <1>9, FS_Subset DEF Full
<1> HIDE DEF Valid, f
<1>11. Cardinality(Same) = Cardinality(Valid)
  BY <1>8, <1>10, FS_Bijection DEF ExistsBijection
<1>12. ~Full(x) => Cardinality(Valid) < Cardinality(LineNumbers)
  BY <1>9, <1>10, FS_Subset, FS_CardinalityType
<1> QED BY <1>9, <1>10, <1>11, <1>12 DEF x, Same, block

-----------------------------------------------------------------------------
(* The simulator implements a cache *)

LEMMA SameCardinality == \A S : Blocks!Cardinality(S) = Cardinality(S)
BY DEF Blocks!Cardinality, Cardinality

LEMMA InitImplements == CsimInit => Blocks!Init
<1> SUFFICES ASSUME CsimInit PROVE Blocks!Init
  OBVIOUS
<1>1. CacheTypes
  BY InitCache DEF CacheInv
<1>2. Resident = {}
  BY DEF CsimInit, Resident, ValidLines
<1> QED BY <1>1, <1>2, Sizes DEF CsimInit, CacheTypes, Blocks!Init

LEMMA HitImplements ==
  ASSUME CacheInv, NEW address \in Addresses, CacheSimulate(address), HitLine(address),
         again' \subseteq Addresses
  PROVE  Blocks!Access(Block(address))
<1> DEFINE x == SetIndex(address)
           block == Block(address)
<1>1. PICK l \in Hits(address) :
        /\ sets[x][l].valid /\ hits' = hits + 1
        /\ Accessed(x, l, Used(sets[x][l]), block)
  BY HitAccess
<1>2. x \in SetNumbers /\ l \in LineNumbers /\ BlockOf(x, l) = block
  BY ShiftsAreRight, HitsAre DEF Hits, CacheInv
<1>3. misses' = misses /\ evictions' = evictions /\ UNCHANGED args
  BY DEF HitLine, CacheSimulate
<1> HIDE DEF x, block
<1>4. block \in Resident
  BY <1>1, <1>2, ResidentIs
<1>5. Resident' = Resident
  BY <1>1, <1>2, <1>4, ResidentNext
<1>6. Blocks!Hit
  BY <1>1, <1>3, <1>5 DEF Blocks!Hit, args
<1>7. Blocks!Access(block)
  BY <1>4, <1>6 DEF Blocks!Access
<1> QED BY <1>7 DEF block

LEMMA MissImplements ==
  ASSUME CacheInv, NEW address \in Addresses, CacheSimulate(address), MissLine(address),
         again' \subseteq Addresses
  PROVE  Blocks!Access(Block(address))
<1> DEFINE x == SetIndex(address)
           v == Victim(sets[x])
           block == Block(address)
<1>1. /\ (sets[x][v].valid <=> Full(x))
      /\ misses' = misses + 1 /\ evictions' = IF Full(x) THEN evictions + 1 ELSE evictions
      /\ hits' = hits
      /\ \A y \in SetNumbers, k \in LineNumbers : sets[y][k].valid => BlockOf(y, k) # block
      /\ \E line : Accessed(x, v, line, block)
  BY MissAccess
<1>2. /\ Full(x) => Cardinality(Blocks!SameSet(block)) = numLines
      /\ ~Full(x) => Cardinality(Blocks!SameSet(block)) < numLines
  BY BlocksOfSet
<1>3. UNCHANGED args
  BY DEF CacheSimulate
<1>4. x \in SetNumbers /\ Tag(address) \in Int /\ block = Tag(address) * 2 ^ setBits + x
  BY ShiftsAreRight DEF CacheInv
<1> HIDE DEF x, v, block
<1>5. block \notin Resident
  BY <1>1, ResidentIs
<1>6. Resident' = (IF Full(x) THEN Resident \ {BlockOf(x, v)} ELSE Resident) \cup {block}
  BY <1>1, ResidentNext
<1>7. Full(x) => BlockOf(x, v) \in Blocks!SameSet(block)
  <2> SUFFICES ASSUME Full(x) PROVE BlockOf(x, v) \in Blocks!SameSet(block)
    OBVIOUS
  <2>1. v \in LineNumbers
    BY <1>1 DEF Accessed
  <2>2. sets[x][v].tag \in Int
    BY <1>4, <2>1 DEF CacheInv, CacheTypes, Line
  <2>3. BlockOf(x, v) % 2 ^ setBits = x /\ block % 2 ^ setBits = x
    BY <1>4, <2>2, SetOfBlock DEF BlockOf, CacheInv
  <2>4. BlockOf(x, v) \in Resident
    BY <1>1, <1>4, <2>1, ResidentIs
  <2> QED BY <2>3, <2>4 DEF Blocks!SameSet
<1>8. Blocks!Miss(block)
  <2>0. block \notin Resident /\ misses' = misses + 1 /\ UNCHANGED <<setBits, numLines, hits>>
    BY <1>1, <1>3, <1>5 DEF args
  <2>1. CASE Full(x)
    <3>1. evictions' = evictions + 1 /\ Cardinality(Blocks!SameSet(block)) = numLines
          /\ \E w \in Blocks!SameSet(block) : Resident' = (Resident \ {w}) \cup {block}
      BY <1>1, <1>2, <1>6, <1>7, <2>1
    <3> QED BY <2>0, <3>1, SameCardinality DEF Blocks!Miss
  <2>2. CASE ~Full(x)
    <3>1. evictions' = evictions /\ Cardinality(Blocks!SameSet(block)) < numLines
          /\ Resident' = Resident \cup {block}
      BY <1>1, <1>2, <1>6, <2>2
    <3> QED BY <2>0, <3>1, SameCardinality DEF Blocks!Miss
  <2> QED BY <2>1, <2>2
<1>9. Blocks!Access(block)
  BY <1>5, <1>8 DEF Blocks!Access
<1> QED BY <1>9 DEF block

\* Whatever the trace, cacheSimulate is an access to the block of the address in
\* a cache of 2^s sets of E lines, and counts what happens there (csim.c:331-394).
THEOREM CacheRefinement == CsimSpec => ImplementsCache
<1>1. CacheInv /\ [CsimNext]_simVars => [Blocks!Next]_(Blocks!vars)
  <2> SUFFICES ASSUME CacheInv, [CsimNext]_simVars PROVE [Blocks!Next]_(Blocks!vars)
    OBVIOUS
  <2>1. CASE UNCHANGED simVars
    BY <2>1 DEF simVars, args, Blocks!vars, Resident, ValidLines, SetNumbers, LineNumbers
  <2>2. ASSUME NEW address \in Addresses, CacheSimulate(address), again' \subseteq Addresses,
               HitLine(address) \/ MissLine(address)
        PROVE  Blocks!Next
    <3>1. asked' = Block(address)
      BY <2>2 DEF CacheSimulate, Touch
    <3>2. Blocks!Access(Block(address))
      BY <2>2, HitImplements, MissImplements
    <3> QED BY <3>1, <3>2 DEF Blocks!Next
  <2> QED BY <2>1, <2>2, Steps
<1> QED BY <1>1, InitImplements, CacheInvariance, PTL DEF CsimSpec, ImplementsCache, Blocks!Spec

-----------------------------------------------------------------------------
(* The transpose kernels *)

TransTypes ==
  /\ \E p \in Shapes : M = p[1] /\ N = p[2]
  /\ kernel \in {"transpose_submit", "trans"}
  /\ column \in Nat /\ row \in Nat /\ i \in Nat
  /\ DOMAIN B = 0 .. M * N - 1 /\ ~stray

\* What waits in temp is an element of the diagonal.
Waiting ==
  diagonal \in 0 .. M - 1 /\ diagonal \in 0 .. N - 1 /\ temp = ElementA(diagonal, diagonal)

\* The blocks are aligned, and i is a row of the block.
AtBlock ==
  kernel = "transpose_submit" =>
    /\ \E r \in Nat : row = Side * r
    /\ \E c \in Nat : column = Side * c
    /\ column < Columns => row < N /\ row <= i /\ i < LastRow

\* What has been transposed.
Filled(j, a) ==
  IF kernel = "trans" THEN a < i ELSE j < column \/ (j < LastColumn /\ a < i)

FilledRight ==
  \A j \in 0 .. M - 1, a \in 0 .. N - 1 : Filled(j, a) => B[PlaceB(j, a)] = ElementA(a, j)

TransInv == TransTypes /\ Waiting /\ AtBlock /\ FilledRight

LEMMA Shape ==
  ASSUME TransTypes
  PROVE  /\ M \in Nat \ {0} /\ N \in Nat \ {0} /\ (N \in {32, 64} => M = N)
         /\ Side \in {4, 8, 16} /\ (N = 32 => Side = 8) /\ (N = 64 => Side = 4)
BY ShapeAssumption DEF TransTypes, Side

\* Every element has one place in B.
LEMMA Places ==
  ASSUME TransTypes, NEW j \in 0 .. M - 1, NEW a \in 0 .. N - 1
  PROVE  /\ PlaceB(j, a) \in 0 .. M * N - 1
         /\ (PlaceB(j, a) - a) \div N = j
         /\ \A k \in 0 .. M - 1, e \in 0 .. N - 1 : PlaceB(j, a) = PlaceB(k, e) => j = k /\ a = e
<1>1. M \in Nat \ {0} /\ N \in Nat \ {0}
  BY Shape
<1>2. PlaceB(j, a) \in 0 .. M * N - 1
  <2>1. j * N <= (M - 1) * N /\ j * N \in Nat
    BY <1>1
  <2>2. (M - 1) * N + N = M * N
    BY <1>1
  <2> QED BY <1>1, <2>1, <2>2 DEF PlaceB
<1>3. (PlaceB(j, a) - a) \div N = j
  <2>1. PlaceB(j, a) - a = N * j + 0
    BY <1>1 DEF PlaceB
  <2>2. (N * j + 0) \div N = j
    BY <1>1, DivModUnique
  <2> QED BY <2>1, <2>2
<1>4. ASSUME NEW k \in 0 .. M - 1, NEW e \in 0 .. N - 1, PlaceB(j, a) = PlaceB(k, e)
      PROVE  j = k /\ a = e
  <2>1. N * j + a = N * k + e
    BY <1>1, <1>4 DEF PlaceB
  <2>2. (N * j + a) \div N = j /\ (N * j + a) % N = a /\ (N * k + e) \div N = k /\ (N * k + e) % N = e
    BY <1>1, DivModUnique
  <2> QED BY <2>1, <2>2
<1> QED BY <1>2, <1>3, <1>4

\* The elements that a turn stores.
Sound(stores) ==
  \A p \in DOMAIN stores : \E j \in 0 .. M - 1, a \in 0 .. N - 1 :
    p = PlaceB(j, a) /\ stores[p] = ElementA(a, j)

LEMMA StoreSound ==
  ASSUME TransTypes, NEW stores, Sound(stores), Store(stores)
  PROVE  /\ DOMAIN B' = DOMAIN B /\ ~stray'
         /\ \A j \in 0 .. M - 1, a \in 0 .. N - 1 :
              B'[PlaceB(j, a)] = IF PlaceB(j, a) \in DOMAIN stores THEN ElementA(a, j)
                                                                  ELSE B[PlaceB(j, a)]
<1>1. DOMAIN stores \subseteq DOMAIN B
  BY Places DEF Sound, TransTypes
<1>2. DOMAIN B' = DOMAIN B /\ ~stray'
  BY <1>1 DEF Store, TransTypes
<1>3. ASSUME NEW j \in 0 .. M - 1, NEW a \in 0 .. N - 1
      PROVE  B'[PlaceB(j, a)] = IF PlaceB(j, a) \in DOMAIN stores THEN ElementA(a, j)
                                                                  ELSE B[PlaceB(j, a)]
  <2>1. PlaceB(j, a) \in DOMAIN B
    BY Places DEF TransTypes
  <2>2. PlaceB(j, a) \in DOMAIN stores => stores[PlaceB(j, a)] = ElementA(a, j)
    BY Places DEF Sound
  <2> QED BY <2>1, <2>2 DEF Store
<1> QED BY <1>2, <1>3

LEMMA InitTrans == TransInit => TransInv
<1> SUFFICES ASSUME TransInit PROVE TransInv
  OBVIOUS
<1>1. /\ column = 0 /\ row = 0 /\ i = 0 /\ diagonal = 0 /\ temp = 0
      /\ B = [p \in 0 .. M * N - 1 |-> Garbage] /\ stray = FALSE
      /\ \E p \in Shapes : M = p[1] /\ N = p[2]
      /\ kernel \in {"transpose_submit", "trans"}
  BY DEF TransInit
<1>2. TransTypes
  BY <1>1 DEF TransTypes
<1>3. Waiting
  BY <1>1, <1>2, Shape DEF Waiting, ElementA
<1>4. AtBlock
  <2>1. row = Side * 0 /\ column = Side * 0 /\ 0 < LastRow /\ row < N
    BY <1>1, <1>2, Shape DEF LastRow
  <2> QED BY <1>1, <2>1 DEF AtBlock
<1>5. FilledRight
  BY <1>1 DEF FilledRight, Filled
<1> QED BY <1>2, <1>3, <1>4, <1>5 DEF TransInv

\* A turn of the simple kernel stores a row of A.
LEMMA TransStep ==
  ASSUME TransInv, TransRow
  PROVE  TransInv'
<1> DEFINE stores == [p \in {PlaceB(j, i) : j \in 0 .. M - 1} |-> ElementA(i, (p - i) \div N)]
<1> USE DEF TransInv
<1>1. M' = M /\ N' = N /\ kernel' = kernel /\ kernel = "trans" /\ i \in 0 .. N - 1 /\ i' = i + 1
      /\ UNCHANGED <<column, row, diagonal, temp>> /\ Store(stores)
  BY Shape DEF TransRow, TransTypes, arguments
<1>2. DOMAIN stores = {PlaceB(j, i) : j \in 0 .. M - 1}
      /\ \A j \in 0 .. M - 1 : stores[PlaceB(j, i)] = ElementA(i, j)
  BY <1>1, Places
<1> HIDE DEF stores
<1>3. Sound(stores)
  BY <1>1, <1>2 DEF Sound
<1>4. /\ DOMAIN B' = DOMAIN B /\ ~stray'
      /\ \A j \in 0 .. M - 1, a \in 0 .. N - 1 :
           B'[PlaceB(j, a)] = IF PlaceB(j, a) \in DOMAIN stores THEN ElementA(a, j)
                                                               ELSE B[PlaceB(j, a)]
  BY <1>1, <1>3, StoreSound
<1>5. TransTypes'
  BY <1>1, <1>4 DEF TransTypes
<1>6. Waiting' /\ AtBlock'
  BY <1>1 DEF Waiting, AtBlock, ElementA
<1>7. FilledRight'
  <2> SUFFICES ASSUME NEW j \in 0 .. M - 1, NEW a \in 0 .. N - 1, a < i + 1
               PROVE  B'[PlaceB(j, a)] = ElementA(a, j)
    BY <1>1 DEF FilledRight, Filled, PlaceB, ElementA
  <2>1. CASE a = i
    BY <1>2, <1>4, <2>1
  <2>2. CASE a # i
    BY <1>1, <1>4, <2>2 DEF FilledRight, Filled
  <2> QED BY <2>1, <2>2
<1> QED BY <1>5, <1>6, <1>7

\* The loops of a block stay inside the matrix.
LEMMA BlockInside ==
  ASSUME TransInv, kernel = "transpose_submit", column < Columns
  PROVE  /\ row < N /\ row <= i /\ i < LastRow /\ LastRow <= N /\ LastRow <= row + Side
         /\ column < M /\ LastColumn <= M /\ LastColumn <= column + Side /\ LastColumn \in Nat
         /\ row + Side < N => LastRow = row + Side
         /\ row + Side >= N => LastRow = N
         /\ LastColumn = M \/ LastColumn = column + Side
         /\ i \in column .. LastColumn - 1 => row = column
<1> USE DEF TransInv
<1>1. PICK r \in Nat : row = Side * r
  BY DEF AtBlock
<1>2. PICK c \in Nat : column = Side * c
  BY DEF AtBlock
<1>3. row < N /\ row <= i /\ i < LastRow /\ i \in Nat /\ row \in Nat /\ column \in Nat
  BY DEF AtBlock, TransTypes
<1>4. /\ M \in Nat \ {0} /\ N \in Nat \ {0} /\ Side \in {4, 8, 16}
      /\ Fixed => N = M /\ ((N = 32 /\ Side = 8) \/ (N = 64 /\ Side = 4))
  BY Shape DEF Fixed
<1>5. Fixed => row + Side <= N /\ column < N /\ column + Side <= N
  <2> SUFFICES ASSUME Fixed PROVE row + Side <= N /\ column < N /\ column + Side <= N
    OBVIOUS
  <2>1. column < N
    BY DEF Columns
  <2>2. CASE N = 32 /\ Side = 8
    BY <1>1, <1>2, <1>3, <2>1, <2>2
  <2>3. CASE N = 64 /\ Side = 4
    BY <1>1, <1>2, <1>3, <2>1, <2>3
  <2> QED BY <1>4, <2>1, <2>2, <2>3
<1>6. /\ LastRow <= N /\ LastRow <= row + Side /\ LastRow \in Nat
      /\ row + Side < N => LastRow = row + Side
      /\ row + Side >= N => LastRow = N
  BY <1>3, <1>4, <1>5 DEF LastRow
<1>7. /\ column < M /\ LastColumn <= M /\ LastColumn <= column + Side /\ LastColumn \in Nat
      /\ LastColumn = M \/ LastColumn = column + Side
  BY <1>3, <1>4, <1>5 DEF LastColumn, Columns
<1>8. i \in column .. LastColumn - 1 => row = column
  <2> SUFFICES ASSUME i \in column .. LastColumn - 1 PROVE r = c
    BY <1>1, <1>2
  <2>1. i < row + Side /\ i < column + Side /\ row <= i /\ column <= i
    BY <1>3, <1>6, <1>7, <1>4
  <2>2. CASE Side = 4
    BY <1>1, <1>2, <2>1, <2>2
  <2>3. CASE Side = 8
    BY <1>1, <1>2, <2>1, <2>3
  <2>4. CASE Side = 16
    BY <1>1, <1>2, <2>1, <2>4
  <2> QED BY <1>4, <2>2, <2>3, <2>4
<1> QED BY <1>3, <1>6, <1>7, <1>8

\* What a turn of transpose_submit stores: the rest of the row and, in a block
\* of the diagonal, the element put off, which may be the one of an earlier row.
LEMMA RowStores ==
  ASSUME TransInv, Submit
  PROVE  /\ Waiting' /\ M' = M /\ N' = N /\ kernel' = kernel
         /\ \E stores :
              /\ Store(stores) /\ Sound(stores)
              /\ \A j \in column .. LastColumn - 1 : PlaceB(j, i) \in DOMAIN stores
<1> DEFINE js == column .. LastColumn - 1
           others == [p \in {PlaceB(j, i) : j \in js \ {i}} |-> ElementA(i, (p - i) \div N)]
           put == PlaceB(diagonal', diagonal')
           both == [p \in DOMAIN others \cup {put} |-> IF p = put THEN temp' ELSE others[p]]
<1> USE DEF TransInv
<1>1. M' = M /\ N' = N /\ kernel' = kernel /\ kernel = "transpose_submit" /\ column < Columns
  BY DEF Submit, arguments
<1>2. /\ diagonal' = IF i \in js THEN i ELSE diagonal
      /\ temp' = IF i \in js THEN ElementA(i, i) ELSE temp
      /\ IF StoresDiagonal THEN Store(both) ELSE Store(others)
  BY DEF Submit, SubmitRow
<1>3. js \subseteq 0 .. M - 1 /\ i \in 0 .. N - 1 /\ column \in Nat /\ row \in Nat
      /\ M \in Nat \ {0} /\ N \in Nat \ {0} /\ (i \in js => row = column)
  <2>1. /\ row < N /\ row <= i /\ i < LastRow /\ LastRow <= N
        /\ LastColumn <= M /\ LastColumn \in Nat
        /\ i \in js => row = column
    BY <1>1, BlockInside
  <2>2. M \in Nat \ {0} /\ N \in Nat \ {0} /\ Side \in {4, 8, 16}
    BY Shape
  <2>3. column \in Nat /\ row \in Nat /\ i \in Nat
    BY DEF TransTypes
  <2>4. LastRow \in Int
    BY <2>2, <2>3 DEF LastRow
  <2>5. js \subseteq 0 .. M - 1
    BY <2>1, <2>2, <2>3
  <2>6. i \in 0 .. N - 1
    <3> HIDE DEF js
    <3> QED BY <2>1, <2>2, <2>3, <2>4
  <2> HIDE DEF js
  <2> QED BY <2>1, <2>2, <2>3, <2>5, <2>6
<1>4. Waiting'
  BY <1>1, <1>2, <1>3 DEF Waiting, ElementA
<1>5. /\ DOMAIN others = {PlaceB(j, i) : j \in js \ {i}}
      /\ \A j \in js \ {i} : others[PlaceB(j, i)] = ElementA(i, j)
  BY <1>3, Places
<1> HIDE DEF others, js
<1>6. Sound(others)
  BY <1>3, <1>5 DEF Sound
<1>7. Sound(both)
  <2>1. temp' = ElementA(diagonal', diagonal') /\ diagonal' \in 0 .. M - 1 /\ diagonal' \in 0 .. N - 1
    BY <1>1, <1>4 DEF Waiting, ElementA
  <2>2. \A p \in DOMAIN both : both[p] = IF p = put THEN temp' ELSE others[p]
    OBVIOUS
  <2>3. DOMAIN both = DOMAIN others \cup {put}
    OBVIOUS
  <2> HIDE DEF both
  <2> QED BY <1>6, <2>1, <2>2, <2>3 DEF Sound
<1>8. CASE StoresDiagonal
  <2>1. \A j \in js : PlaceB(j, i) \in DOMAIN both
    BY <1>2, <1>5
  <2> HIDE DEF both
  <2> QED BY <1>1, <1>2, <1>4, <1>7, <1>8, <2>1 DEF js
<1>9. CASE ~StoresDiagonal
  <2>1. i \notin js
    BY <1>3, <1>9 DEF StoresDiagonal
  <2>2. \A j \in js : PlaceB(j, i) \in DOMAIN others
    BY <1>5, <2>1
  <2> QED BY <1>1, <1>2, <1>4, <1>6, <1>9, <2>2 DEF js
<1> QED BY <1>8, <1>9

LEMMA SubmitStep ==
  ASSUME TransInv, Submit
  PROVE  TransInv'
<1> USE DEF TransInv
<1>1. PICK stores :
        /\ Waiting' /\ M' = M /\ N' = N /\ kernel' = kernel
        /\ Store(stores) /\ Sound(stores)
        /\ \A j \in column .. LastColumn - 1 : PlaceB(j, i) \in DOMAIN stores
  BY RowStores
<1>2. /\ DOMAIN B' = DOMAIN B /\ ~stray'
      /\ \A j \in 0 .. M - 1, a \in 0 .. N - 1 :
           B'[PlaceB(j, a)] = IF PlaceB(j, a) \in DOMAIN stores THEN ElementA(a, j)
                                                               ELSE B[PlaceB(j, a)]
  BY <1>1, StoreSound
<1>3. kernel = "transpose_submit" /\ column < Columns /\ Advance
  BY DEF Submit
<1>4. /\ row < N /\ row <= i /\ i < LastRow /\ LastRow <= N /\ LastRow <= row + Side
      /\ column < M /\ LastColumn <= M /\ LastColumn <= column + Side /\ LastColumn \in Nat
      /\ row + Side < N => LastRow = row + Side
      /\ row + Side >= N => LastRow = N
      /\ LastColumn = M \/ LastColumn = column + Side
  BY <1>3, BlockInside
<1>5. /\ M \in Nat \ {0} /\ N \in Nat \ {0} /\ Side \in {4, 8, 16}
      /\ column \in Nat /\ row \in Nat /\ i \in Nat
      /\ Side' = Side /\ Columns' = Columns /\ (Fixed' <=> Fixed)
  BY <1>1, Shape DEF TransTypes, Side, Columns, Fixed
<1>6. LastRow \in Nat /\ \A j \in 0 .. M - 1, a \in 0 .. N - 1 : PlaceB(j, a)' = PlaceB(j, a)
      /\ ElementA(a, j)' = ElementA(a, j)
  BY <1>1, <1>5 DEF LastRow, PlaceB, ElementA
\* The three loops: the next row, the next block below, the next column of blocks.
<1>7. \/ i + 1 < LastRow /\ i' = i + 1 /\ row' = row /\ column' = column
      \/ i + 1 = LastRow /\ row + Side < N /\ row' = row + Side /\ i' = row + Side /\ column' = column
      \/ i + 1 = N /\ column' = column + Side /\ row' = 0 /\ i' = 0
  BY <1>3, <1>4, <1>5, <1>6 DEF Advance
<1>8. TransTypes'
  <2>1. PICK p \in Shapes : M = p[1] /\ N = p[2]
    BY DEF TransTypes
  <2>2. M' = p[1] /\ N' = p[2]
    BY <1>1, <2>1
  <2>3. column' \in Nat /\ row' \in Nat /\ i' \in Nat
    BY <1>5, <1>7
  <2>4. DOMAIN B' = 0 .. M' * N' - 1
    <3>1. DOMAIN B = 0 .. M * N - 1
      BY DEF TransTypes
    <3> QED BY <1>1, <1>2, <3>1
  <2>5. kernel' \in {"transpose_submit", "trans"}
    BY <1>1, <1>3
  <2> QED BY <1>2, <2>2, <2>3, <2>4, <2>5 DEF TransTypes
<1>9. AtBlock'
  <2>1. PICK r \in Nat : row = Side * r
    BY <1>3 DEF AtBlock
  <2>2. PICK c \in Nat : column = Side * c
    BY <1>3 DEF AtBlock
  <2>3. \E q \in Nat : row' = Side * q
    <3>1. row + Side = Side * (r + 1) /\ 0 = Side * 0
      BY <1>5, <2>1
    <3> QED BY <1>7, <2>1, <3>1
  <2>4. \E q \in Nat : column' = Side * q
    <3>1. column + Side = Side * (c + 1)
      BY <1>5, <2>2
    <3> QED BY <1>7, <2>2, <3>1
  <2>5. row' < N /\ row' <= i'
    BY <1>4, <1>5, <1>7
  <2>6. i' < LastRow'
    <3>1. LastRow' = IF Fixed \/ row' + Side < N THEN row' + Side ELSE N
      BY <1>1, <1>5 DEF LastRow
    <3>2. LastRow = IF Fixed \/ row + Side < N THEN row + Side ELSE N
      BY DEF LastRow
    <3> QED BY <1>4, <1>5, <1>6, <1>7, <2>5, <3>1, <3>2
  <2> QED BY <1>1, <1>5, <2>3, <2>4, <2>5, <2>6 DEF AtBlock
<1>10. FilledRight'
  <2> SUFFICES ASSUME NEW j \in 0 .. M - 1, NEW a \in 0 .. N - 1, Filled(j, a)'
               PROVE  B'[PlaceB(j, a)] = ElementA(a, j)
    BY <1>1, <1>6 DEF FilledRight
  <2>1. j < column' \/ (j < LastColumn' /\ a < i')
    BY <1>1, <1>3 DEF Filled
  <2>2. column' = column => LastColumn' = LastColumn
    BY <1>1, <1>5 DEF LastColumn
  <2>3. Filled(j, a) \/ (j \in column .. LastColumn - 1 /\ a = i)
    <3>1. j < column \/ (j < LastColumn /\ a <= i)
      BY <1>4, <1>5, <1>6, <1>7, <2>1, <2>2
    <3> QED BY <1>3, <1>4, <1>5, <3>1 DEF Filled
  <2> QED BY <1>1, <1>2, <2>3 DEF FilledRight
<1> QED BY <1>1, <1>8, <1>9, <1>10

LEMMA NextTrans == TransInv /\ [TransNext]_transVars => TransInv'
<1> SUFFICES ASSUME TransInv, [TransNext]_transVars PROVE TransInv'
  OBVIOUS
<1>1. CASE UNCHANGED transVars
  BY <1>1 DEF TransInv, TransTypes, Waiting, AtBlock, FilledRight, Filled, Side, LastRow, Columns,
              LastColumn, Fixed, PlaceB, ElementA, transVars, arguments
<1> QED BY <1>1, SubmitStep, TransStep DEF TransNext

\* Both kernels store every element where the transpose has it, and nothing
\* outside B, for every shape that they are called with (trans.c:23-118).
THEOREM Transposes == TransSpec => []TransposeExact
<1>1. TransInv => TransposeExact
  <2> SUFFICES ASSUME TransInv, Finished PROVE Validated
    BY DEF TransInv, TransTypes, TransposeExact
  <2>1. ASSUME NEW j \in 0 .. M - 1, NEW a \in 0 .. N - 1 PROVE Filled(j, a)
    <3>1. M \in Nat \ {0} /\ N \in Nat \ {0} /\ (N \in {32, 64} => M = N) /\ column \in Nat
          /\ kernel \in {"transpose_submit", "trans"}
      BY Shape DEF TransInv, TransTypes
    <3> QED BY <3>1 DEF Finished, Filled, Columns, Fixed
  <2> QED BY <2>1 DEF TransInv, FilledRight, Validated
<1> QED BY <1>1, InitTrans, NextTrans, PTL DEF TransSpec
=============================================================================
