----------------------------- MODULE Transpose -----------------------------
(* The transpose kernels of labs/cachelab/trans.c, run the way test-trans.c  *)
(* and tracegen.c run and judge them: A and B are filled, one kernel works   *)
(* through A, the result is compared with the transpose of A, and the misses *)
(* of its accesses are counted on a direct-mapped cache of 32 lines of 32    *)
(* bytes.  An action is one turn of the loop over i.                         *)
(*                                                                           *)
(* The element of A at row i and column j stands for the random number that  *)
(* initMatrix stored there, so all are different.  A and B are flat arrays.  *)
(* Misses are counted for transpose_submit, the kernel that is graded.       *)
EXTENDS Integers, SequencesExt

CONSTANTS Shapes       \* the pairs <<M, N>> that are asked for

\* With N = 32 or 64 the loops do not look at M and leave the arrays unless
\* the matrix is square (trans.c:33, 53).
ASSUME ShapeAssumption ==
  \A p \in Shapes : p[1] \in Nat \ {0} /\ p[2] \in Nat \ {0}
                    /\ (p[2] \in {32, 64} => p[1] = p[2])

VARIABLES M, N, kernel,      \* A has N rows of M, B has M rows of N
          column, row, i,    \* the loop variables
          diagonal, temp,    \* the element put off until the end of the row
          B, stray,          \* B, and whether anything was stored outside it
          lines, traceMisses      \* the cache

arguments == <<M, N, kernel>>
transVars == <<arguments, column, row, i, diagonal, temp, B, stray, lines, traceMisses>>

Garbage == -1
ElementA(a, j) == a * M + j      \* also its place in A
PlaceB(j, a) == j * N + a

\* Blocks of 32 bytes.  tracegen's A begins at the ninth set and is followed by
\* B, both 256 rows of 256 ints, and by the markers and the list of functions.
BlockA(e) == 8 + e \div 8
BlockB(p) == BlockA(p) + 8192
Markers == BlockA(0) + 16384

\* One access to the direct-mapped cache c = <<lines, traceMisses>>.
Access(c, block) ==
  IF c[1][block % 32] = block THEN c
                              ELSE <<[c[1] EXCEPT ![block % 32] = block], c[2] + 1>>

Trace(blocks) == LET c == FoldLeft(Access, <<lines, traceMisses>>, blocks)
                 IN lines' = c[1] /\ traceMisses' = c[2]

TransInit ==
  /\ \E p \in Shapes : M = p[1] /\ N = p[2]
  /\ kernel \in {"transpose_submit", "trans"}
  /\ column = 0 /\ row = 0 /\ i = 0 /\ diagonal = 0 /\ temp = 0
  /\ B = [p \in 0 .. M * N - 1 |-> Garbage] /\ stray = FALSE
  /\ LET c == FoldLeft(Access, <<[s \in 0 .. 31 |-> -1], 0>>, <<Markers, Markers + 1, Markers>>)
     IN lines = c[1] /\ traceMisses = c[2]

-----------------------------------------------------------------------------
Fixed == N \in {32, 64}
MutantSide == IF N = 32 THEN 16 ELSE IF N = 64 THEN 4 ELSE 16  \* blocks of 16
Side == IF N = 32 THEN 8 ELSE IF N = 64 THEN 4 ELSE 16
Columns == IF Fixed THEN N ELSE M    \* bound of column
LastRow == IF Fixed \/ row + Side < N THEN row + Side ELSE N
LastColumn == IF Fixed \/ column + Side < M THEN column + Side ELSE M

Store(stores) ==       \* a function from places of B to elements
  /\ B' = [p \in DOMAIN B |-> IF p \in DOMAIN stores THEN stores[p] ELSE B[p]]
  /\ stray' = (stray \/ DOMAIN stores \ DOMAIN B # {})

MutantStoresDiagonal == row = column /\ i = row  \* once a block, not once a row
StoresDiagonal == row = column

\* for (j = column; ...): the element on the diagonal is only loaded, and
\* stored after the others; on the other blocks of the diagonal it is stale.
SubmitRow ==
  LET js == column .. LastColumn - 1
      others == [p \in {PlaceB(j, i) : j \in js \ {i}} |-> ElementA(i, (p - i) \div N)]
      put == PlaceB(diagonal', diagonal')
      row0 == [k \in 1 .. 2 * (LastColumn - column) |->
                 LET j == column + (k - 1) \div 2
                 IN IF k % 2 = 1 \/ j = i THEN BlockA(ElementA(i, j)) ELSE BlockB(PlaceB(j, i))]
  IN
  /\ diagonal' = IF i \in js THEN i ELSE diagonal
  /\ temp' = IF i \in js THEN ElementA(i, i) ELSE temp
  /\ IF StoresDiagonal
       THEN /\ Store([p \in DOMAIN others \cup {put} |-> IF p = put THEN temp' ELSE others[p]])
            /\ Trace(Append(row0, BlockB(put)))
       ELSE Store(others) /\ Trace(row0)

\* The three outer loops.
Advance ==
  IF i + 1 < LastRow THEN i' = i + 1 /\ UNCHANGED <<row, column>>
  ELSE IF row + Side < N THEN row' = row + Side /\ i' = row' /\ UNCHANGED column
  ELSE column' = column + Side /\ row' = 0 /\ i' = 0

Submit ==
  /\ kernel = "transpose_submit" /\ column < Columns
  /\ SubmitRow /\ Advance /\ UNCHANGED arguments

TransRow ==
  /\ kernel = "trans" /\ i < N
  /\ Store([p \in {PlaceB(j, i) : j \in 0 .. M - 1} |-> ElementA(i, (p - i) \div N)])
  /\ i' = i + 1
  /\ UNCHANGED <<arguments, column, row, diagonal, temp, lines, traceMisses>>

TransNext == Submit \/ TransRow
TransSpec == TransInit /\ [][TransNext]_transVars

Finished == IF kernel = "trans" THEN i = N ELSE column >= Columns

\* validate: B against correctTrans.
Validated == \A j \in 0 .. M - 1, a \in 0 .. N - 1 : B[PlaceB(j, a)] = ElementA(a, j)

-----------------------------------------------------------------------------
(* Properties *)

\* When a kernel returns B is the transpose of A, though the diagonal is put off
\* and, in a block cut off by the edge of the matrix, stored again from a stale
\* temp (trans.c:72-93); and nothing outside B is written.
TransposeExact == ~stray /\ (Finished => Validated)

\* transpose_submit is within the numbers of misses for which the driver gives
\* the full mark, 300 for 32x32 and 2000 for 61x67, and gets part of the mark for
\* 64x64, where the full one needs 1300 (driver.py:94-96).
MissesWithinTarget ==
  LET all == traceMisses + 1      \* with the one at the end marker
  IN kernel = "transpose_submit" =>
       /\ <<M, N>> = <<32, 32>> => all <= 300
       /\ <<M, N>> = <<61, 67>> => all <= 2000
       /\ <<M, N>> = <<64, 64>> => all < 2000
=============================================================================
