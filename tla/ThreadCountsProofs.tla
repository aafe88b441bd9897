------------------------- MODULE ThreadCountsProofs -------------------------
(* How one step changes the number of threads at given places, and the      *)
(* number of hands an item of a FIFO queue is in.                           *)
EXTENDS ThreadCounts, FiniteSetTheorems, SequenceTheorems, TLAPS

\* The threads of a finite set that stand at given places are finitely many.
LEMMA AtFinite ==
  ASSUME NEW f, NEW S, IsFiniteSet(S), NEW places
  PROVE  /\ IsFiniteSet(At(f, S, places))
         /\ Count(f, S, places) \in Nat
<1>1. At(f, S, places) \subseteq S
  BY DEF At
<1>2. IsFiniteSet(At(f, S, places))
  BY <1>1, FS_Subset
<1> QED BY <1>2, FS_CardinalityType DEF Count

\* A thread that stands there is counted.
LEMMA CountPositive ==
  ASSUME NEW f, NEW S, IsFiniteSet(S), NEW places, NEW t \in S, f[t] \in places
  PROVE  Count(f, S, places) > 0
<1>1. t \in At(f, S, places)
  BY DEF At
<1>2. IsFiniteSet(At(f, S, places)) /\ Count(f, S, places) \in Nat
  BY AtFinite
<1>3. Count(f, S, places) # 0
  BY <1>1, <1>2, FS_EmptySet DEF Count
<1> QED BY <1>2, <1>3

\* One thread's move to place `to` changes a count by its arrival and its leave.
LEMMA CountMove ==
  ASSUME NEW f, NEW g, NEW S, IsFiniteSet(S), NEW places, NEW t, NEW to,
         Moved(f, g, S, t, to)
  PROVE  /\ t \in S /\ to \in places /\ f[t] \notin places
              => Count(g, S, places) = Count(f, S, places) + 1
         /\ t \in S /\ to \notin places /\ f[t] \in places
              => Count(g, S, places) = Count(f, S, places) - 1
         /\ t \notin S \/ (to \in places <=> f[t] \in places)
              => Count(g, S, places) = Count(f, S, places)
<1> DEFINE A == At(f, S, places)
           B == At(g, S, places)
<1>1. IsFiniteSet(A) /\ Cardinality(A) \in Nat
  BY AtFinite DEF Count
<1>2. IsFiniteSet(B) /\ Cardinality(B) \in Nat
  BY AtFinite DEF Count
<1>3. CASE t \in S /\ to \in places /\ f[t] \notin places
  <2>1. B = A \cup {t} /\ t \notin A
    BY <1>3 DEF At, Moved
  <2>2. Cardinality(B) = Cardinality(A) + 1
    BY <2>1, <1>1, FS_AddElement
  <2> QED BY <2>2, <1>3, <1>1 DEF Count
<1>4. CASE t \in S /\ to \notin places /\ f[t] \in places
  <2>1. B = A \ {t} /\ t \in A
    BY <1>4 DEF At, Moved
  <2>2. Cardinality(B) = Cardinality(A) - 1
    BY <2>1, <1>1, FS_RemoveElement
  <2> QED BY <2>2, <1>4, <1>1 DEF Count
<1>5. CASE t \notin S \/ (to \in places <=> f[t] \in places)
  <2>1. B = A
    BY <1>5 DEF At, Moved
  <2> QED BY <2>1, <1>5, <1>1 DEF Count
<1> QED BY <1>3, <1>4, <1>5

-----------------------------------------------------------------------------
(* Where a value stands in a function and in a sequence *)

Same(a, b) == IF a = b THEN 1 ELSE 0

\* An assignment to one argument moves one value out and one in.
LEMMA WhereMove ==
  ASSUME NEW f, NEW g, NEW S, IsFiniteSet(S), NEW t \in S, NEW x,
         \A s \in S : s # t => g[s] = f[s]
  PROVE  /\ Cardinality(Where(f, S, x)) \in Nat
         /\ Cardinality(Where(g, S, x)) \in Nat
         /\ Cardinality(Where(g, S, x))
              = Cardinality(Where(f, S, x)) + Same(g[t], x) - Same(f[t], x)
<1>1. /\ At(f, S, {x}) = Where(f, S, x)
      /\ At(g, S, {x}) = Where(g, S, x)
  BY DEF At, Where
<1>2. Moved(f, g, S, t, g[t])
  BY DEF Moved
<1>3. Count(f, S, {x}) \in Nat /\ Count(g, S, {x}) \in Nat
  BY AtFinite
<1>4. Count(g, S, {x}) = Count(f, S, {x}) + Same(g[t], x) - Same(f[t], x)
  BY <1>2, <1>3, CountMove DEF Same
<1> QED BY <1>1, <1>3, <1>4 DEF Count

\* A value that stands nowhere else is counted once where it stands.
LEMMA WherePositive ==
  ASSUME NEW f, NEW S, IsFiniteSet(S), NEW t \in S
  PROVE  Cardinality(Where(f, S, f[t])) \in Nat \ {0}
<1>1. t \in Where(f, S, f[t]) /\ Where(f, S, f[t]) \subseteq S
  BY DEF Where
<1>2. IsFiniteSet(Where(f, S, f[t]))
  BY <1>1, FS_Subset
<1> QED BY <1>1, <1>2, FS_CardinalityType, FS_EmptySet

LEMMA WhereFinite ==
  ASSUME NEW f, NEW S, IsFiniteSet(S), NEW x
  PROVE  IsFiniteSet(Where(f, S, x)) /\ Cardinality(Where(f, S, x)) \in Nat
<1>1. Where(f, S, x) \subseteq S
  BY DEF Where
<1> QED BY <1>1, FS_Subset, FS_CardinalityType

\* The positions of a value in a sequence.
Positions(s, x) == Where(s, DOMAIN s, x)

LEMMA PositionsFinite ==
  ASSUME NEW T, NEW s \in Seq(T), NEW x
  PROVE  IsFiniteSet(Positions(s, x)) /\ Cardinality(Positions(s, x)) \in Nat
<1>1. DOMAIN s = 1 .. Len(s) /\ Len(s) \in Nat
  OBVIOUS
<1>2. IsFiniteSet(1 .. Len(s))
  BY <1>1, FS_Interval
<1> QED BY <1>1, <1>2, WhereFinite DEF Positions

\* When a sequence is another one extended by an element, or without its head.
LEMMA IsAppend ==
  ASSUME NEW S, NEW s \in Seq(S), NEW e \in S, NEW m \in Nat, Len(s) = m,
         NEW t \in [1 .. m + 1 -> S],
         \A i \in 1 .. m : t[i] = s[i], t[m + 1] = e
  PROVE  t = Append(s, e)
<1>1. t \in Seq(S) /\ Len(t) = m + 1
  OBVIOUS
<1>2. Append(s, e) \in Seq(S) /\ Len(Append(s, e)) = m + 1
  OBVIOUS
<1>3. \A i \in 1 .. m + 1 : t[i] = Append(s, e)[i]
  OBVIOUS
<1> QED BY <1>1, <1>2, <1>3, SeqEqual

LEMMA IsTail ==
  ASSUME NEW S, NEW s \in Seq(S), NEW m \in Nat, Len(s) = m + 1,
         NEW t \in [1 .. m -> S],
         \A i \in 1 .. m : t[i] = s[i + 1]
  PROVE  t = Tail(s)
<1>1. t \in Seq(S) /\ Len(t) = m
  OBVIOUS
<1>2. /\ Tail(s) \in Seq(S) /\ Len(Tail(s)) = m
      /\ \A i \in 1 .. m : Tail(s)[i] = s[i + 1]
  <2>1. s # <<>>
    BY EmptySeq
  <2> QED BY <2>1, HeadTailProperties
<1> QED BY <1>1, <1>2, SeqEqual

LEMMA PositionsAppend ==
  ASSUME NEW T, NEW s \in Seq(T), NEW e \in T, NEW x
  PROVE  Cardinality(Positions(Append(s, e), x))
           = Cardinality(Positions(s, x)) + Same(e, x)
<1>1. /\ DOMAIN s = 1 .. Len(s) /\ Len(s) \in Nat
      /\ DOMAIN Append(s, e) = 1 .. Len(s) + 1
      /\ \A i \in 1 .. Len(s) : Append(s, e)[i] = s[i]
      /\ Append(s, e)[Len(s) + 1] = e
  OBVIOUS
<1>2. IsFiniteSet(Positions(s, x)) /\ Cardinality(Positions(s, x)) \in Nat
  BY PositionsFinite
<1>3. CASE e = x
  <2>1. /\ Positions(Append(s, e), x) = Positions(s, x) \cup {Len(s) + 1}
        /\ Len(s) + 1 \notin Positions(s, x)
    BY <1>1, <1>3 DEF Positions, Where
  <2> QED BY <1>2, <1>3, <2>1, FS_AddElement DEF Same
<1>4. CASE e # x
  <2>1. Positions(Append(s, e), x) = Positions(s, x)
    BY <1>1, <1>4 DEF Positions, Where
  <2> QED BY <1>2, <1>4, <2>1 DEF Same
<1> QED BY <1>3, <1>4

LEMMA PositionsTail ==
  ASSUME NEW T, NEW s \in Seq(T), s # <<>>, NEW x
  PROVE  Cardinality(Positions(Tail(s), x))
           = Cardinality(Positions(s, x)) - Same(Head(s), x)
<1> DEFINE A == Positions(s, x) \ {1}
           B == Positions(Tail(s), x)
<1>1. /\ Len(s) \in Nat \ {0} /\ DOMAIN s = 1 .. Len(s) /\ s[1] = Head(s)
      /\ Tail(s) \in Seq(T) /\ Len(Tail(s)) = Len(s) - 1
      /\ DOMAIN Tail(s) = 1 .. Len(s) - 1
      /\ \A i \in 1 .. Len(s) - 1 : Tail(s)[i] = s[i + 1]
  BY EmptySeq, HeadTailProperties
<1>2. IsFiniteSet(Positions(s, x)) /\ Cardinality(Positions(s, x)) \in Nat
  BY PositionsFinite
<1>3. /\ Cardinality(A) = Cardinality(Positions(s, x)) - Same(Head(s), x)
      /\ IsFiniteSet(A)
  <2>1. 1 \in Positions(s, x) <=> Head(s) = x
    BY <1>1 DEF Positions, Where
  <2> QED BY <1>2, <2>1, FS_RemoveElement DEF Same
<1>4. \A i : i \in B <=> (i \in Int /\ i + 1 \in A)
  BY <1>1 DEF Positions, Where
<1>5. \A j \in A : j \in Int /\ j - 1 \in B
  BY <1>1 DEF Positions, Where
<1>6. Cardinality(B) = Cardinality(A)
  <2> DEFINE f == [j \in A |-> j - 1]
  <2>1. f \in Bijection(A, B)
    <3>1. f \in [A -> B]
      BY <1>5
    <3>2. \A i, j \in A : f[i] = f[j] => i = j
      BY <1>5
    <3>3. \A b \in B : \E j \in A : f[j] = b
      <4> TAKE b \in B
      <4>1. b \in Int /\ b + 1 \in A
        BY <1>4
      <4>2. f[b + 1] = b
        BY <4>1
      <4> QED BY <4>1, <4>2
    <3> QED BY <3>1, <3>2, <3>3 DEF Bijection, Injection, Surjection, IsInjective
  <2>2. ExistsBijection(A, B)
    BY <2>1 DEF ExistsBijection
  <2> QED BY <1>3, <2>2, FS_Bijection
<1> QED BY <1>3, <1>6

-----------------------------------------------------------------------------
(* The hands an item of a queue is in: a producer's that offers it, the      *)
(* queue's, once for each place, and a consumer's that has taken it.         *)

LEMMA HandsNat ==
  ASSUME NEW P, IsFiniteSet(P), NEW C, IsFiniteSet(C), NEW T,
         NEW queue \in Seq(T), NEW pending, NEW taken, NEW x
  PROVE  Hands(x, queue, pending, taken, P, C) \in Nat
BY WhereFinite, PositionsFinite DEF Hands, Positions

\* An offer puts the item in one hand more ...
LEMMA OfferHands ==
  ASSUME NEW P, IsFiniteSet(P), NEW C, IsFiniteSet(C), NEW T, NEW queue \in Seq(T),
         NEW pending, NEW pending2, NEW taken, NEW p \in P, NEW x,
         pending[p] # x, \A q \in P : q # p => pending2[q] = pending[q]
  PROVE  Hands(x, queue, pending2, taken, P, C)
           = Hands(x, queue, pending, taken, P, C) + Same(pending2[p], x)
<1>1. /\ Cardinality(Positions(queue, x)) \in Nat
      /\ Cardinality(Where(taken, C, x)) \in Nat
  BY PositionsFinite, WhereFinite
<1>2. /\ Cardinality(Where(pending, P, x)) \in Nat
      /\ Cardinality(Where(pending2, P, x))
           = Cardinality(Where(pending, P, x)) + Same(pending2[p], x) - Same(pending[p], x)
  BY WhereMove
<1> QED BY <1>1, <1>2 DEF Hands, Positions, Same

\* ... a put and a take pass it on ...
LEMMA PutHands ==
  ASSUME NEW P, IsFiniteSet(P), NEW C, IsFiniteSet(C), NEW T, NEW queue \in Seq(T),
         NEW pending, NEW pending2, NEW taken, NEW p \in P, NEW x, pending[p] \in T,
         pending2[p] # x, \A q \in P : q # p => pending2[q] = pending[q]
  PROVE  Hands(x, Append(queue, pending[p]), pending2, taken, P, C)
           = Hands(x, queue, pending, taken, P, C)
<1>1. Cardinality(Positions(queue, x)) \in Nat /\ Cardinality(Where(taken, C, x)) \in Nat
  BY PositionsFinite, WhereFinite
<1>2. /\ Cardinality(Where(pending, P, x)) \in Nat
      /\ Cardinality(Where(pending2, P, x))
           = Cardinality(Where(pending, P, x)) - Same(pending[p], x)
  <2>1. /\ Cardinality(Where(pending, P, x)) \in Nat
        /\ Cardinality(Where(pending2, P, x))
             = Cardinality(Where(pending, P, x)) + Same(pending2[p], x) - Same(pending[p], x)
    BY WhereMove
  <2> QED BY <2>1 DEF Same
<1>3. Cardinality(Positions(Append(queue, pending[p]), x))
        = Cardinality(Positions(queue, x)) + Same(pending[p], x)
  BY PositionsAppend
<1> QED BY <1>1, <1>2, <1>3 DEF Hands, Positions, Same

LEMMA TakeHands ==
  ASSUME NEW P, IsFiniteSet(P), NEW C, IsFiniteSet(C), NEW T, NEW queue \in Seq(T),
         NEW pending, NEW taken, NEW taken2, NEW c \in C, NEW x, queue # <<>>,
         taken[c] # x, taken2[c] = Head(queue), \A d \in C : d # c => taken2[d] = taken[d]
  PROVE  Hands(x, Tail(queue), pending, taken2, P, C)
           = Hands(x, queue, pending, taken, P, C)
<1>1. Cardinality(Positions(queue, x)) \in Nat /\ Cardinality(Where(pending, P, x)) \in Nat
  BY PositionsFinite, WhereFinite
<1>2. /\ Cardinality(Where(taken, C, x)) \in Nat
      /\ Cardinality(Where(taken2, C, x))
           = Cardinality(Where(taken, C, x)) + Same(Head(queue), x)
  <2>1. /\ Cardinality(Where(taken, C, x)) \in Nat
        /\ Cardinality(Where(taken2, C, x))
             = Cardinality(Where(taken, C, x)) + Same(taken2[c], x) - Same(taken[c], x)
    BY WhereMove
  <2> QED BY <2>1 DEF Same
<1>3. Cardinality(Positions(Tail(queue), x))
        = Cardinality(Positions(queue, x)) - Same(Head(queue), x)
  BY PositionsTail
<1> QED BY <1>1, <1>2, <1>3 DEF Hands, Positions, Same

\* ... and a release takes it out of the hands it was in.
LEMMA ReleaseHands ==
  ASSUME NEW P, IsFiniteSet(P), NEW C, IsFiniteSet(C), NEW T, NEW queue \in Seq(T),
         NEW pending, NEW taken, NEW taken2, NEW c \in C, NEW x,
         taken2[c] # x, \A d \in C : d # c => taken2[d] = taken[d]
  PROVE  Hands(x, queue, pending, taken2, P, C)
           = Hands(x, queue, pending, taken, P, C) - Same(taken[c], x)
<1>1. Cardinality(Positions(queue, x)) \in Nat /\ Cardinality(Where(pending, P, x)) \in Nat
  BY PositionsFinite, WhereFinite
<1>2. /\ Cardinality(Where(taken, C, x)) \in Nat
      /\ Cardinality(Where(taken2, C, x))
           = Cardinality(Where(taken, C, x)) - Same(taken[c], x)
  BY WhereMove DEF Same
<1> QED BY <1>1, <1>2 DEF Hands, Positions, Same

\* What a consumer has taken is in a hand.
LEMMA TakenInHand ==
  ASSUME NEW P, IsFiniteSet(P), NEW C, IsFiniteSet(C), NEW T, NEW queue \in Seq(T),
         NEW pending, NEW taken, NEW c \in C
  PROVE  Hands(taken[c], queue, pending, taken, P, C) >= 1
BY WherePositive, WhereFinite, PositionsFinite DEF Hands, Positions
=============================================================================
