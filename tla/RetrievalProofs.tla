---------------------------- MODULE RetrievalProofs ----------------------------
(***************************************************************************)
(* Proofs about Retrieval for every stream, every limit, every search and  *)
(* every range, and any number of accidents to the data file: the index a  *)
(* commit writes is accepted, what is found is what was stored, once, in   *)
(* order and without a gap, what is retrieved is what was stored, and no   *)
(* half of a marker is handed out.                                         *)
(***************************************************************************)
EXTENDS Retrieval, SequenceTheorems, FiniteSetTheorems, TLAPS

(* Ranks.                                                                    *)

Rank(S, x) == Cardinality(Below(S, x))

\* Fewer elements lie below an element than there are.
LEMMA RankType ==
  ASSUME NEW S \in SUBSET Nat, IsFiniteSet(S), NEW x \in Nat
  PROVE  /\ IsFiniteSet(Below(S, x))
         /\ Rank(S, x) \in 0..Cardinality(S)
         /\ x \in S => Rank(S, x) < Cardinality(S)
<1>1. Below(S, x) \in SUBSET S
  BY DEF Below
<1>2. /\ IsFiniteSet(Below(S, x))
      /\ Cardinality(Below(S, x)) <= Cardinality(S)
      /\ Cardinality(S) = Cardinality(Below(S, x)) => S = Below(S, x)
  BY <1>1, FS_Subset
<1>3. Cardinality(S) \in Nat /\ Cardinality(Below(S, x)) \in Nat
  BY <1>2, FS_CardinalityType
<1>4. x \notin Below(S, x)
  BY DEF Below
<1> QED
  BY <1>2, <1>3, <1>4 DEF Rank

\* A rank grows with the number, and past every element of the set.
LEMMA RankMonotone ==
  ASSUME NEW S \in SUBSET Nat, IsFiniteSet(S), NEW x \in Nat, NEW y \in Nat
  PROVE  /\ x <= y => Rank(S, x) <= Rank(S, y)
         /\ x < y /\ x \in S => Rank(S, x) + 1 <= Rank(S, y)
<1>1. /\ IsFiniteSet(Below(S, x)) /\ Rank(S, x) \in 0..Cardinality(S)
      /\ IsFiniteSet(Below(S, y)) /\ Rank(S, y) \in 0..Cardinality(S)
  BY RankType
<1>2. Cardinality(S) \in Nat
  BY FS_CardinalityType
<1>3. ASSUME x <= y
      PROVE  Rank(S, x) <= Rank(S, y)
  <2>1. ASSUME NEW z \in Below(S, x)
        PROVE  z \in Below(S, y)
    <3>1. z \in S /\ z \in Nat /\ z < x
      BY DEF Below
    <3> QED
      BY <3>1, <1>3 DEF Below
  <2> QED
    <3>1. Below(S, x) \in SUBSET Below(S, y)
      BY <2>1
    <3> QED
      BY <3>1, <1>1, FS_Subset DEF Rank
<1>4. ASSUME x < y, x \in S
      PROVE  Rank(S, x) + 1 <= Rank(S, y)
  <2>1. Below(S, x) \cup {x} \in SUBSET Below(S, y)
    <3>1. ASSUME NEW z \in Below(S, x) \cup {x}
          PROVE  z \in Below(S, y)
      <4>1. z \in S /\ z \in Nat /\ (z < x \/ z = x)
        BY <1>4 DEF Below
      <4> QED
        BY <4>1, <1>4 DEF Below
    <3> QED
      BY <3>1
  <2>2. x \notin Below(S, x)
    BY DEF Below
  <2>3. Cardinality(Below(S, x) \cup {x}) = Cardinality(Below(S, x)) + 1
    BY <2>2, <1>1, FS_AddElement
  <2>4. Cardinality(Below(S, x) \cup {x}) <= Cardinality(Below(S, y))
    BY <2>1, <1>1, FS_Subset
  <2> QED
    BY <2>3, <2>4 DEF Rank
<1> QED
  BY <1>3, <1>4

\* Every rank below the cardinality is some element's: ranks are an injection
\* into a set of the same size.
LEMMA RankOnto ==
  ASSUME NEW S \in SUBSET Nat, IsFiniteSet(S), NEW k \in 1..Cardinality(S)
  PROVE  \E x \in S : Rank(S, x) = k - 1
<1> DEFINE n == Cardinality(S)
           T == 0..(n - 1)
           R == [x \in S |-> Rank(S, x)]
<1>1. n \in Nat
  BY FS_CardinalityType
<1>2. IsFiniteSet(T) /\ Cardinality(T) = n
  <2>1. 0 \in Int /\ n - 1 \in Int
    BY <1>1
  <2>2. /\ IsFiniteSet(T)
        /\ Cardinality(T) = IF 0 > n - 1 THEN 0 ELSE (n - 1) - 0 + 1
    <3> HIDE DEF n
    <3> QED
      BY <2>1, FS_Interval
  <2> HIDE DEF n, T
  <2> QED
    BY <2>2, <1>1
<1>3. R \in [S -> T]
  BY <1>1, RankType
<1>4. ASSUME NEW x \in S, NEW y \in S, R[x] = R[y]
      PROVE  x = y
  <2>1. Rank(S, x) = Rank(S, y)
    BY <1>4
  <2>2. Rank(S, x) \in Nat
    BY <1>1, RankType
  <2>3. x < y => Rank(S, x) + 1 <= Rank(S, y)
    BY RankMonotone
  <2>4. y < x => Rank(S, y) + 1 <= Rank(S, x)
    BY RankMonotone
  <2> QED
    BY <2>1, <2>2, <2>3, <2>4
<1>5. R \in Injection(S, T)
  BY <1>3, <1>4 DEF Injection, IsInjective
<1>6. R \in Surjection(S, T)
  <2> HIDE DEF R, T, n
  <2> QED
    BY <1>2, <1>5, FS_Injection DEF n
<1>7. k - 1 \in T
  BY <1>1
<1>8. \A t \in T : \E s \in S : R[s] = t
  BY <1>6 DEF Surjection
<1> QED
  BY <1>7, <1>8

\* Ascending lists the set: the element at k is in it and has rank k - 1.
LEMMA AscendingElement ==
  ASSUME NEW S \in SUBSET Nat, IsFiniteSet(S), NEW k \in 1..Cardinality(S)
  PROVE  /\ Ascending(S)[k] \in S
         /\ Rank(S, Ascending(S)[k]) = k - 1
<1>1. \E x \in S : Cardinality(Below(S, x)) = k - 1
  BY RankOnto DEF Rank
<1>2. Ascending(S)[k] = CHOOSE x \in S : Cardinality(Below(S, x)) = k - 1
  BY DEF Ascending
<1> QED
  BY <1>1, <1>2 DEF Rank

\* It lists it in order.
LEMMA AscendingOrder ==
  ASSUME NEW S \in SUBSET Nat, IsFiniteSet(S),
         NEW j \in 1..Cardinality(S), NEW k \in 1..Cardinality(S), j < k
  PROVE  Ascending(S)[j] < Ascending(S)[k]
<1>1. Cardinality(S) \in Nat
  BY FS_CardinalityType
<1>2. /\ Ascending(S)[j] \in S /\ Rank(S, Ascending(S)[j]) = j - 1
      /\ Ascending(S)[k] \in S /\ Rank(S, Ascending(S)[k]) = k - 1
  BY AscendingElement
<1>3. Ascending(S)[j] \in Nat /\ Ascending(S)[k] \in Nat
  BY <1>2
<1>4. Ascending(S)[k] <= Ascending(S)[j]
        => Rank(S, Ascending(S)[k]) <= Rank(S, Ascending(S)[j])
  BY <1>3, RankMonotone
<1> QED
  BY <1>1, <1>2, <1>3, <1>4

\* Only one element has a rank.
LEMMA AscendingRank ==
  ASSUME NEW S \in SUBSET Nat, IsFiniteSet(S), NEW x \in S,
         NEW k \in 1..Cardinality(S), Rank(S, x) = k - 1
  PROVE  Ascending(S)[k] = x
<1>1. Cardinality(S) \in Nat
  BY FS_CardinalityType
<1>2. Ascending(S)[k] \in S /\ Rank(S, Ascending(S)[k]) = k - 1
  BY AscendingElement
<1>3. x \in Nat /\ Ascending(S)[k] \in Nat
  BY <1>2
<1>4. x < Ascending(S)[k] => Rank(S, x) + 1 <= Rank(S, Ascending(S)[k])
  BY <1>2, <1>3, RankMonotone
<1>5. Ascending(S)[k] < x => Rank(S, Ascending(S)[k]) + 1 <= Rank(S, x)
  BY <1>2, <1>3, RankMonotone
<1> QED
  BY <1>1, <1>2, <1>3, <1>4, <1>5

\* The places after a up to c, in order, are a + 1, a + 2 and so on.
LEMMA AscendingInterval ==
  ASSUME NEW a \in Nat, NEW c \in Nat, a <= c, NEW S, S = (a + 1)..c
  PROVE  /\ Cardinality(S) = c - a
         /\ \A k \in 1..(c - a) : Ascending(S)[k] = a + k
<1>1. S \in SUBSET Nat /\ IsFiniteSet(S)
  BY FS_Interval
<1>2. Cardinality(S) = c - a
  <2>1. a + 1 \in Int /\ c \in Int
    OBVIOUS
  <2>2. Cardinality((a + 1)..c) = IF a + 1 > c THEN 0 ELSE c - (a + 1) + 1
    BY <2>1, FS_Interval
  <2> QED
    BY <2>2
<1>3. ASSUME NEW k \in 1..(c - a)
      PROVE  Ascending(S)[k] = a + k
  <2>1. Below(S, a + k) = (a + 1)..(a + k - 1)
    BY DEF Below
  <2>2. Cardinality((a + 1)..(a + k - 1)) = k - 1
    <3>1. a + 1 \in Int /\ a + k - 1 \in Int
      OBVIOUS
    <3>2. Cardinality((a + 1)..(a + k - 1))
            = IF a + 1 > a + k - 1 THEN 0 ELSE (a + k - 1) - (a + 1) + 1
      BY <3>1, FS_Interval
    <3> QED
      BY <3>2
  <2>3. a + k \in S /\ k \in 1..Cardinality(S)
    BY <1>2
  <2>4. Rank(S, a + k) = k - 1
    BY <2>1, <2>2 DEF Rank
  <2> QED
    BY <1>1, <2>3, <2>4, AscendingRank
<1> QED
  BY <1>2, <1>3

-------------------------------------------------------------------------------
(* Lines: where the index says a line is, and where counting newlines puts it. *)

Offsets(b) == Ascending(LineStarts(b))
StartCount(b) == Cardinality(LineStarts(b))

LEMMA StartsFinite ==
  ASSUME NEW b \in Seq(Bytes)
  PROVE  /\ Len(b) \in Nat
         /\ LineStarts(b) \in SUBSET Nat
         /\ IsFiniteSet(LineStarts(b))
         /\ StartCount(b) \in Nat \ {0}
         /\ StartCount(b) <= Len(b) + 1
         /\ b # << >> => StartCount(b) <= Len(b)
<1>1. Len(b) \in Nat
  OBVIOUS
<1>2. LineStarts(b) \in SUBSET (0..Len(b))
  BY <1>1 DEF LineStarts
<1>3. b # << >> => LineStarts(b) \in SUBSET (0..(Len(b) - 1))
  BY <1>1 DEF LineStarts
<1>4. /\ IsFiniteSet(0..Len(b)) /\ Cardinality(0..Len(b)) = Len(b) + 1
      /\ IsFiniteSet(0..(Len(b) - 1)) /\ Cardinality(0..(Len(b) - 1)) = Len(b)
  <2>1. /\ IsFiniteSet(0..Len(b))
        /\ Cardinality(0..Len(b)) = IF 0 > Len(b) THEN 0 ELSE Len(b) - 0 + 1
    BY <1>1, FS_Interval
  <2>2. /\ IsFiniteSet(0..(Len(b) - 1))
        /\ Cardinality(0..(Len(b) - 1))
             = IF 0 > Len(b) - 1 THEN 0 ELSE (Len(b) - 1) - 0 + 1
    <3>1. Len(b) - 1 \in Int
      BY <1>1
    <3> QED
      BY <3>1, FS_Interval
  <2> QED
    BY <1>1, <2>1, <2>2
<1>5. /\ IsFiniteSet(LineStarts(b))
      /\ StartCount(b) <= Len(b) + 1
  <2>1. /\ IsFiniteSet(LineStarts(b))
        /\ Cardinality(LineStarts(b)) <= Cardinality(0..Len(b))
    BY <1>2, <1>4, FS_Subset
  <2> QED
    BY <2>1, <1>4 DEF StartCount
<1>6. ASSUME b # << >>
      PROVE  StartCount(b) <= Len(b)
  <2>1. Cardinality(LineStarts(b)) <= Cardinality(0..(Len(b) - 1))
    BY <1>3, <1>4, <1>6, FS_Subset
  <2> QED
    BY <2>1, <1>4 DEF StartCount
<1>7. StartCount(b) \in Nat \ {0}
  <2>1. StartCount(b) \in Nat
    BY <1>5, FS_CardinalityType DEF StartCount
  <2>2. LineStarts(b) # {}
    BY DEF LineStarts
  <2>3. StartCount(b) # 0
    BY <2>2, <1>5, FS_EmptySet DEF StartCount
  <2> QED
    BY <2>1, <2>3
<1>8. LineStarts(b) \in SUBSET Nat
  BY <1>1, <1>2
<1> QED
  BY <1>1, <1>5, <1>6, <1>7, <1>8

\* The offsets of the lines: in order, from 0, within the stream.
LEMMA OffsetsRise ==
  ASSUME NEW b \in Seq(Bytes)
  PROVE  /\ Offsets(b) \in [1..StartCount(b) -> Nat]
         /\ Len(Offsets(b)) = StartCount(b)
         /\ Offsets(b)[1] = 0
         /\ \A k \in 1..StartCount(b) :
               /\ Offsets(b)[k] \in LineStarts(b)
               /\ Offsets(b)[k] <= Len(b)
               /\ b # << >> => Offsets(b)[k] < Len(b)
               /\ Rank(LineStarts(b), Offsets(b)[k]) = k - 1
         /\ \A j, k \in 1..StartCount(b) :
               j < k => Offsets(b)[j] < Offsets(b)[k]
<1> DEFINE S == LineStarts(b)
           n == StartCount(b)
<1>1. Len(b) \in Nat /\ S \in SUBSET Nat /\ IsFiniteSet(S) /\ n \in Nat \ {0}
  BY StartsFinite
<1>2. n = Cardinality(S)
  BY DEF StartCount
<1>3. \A x \in S : x <= Len(b) /\ (b # << >> => x < Len(b))
  BY <1>1 DEF LineStarts
<1>4. 0 \in S /\ Below(S, 0) = {}
  BY <1>1 DEF LineStarts, Below
<1> HIDE DEF S, n
<1>5. \A k \in 1..n : Offsets(b)[k] \in S /\ Rank(S, Offsets(b)[k]) = k - 1
  BY <1>1, <1>2, AscendingElement DEF Offsets, S
<1>6. \A j, k \in 1..n : j < k => Offsets(b)[j] < Offsets(b)[k]
  BY <1>1, <1>2, AscendingOrder DEF Offsets, S
<1>7. DOMAIN Offsets(b) = 1..n /\ Offsets(b) = [k \in 1..n |-> Offsets(b)[k]]
  BY <1>2 DEF Offsets, Ascending, S
<1>8. Offsets(b) \in [1..n -> Nat]
  <2>1. \A k \in 1..n : Offsets(b)[k] \in Nat
    BY <1>1, <1>5
  <2> QED
    BY <2>1, <1>7
<1>9. Len(Offsets(b)) = n
  BY <1>1, <1>8
<1>10. Offsets(b)[1] = 0
  <2>1. Rank(S, 0) = 1 - 1
    <3>1. Cardinality({}) = 0
      BY FS_EmptySet
    <3>2. Rank(S, 0) = 0
      BY <1>4, <3>1 DEF Rank
    <3> QED
      BY <3>2
  <2>2. 1 \in 1..Cardinality(S)
    BY <1>1, <1>2
  <2>3. Ascending(S)[1] = 0
    BY <1>1, <1>4, <2>1, <2>2, AscendingRank
  <2> QED
    BY <2>3 DEF Offsets, S
<1>11. \A k \in 1..n : /\ Offsets(b)[k] <= Len(b)
                       /\ b # << >> => Offsets(b)[k] < Len(b)
  BY <1>3, <1>5
<1> QED
  BY <1>5, <1>6, <1>8, <1>9, <1>10, <1>11 DEF S, n

\* Counting the newlines ahead of a byte counts the lines that start ahead of it.
LEMMA LineOfRank ==
  ASSUME NEW b \in Seq(Bytes), NEW i \in 1..Len(b)
  PROVE  /\ LineOf(b, i) + 1 = Rank(LineStarts(b), i)
         /\ LineOf(b, i) \in 0..(StartCount(b) - 1)
<1> DEFINE N == {j \in 1..(i - 1) : b[j] = Newline}
<1>1. Len(b) \in Nat /\ i \in Nat
  OBVIOUS
<1>2. Below(LineStarts(b), i) = N \cup {0}
  BY <1>1 DEF Below, LineStarts
<1>3. IsFiniteSet(N)
  <2>1. N \in SUBSET (1..(i - 1)) /\ i - 1 \in Int
    BY <1>1
  <2>2. IsFiniteSet(1..(i - 1))
    BY <2>1, FS_Interval
  <2> HIDE DEF N
  <2> QED
    BY <2>1, <2>2, FS_Subset
<1>4. 0 \notin N
  OBVIOUS
<1>5. Cardinality(N) \in Nat
  <2> HIDE DEF N
  <2> QED
    BY <1>3, FS_CardinalityType
<1>6. Cardinality(N \cup {0}) = Cardinality(N) + 1
  <2> HIDE DEF N
  <2> QED
    BY <1>3, <1>4, FS_AddElement
<1>7. LineOf(b, i) = Cardinality(N)
  BY DEF LineOf
<1>8. Rank(LineStarts(b), i) <= StartCount(b)
  BY <1>1, StartsFinite, RankType DEF StartCount
<1> HIDE DEF N
<1> QED
  BY <1>2, <1>5, <1>6, <1>7, <1>8, StartsFinite DEF Rank

\* A byte lies in line k or behind it when it lies behind the start of line k.
LEMMA FromLine ==
  ASSUME NEW b \in Seq(Bytes), NEW i \in 1..Len(b),
         NEW k \in 0..(StartCount(b) - 1)
  PROVE  LineOf(b, i) >= k <=> Offsets(b)[k + 1] < i
<1> DEFINE S == LineStarts(b)
           x == Offsets(b)[k + 1]
<1>1. S \in SUBSET Nat /\ IsFiniteSet(S) /\ i \in Nat
  BY StartsFinite
<1>2. x \in S /\ x \in Nat /\ Rank(S, x) = k
  <2>1. k + 1 \in 1..StartCount(b)
    BY StartsFinite
  <2> QED
    BY <1>1, <2>1, OffsetsRise
<1>3. LineOf(b, i) + 1 = Rank(S, i) /\ LineOf(b, i) \in Nat
  BY LineOfRank
<1> HIDE DEF S, x
<1>4. x < i => Rank(S, x) + 1 <= Rank(S, i)
  BY <1>1, <1>2, RankMonotone
<1>5. i <= x => Rank(S, i) <= Rank(S, x)
  BY <1>1, <1>2, RankMonotone
<1> QED
  BY <1>1, <1>2, <1>3, <1>4, <1>5 DEF x

\* A byte lies in line k or ahead of it when it lies no further than its end.
LEMMA UptoLine ==
  ASSUME NEW b \in Seq(Bytes), NEW i \in 1..Len(b),
         NEW k \in 0..(StartCount(b) - 1)
  PROVE  LineOf(b, i) <= k <=> i <= LineEnd(Offsets(b), Len(b), k)
<1>1. StartCount(b) \in Nat /\ Len(Offsets(b)) = StartCount(b)
  BY StartsFinite, OffsetsRise
<1>2. LineOf(b, i) \in 0..(StartCount(b) - 1)
  BY LineOfRank
<1>3. CASE k + 1 < StartCount(b)
  <2>1. k + 1 \in 0..(StartCount(b) - 1)
    BY <1>1, <1>3
  <2>2. LineOf(b, i) >= k + 1 <=> Offsets(b)[k + 2] < i
    <3>1. LineOf(b, i) >= k + 1 <=> Offsets(b)[(k + 1) + 1] < i
      BY <2>1, FromLine
    <3>2. (k + 1) + 1 = k + 2
      OBVIOUS
    <3> QED
      BY <3>1, <3>2
  <2>3. LineEnd(Offsets(b), Len(b), k) = Offsets(b)[k + 2]
    BY <1>1, <1>3 DEF LineEnd
  <2>4. Offsets(b)[k + 2] \in Nat
    <3>1. k + 2 \in 1..StartCount(b)
      BY <1>1, <1>3
    <3> QED
      BY <3>1, OffsetsRise
  <2> QED
    BY <1>2, <2>2, <2>3, <2>4
<1>4. CASE ~(k + 1 < StartCount(b))
  <2>1. LineEnd(Offsets(b), Len(b), k) = Len(b)
    BY <1>1, <1>4 DEF LineEnd
  <2> QED
    BY <1>1, <1>2, <1>4, <2>1
<1> QED
  BY <1>3, <1>4

\* A line ends behind its start, and not before any line ahead of it.
LEMMA LineEnds ==
  ASSUME NEW b \in Seq(Bytes), b # << >>, NEW k \in 0..(StartCount(b) - 1)
  PROVE  /\ LineEnd(Offsets(b), Len(b), k) \in 1..Len(b)
         /\ Offsets(b)[k + 1] \in 0..(Len(b) - 1)
         /\ Offsets(b)[k + 1] < LineEnd(Offsets(b), Len(b), k)
         /\ \A j \in 0..k : Offsets(b)[j + 1] <= Offsets(b)[k + 1]
         /\ k = StartCount(b) - 1 => LineEnd(Offsets(b), Len(b), k) = Len(b)
         /\ k < StartCount(b) - 1
              => LineEnd(Offsets(b), Len(b), k) = Offsets(b)[k + 2]
<1>1. StartCount(b) \in Nat /\ Len(b) \in Nat /\ Len(Offsets(b)) = StartCount(b)
  BY StartsFinite, OffsetsRise
<1>2. k + 1 \in 1..StartCount(b)
  BY <1>1
<1>3. Offsets(b)[k + 1] \in Nat /\ Offsets(b)[k + 1] < Len(b)
  BY <1>2, OffsetsRise
<1>4. \A j \in 0..k : Offsets(b)[j + 1] <= Offsets(b)[k + 1]
  <2>1. ASSUME NEW j \in 0..k
        PROVE  Offsets(b)[j + 1] <= Offsets(b)[k + 1]
    <3>1. j + 1 \in 1..StartCount(b) /\ (j = k \/ j + 1 < k + 1)
      BY <1>1
    <3>2. j + 1 < k + 1 => Offsets(b)[j + 1] < Offsets(b)[k + 1]
      BY <1>2, <3>1, OffsetsRise
    <3>3. Offsets(b)[j + 1] \in Nat
      BY <3>1, OffsetsRise
    <3> QED
      BY <1>3, <3>1, <3>2, <3>3
  <2> QED
    BY <2>1
<1>5. CASE k < StartCount(b) - 1
  <2>1. k + 2 \in 1..StartCount(b) /\ k + 1 < k + 2
    BY <1>1, <1>5
  <2>2. Offsets(b)[k + 2] \in Nat /\ Offsets(b)[k + 2] < Len(b)
    BY <2>1, OffsetsRise
  <2>3. Offsets(b)[k + 1] < Offsets(b)[k + 2]
    BY <1>2, <2>1, OffsetsRise
  <2>4. LineEnd(Offsets(b), Len(b), k) = Offsets(b)[k + 2]
    BY <1>1, <1>5 DEF LineEnd
  <2> QED
    BY <1>1, <1>3, <1>4, <1>5, <2>2, <2>3, <2>4
<1>6. CASE k = StartCount(b) - 1
  <2>1. LineEnd(Offsets(b), Len(b), k) = Len(b)
    BY <1>1, <1>6 DEF LineEnd
  <2> QED
    BY <1>1, <1>3, <1>4, <1>6, <2>1
<1> QED
  BY <1>1, <1>5, <1>6

-------------------------------------------------------------------------------
(* The index of a stream, and what is read through it.                       *)

LineCount(b) == IF b = << >> THEN 0 ELSE StartCount(b)
LineBytes(b, k) ==
    SubSeq(b, Offsets(b)[k + 1] + 1, LineEnd(Offsets(b), Len(b), k))

LEMMA LineCountType ==
  ASSUME NEW b \in Seq(Bytes)
  PROVE  /\ LineCount(b) \in 0..Len(b)
         /\ LineCount(b) # 0 => LineCount(b) = StartCount(b) /\ b # << >>
         /\ LineCount(b) = 0 => b = << >>
  BY StartsFinite DEF LineCount

\* What a commit writes into the index.
LEMMA ManifestFacts ==
  ASSUME NEW b \in Seq(Bytes)
  PROVE  /\ StreamManifest(b).byte_len = Len(b)
         /\ StreamManifest(b).line_count = LineCount(b)
         /\ StreamManifest(b).line_offsets = Offsets(b)
         /\ Len(StreamManifest(b).line_checksums) = LineCount(b)
         /\ \A k \in 0..(LineCount(b) - 1) :
               StreamManifest(b).line_checksums[k + 1] = LineBytes(b, k)
<1> DEFINE n == LineCount(b)
           sums == [k \in 1..n |->
                       Checksum(SubSeq(b, Offsets(b)[k] + 1,
                                       LineEnd(Offsets(b), Len(b), k - 1)))]
<1>1. n \in Nat
  BY LineCountType
<1>2. LineCount(b) = IF b = << >> THEN 0 ELSE Len(Offsets(b))
  BY OffsetsRise DEF LineCount
<1>3. StreamManifest(b) = [byte_len |-> Len(b), line_count |-> n,
                           line_offsets |-> Offsets(b), line_checksums |-> sums]
  BY <1>2 DEF StreamManifest, Offsets
<1>4. Len(sums) = n
  <2> HIDE DEF n
  <2> QED
    BY <1>1
<1>5. ASSUME NEW k \in 0..(n - 1)
      PROVE  sums[k + 1] = LineBytes(b, k)
  <2>1. k + 1 \in 1..n /\ (k + 1) - 1 = k
    BY <1>1
  <2> QED
    BY <2>1 DEF LineBytes, Checksum
<1> HIDE DEF sums
<1> QED
  BY <1>3, <1>4, <1>5

\* A stream within the limits has an index the validator accepts.
LEMMA ManifestAccepted ==
  ASSUME NEW b \in Seq(Bytes), ~IndexTooLong(b), ~(Len(b) > MaxStreamBytes)
  PROVE  ValidManifest(StreamManifest(b))
<1> DEFINE m == StreamManifest(b)
<1>1. /\ m.byte_len = Len(b) /\ m.line_count = LineCount(b)
      /\ m.line_offsets = Offsets(b) /\ Len(m.line_checksums) = LineCount(b)
  BY ManifestFacts
<1>2. Len(b) \in Nat /\ StartCount(b) \in Nat \ {0}
  BY StartsFinite
<1>3. MaxStreamBytes \in Nat /\ MaxIndexEntries \in Nat \ {0}
  BY IndexLimitsNat
<1>4. StartCount(b) <= MaxIndexEntries
  BY <1>2, <1>3 DEF IndexTooLong, StartCount
<1>5. /\ Offsets(b)[1] = 0 /\ Len(Offsets(b)) = StartCount(b)
      /\ \A k \in 1..StartCount(b) : Offsets(b)[k] <= Len(b)
  BY OffsetsRise
<1>6. ASSUME NEW k \in 2..StartCount(b)
      PROVE  Offsets(b)[k - 1] < Offsets(b)[k]
  <2>1. k - 1 \in 1..StartCount(b) /\ k \in 1..StartCount(b) /\ k - 1 < k
    BY <1>2
  <2> QED
    BY <2>1, OffsetsRise
<1>7. LineCount(b) = IF Len(b) = 0 THEN 0 ELSE StartCount(b)
  <2>1. b = << >> <=> Len(b) = 0
    OBVIOUS
  <2> QED
    BY <2>1 DEF LineCount
<1> HIDE DEF m
<1>8. ValidManifest(m)
  BY <1>1, <1>2, <1>3, <1>4, <1>5, <1>6, <1>7 DEF ValidManifest
<1> QED
  BY <1>8 DEF m

\* Lines start to start + count - 1 of what was committed, as far as there are.
LastLine(b, start, count) ==
    IF start + count < LineCount(b) THEN start + count ELSE LineCount(b)

StoredSlice(b, start, count) ==
    IF start >= LineCount(b) THEN << >>
    ELSE SubSeq(b, Offsets(b)[start + 1] + 1,
                LineEnd(Offsets(b), Len(b), LastLine(b, start, count) - 1))

\* The bytes of the lines of a range are the ones from the start of the first to
\* the end of the last.
LEMMA RangeOfLines ==
  ASSUME NEW b \in Seq(Bytes), NEW start \in Nat, NEW count \in Nat \ {0},
         start < LineCount(b), NEW i \in 1..Len(b)
  PROVE  LineOf(b, i) \in start..(start + count - 1)
           <=> /\ Offsets(b)[start + 1] < i
               /\ i <= LineEnd(Offsets(b), Len(b), LastLine(b, start, count) - 1)
<1>1. LineCount(b) \in Nat /\ LineCount(b) = StartCount(b)
  BY LineCountType
<1>2. LineOf(b, i) \in 0..(StartCount(b) - 1)
  BY LineOfRank
<1>3. LineOf(b, i) >= start <=> Offsets(b)[start + 1] < i
  <2>1. start \in 0..(StartCount(b) - 1)
    BY <1>1
  <2> QED
    BY <2>1, FromLine
<1>4. LineOf(b, i) <= LastLine(b, start, count) - 1
        <=> i <= LineEnd(Offsets(b), Len(b), LastLine(b, start, count) - 1)
  <2>1. LastLine(b, start, count) - 1 \in 0..(StartCount(b) - 1)
    BY <1>1 DEF LastLine
  <2> QED
    BY <2>1, UptoLine
<1>5. LineOf(b, i) <= LastLine(b, start, count) - 1
        <=> LineOf(b, i) <= start + count - 1
  BY <1>1, <1>2 DEF LastLine
<1> QED
  BY <1>1, <1>2, <1>3, <1>4, <1>5

\* The text at a run of places is a piece of the stream.
LEMMA TextOfRun ==
  ASSUME NEW b \in Seq(Bytes), NEW a \in Nat, NEW c \in Nat,
         a <= c, c <= Len(b), NEW P, P = (a + 1)..c
  PROVE  TextAt(b, P) = SubSeq(b, a + 1, c)
<1>1. /\ Cardinality(P) = c - a
      /\ \A k \in 1..(c - a) : Ascending(P)[k] = a + k
  BY AscendingInterval
<1>2. TextAt(b, P) = [k \in 1..(c - a) |-> b[a + k]]
  BY <1>1 DEF TextAt
<1>3. SubSeq(b, a + 1, c) = [k \in 1..(c - a) |-> b[a + k]]
  <2>1. /\ SubSeq(b, a + 1, c) \in Seq(Bytes)
        /\ Len(SubSeq(b, a + 1, c)) = c - a
        /\ \A k \in 1..(c - a) : SubSeq(b, a + 1, c)[k] = b[a + k]
    OBVIOUS
  <2>2. SubSeq(b, a + 1, c) \in [1..(c - a) -> Bytes]
    <3> DEFINE s == SubSeq(b, a + 1, c)
    <3> HIDE DEF s
    <3>1. s \in Seq(Bytes) /\ Len(s) = c - a
      BY <2>1 DEF s
    <3>2. s \in [1..Len(s) -> Bytes]
      BY <3>1, LenProperties
    <3> QED
      BY <3>1, <3>2 DEF s
  <2> QED
    BY <2>1, <2>2
<1> QED
  BY <1>2, <1>3

\* The slice between two offsets holds the lines that counting newlines finds.
LEMMA StoredSliceIsLines ==
  ASSUME NEW b \in Seq(Bytes), NEW start \in Nat, NEW count \in Nat \ {0}
  PROVE  StoredSlice(b, start, count) = LinesOf(b, start, count)
<1> DEFINE W == {i \in 1..Len(b) : LineOf(b, i) \in start..(start + count - 1)}
<1>1. LinesOf(b, start, count) = TextAt(b, W)
  BY DEF LinesOf
<1>2. CASE start >= LineCount(b)
  <2>1. ASSUME NEW i \in 1..Len(b)
        PROVE  ~(LineOf(b, i) \in start..(start + count - 1))
    <3>1. LineOf(b, i) \in 0..(StartCount(b) - 1) /\ StartCount(b) \in Nat
      BY LineOfRank, StartsFinite
    <3>2. LineCount(b) = StartCount(b)
      BY DEF LineCount
    <3> QED
      BY <1>2, <3>1, <3>2
  <2>2. W = {}
    BY <2>1
  <2>3. TextAt(b, {}) = << >>
    <3>1. Cardinality({}) = 0
      BY FS_EmptySet
    <3> QED
      BY <3>1 DEF TextAt
  <2> QED
    BY <1>1, <1>2, <2>2, <2>3 DEF StoredSlice
<1>3. CASE ~(start >= LineCount(b))
  <2> DEFINE a == Offsets(b)[start + 1]
             c == LineEnd(Offsets(b), Len(b), LastLine(b, start, count) - 1)
  <2>1. LineCount(b) \in Nat /\ LineCount(b) = StartCount(b) /\ b # << >>
    BY <1>3, LineCountType
  <2>2. a \in Nat /\ c \in Nat /\ a <= c /\ c <= Len(b)
    <3> DEFINE l == LastLine(b, start, count) - 1
    <3>1. l \in 0..(StartCount(b) - 1) /\ start \in 0..l
      BY <1>3, <2>1 DEF LastLine
    <3>2. start \in 0..(StartCount(b) - 1)
      BY <1>3, <2>1
    <3> HIDE DEF l
    <3>3. /\ LineEnd(Offsets(b), Len(b), l) \in 1..Len(b)
          /\ Offsets(b)[l + 1] \in 0..(Len(b) - 1)
          /\ Offsets(b)[l + 1] < LineEnd(Offsets(b), Len(b), l)
          /\ \A j \in 0..l : Offsets(b)[j + 1] <= Offsets(b)[l + 1]
      BY <2>1, <3>1, LineEnds
    <3>4. Offsets(b)[start + 1] <= Offsets(b)[l + 1]
      BY <3>1, <3>3
    <3>5. Offsets(b)[start + 1] \in 0..(Len(b) - 1)
      BY <2>1, <3>2, LineEnds
    <3> QED
      BY <3>3, <3>4, <3>5 DEF l
  <2>3. \A i \in 1..Len(b) :
           LineOf(b, i) \in start..(start + count - 1) <=> a < i /\ i <= c
    BY <1>3, <2>1, RangeOfLines
  <2> HIDE DEF a, c
  <2>4. W = (a + 1)..c
    <3>1. ASSUME NEW i \in (a + 1)..c
          PROVE  i \in 1..Len(b) /\ a < i /\ i <= c
      BY <2>2
    <3>2. ASSUME NEW i \in 1..Len(b), a < i, i <= c
          PROVE  i \in (a + 1)..c
      BY <2>2, <3>2
    <3>3. W = {i \in 1..Len(b) : a < i /\ i <= c}
      BY <2>3
    <3> HIDE DEF W
    <3> QED
      BY <3>1, <3>2, <3>3
  <2> HIDE DEF W
  <2>5. TextAt(b, W) = SubSeq(b, a + 1, c)
    BY <2>2, <2>4, TextOfRun
  <2>6. StoredSlice(b, start, count) = SubSeq(b, a + 1, c)
    BY <1>3 DEF StoredSlice, a, c
  <2> QED
    BY <1>1, <2>5, <2>6
<1> QED
  BY <1>2, <1>3

\* A line by itself: it begins where it starts, ends where it ends.
LEMMA StoredLine ==
  ASSUME NEW b \in Seq(Bytes), NEW k \in Nat, k < LineCount(b)
  PROVE  /\ StoredSlice(b, k, 1) = LineBytes(b, k)
         /\ LastLine(b, k, 1) = k + 1
<1>1. LineCount(b) \in Nat
  BY LineCountType
<1>2. LastLine(b, k, 1) = k + 1 /\ LastLine(b, k, 1) - 1 = k
  BY <1>1 DEF LastLine
<1> QED
  <2>1. ~(k >= LineCount(b))
    BY <1>1
  <2>2. StoredSlice(b, k, 1)
          = SubSeq(b, Offsets(b)[k + 1] + 1,
                   LineEnd(Offsets(b), Len(b), LastLine(b, k, 1) - 1))
    BY <2>1 DEF StoredSlice
  <2> QED
    BY <1>2, <2>2 DEF LineBytes

\* A byte of the stream lies behind the start of its line and not behind its end.
LEMMA ByteInLine ==
  ASSUME NEW b \in Seq(Bytes), NEW i \in 1..Len(b),
         NEW k \in 0..(LineCount(b) - 1)
  PROVE  LineOf(b, i) = k <=> /\ Offsets(b)[k + 1] < i
                              /\ i <= LineEnd(Offsets(b), Len(b), k)
<1>1. LineCount(b) \in Nat /\ LineCount(b) = StartCount(b)
  BY LineCountType
<1>2. LineOf(b, i) \in Nat
  BY LineOfRank, StartsFinite
<1>3. k \in 0..(StartCount(b) - 1)
  BY <1>1
<1>4. LineOf(b, i) >= k <=> Offsets(b)[k + 1] < i
  BY <1>3, FromLine
<1>5. LineOf(b, i) <= k <=> i <= LineEnd(Offsets(b), Len(b), k)
  BY <1>3, UptoLine
<1> QED
  BY <1>2, <1>4, <1>5

\* Where a line lies.
LEMMA LinePlace ==
  ASSUME NEW b \in Seq(Bytes), NEW k \in 0..(LineCount(b) - 1)
  PROVE  /\ Offsets(b)[k + 1] \in Nat
         /\ LineEnd(Offsets(b), Len(b), k) \in 1..Len(b)
         /\ Offsets(b)[k + 1] < LineEnd(Offsets(b), Len(b), k)
         /\ LineBytes(b, k) \in Seq(Bytes)
         /\ Len(LineBytes(b, k))
              = LineEnd(Offsets(b), Len(b), k) - Offsets(b)[k + 1]
         /\ \A j \in 1..Len(LineBytes(b, k)) :
               LineBytes(b, k)[j] = b[Offsets(b)[k + 1] + j]
<1> DEFINE a == Offsets(b)[k + 1]
           c == LineEnd(Offsets(b), Len(b), k)
<1>1. LineCount(b) \in Nat /\ LineCount(b) = StartCount(b) /\ b # << >>
  BY LineCountType
<1>2. k \in 0..(StartCount(b) - 1)
  BY <1>1
<1>3. a \in 0..(Len(b) - 1) /\ c \in 1..Len(b) /\ a < c
  BY <1>1, <1>2, LineEnds
<1> DEFINE s == LineBytes(b, k)
<1>4. s = SubSeq(b, a + 1, c)
  BY DEF LineBytes
<1> HIDE DEF a, c
<1>5. /\ SubSeq(b, a + 1, c) \in Seq(Bytes)
      /\ Len(SubSeq(b, a + 1, c)) = c - a
      /\ \A j \in 1..(c - a) : SubSeq(b, a + 1, c)[j] = b[a + j]
  BY <1>3
<1> HIDE DEF s
<1>6. s \in Seq(Bytes) /\ Len(s) = c - a /\ \A j \in 1..Len(s) : s[j] = b[a + j]
  BY <1>4, <1>5
<1> QED
  BY <1>3, <1>6 DEF a, c, s

\* What was read and verified is what was committed.
LEMMA SliceVerified ==
  ASSUME NEW b \in Seq(Bytes), NEW d \in Seq(Bytes), NEW start \in Nat,
         NEW count \in Nat \ {0},
         ReadLineSlice(d, StreamManifest(b), start, count).outcome = "lines"
  PROVE  ReadLineSlice(d, StreamManifest(b), start, count).bytes
            = StoredSlice(b, start, count)
<1> DEFINE m == StreamManifest(b)
           r == ReadLineSlice(d, m, start, count)
<1>1. /\ m.byte_len = Len(b) /\ m.line_count = LineCount(b)
      /\ m.line_offsets = Offsets(b)
      /\ \A k \in 0..(LineCount(b) - 1) : m.line_checksums[k + 1] = LineBytes(b, k)
  BY ManifestFacts
<1>2. CASE start >= LineCount(b)
  <2>1. r = Slice("lines", << >>)
    BY <1>1, <1>2 DEF ReadLineSlice
  <2> QED
    BY <1>2, <2>1 DEF StoredSlice, Slice
<1>3. CASE ~(start >= LineCount(b))
  <2> DEFINE last == LastLine(b, start, count)
             a == Offsets(b)[start + 1]
             c == LineEnd(Offsets(b), Len(b), last - 1)
  <2>1. r = IF c > Len(d) THEN Slice("io_error", << >>)
            ELSE IF ~ChecksumsHold(d, m, start, last) THEN Slice("corrupt", << >>)
            ELSE Slice("lines", SubSeq(d, a + 1, c))
    BY <1>1, <1>3 DEF ReadLineSlice, LastLine
  <2>2. ~(c > Len(d)) /\ ChecksumsHold(d, m, start, last)
        /\ r.bytes = SubSeq(d, a + 1, c)
    <3> HIDE DEF r, m, a, c, last
    <3>1. r.outcome = "lines"
      BY DEF r, m
    <3> QED
      BY <2>1, <3>1 DEF Slice
  <2>3. LineCount(b) \in Nat /\ start < LineCount(b) /\ start + 1 <= last
        /\ last <= LineCount(b) /\ last \in Nat
    BY <1>3, LineCountType DEF LastLine
  <2>4. start \in 0..(LineCount(b) - 1) /\ last - 1 \in 0..(LineCount(b) - 1)
    BY <2>3
  <2>5. a \in Nat /\ c \in 1..Len(b)
    BY <2>4, LinePlace
  <2>6. ASSUME NEW i \in (a + 1)..c
        PROVE  d[i] = b[i]
    <3> DEFINE k == LineOf(b, i)
               x == Offsets(b)[k + 1]
               y == LineEnd(Offsets(b), Len(b), k)
    <3>1. i \in 1..Len(b) /\ a < i /\ i <= c
      <4> HIDE DEF a, c
      <4> QED
        BY <2>5
    <3>2. k \in start..(start + count - 1)
      BY <2>3, <3>1, RangeOfLines
    <3>3. LineCount(b) = StartCount(b) /\ StartCount(b) \in Nat
      BY <2>3, LineCountType
    <3>4. last - 1 \in 0..(StartCount(b) - 1)
      BY <2>4, <3>3
    <3>5. k <= last - 1 /\ k \in Nat
      <4>1. k \in Nat
        BY <3>1, <3>3, LineOfRank
      <4>2. LineOf(b, i) <= last - 1
        BY <3>1, <3>4, UptoLine
      <4> QED
        BY <4>1, <4>2
    <3>6. k \in start..(last - 1) /\ k \in 0..(LineCount(b) - 1)
      <4> HIDE DEF k, last
      <4> QED
        BY <2>3, <3>2, <3>5
    <3>7. x < i /\ i <= y
      BY <3>1, <3>6, ByteInLine
    <3>8. x \in Nat /\ y \in 1..Len(b)
      BY <3>6, LinePlace
    <3>9. y <= c
      <4>1. LineOf(b, y) = k
        BY <3>6, <3>7, <3>8, ByteInLine
      <4>2. LineOf(b, y) <= last - 1
        BY <3>5, <4>1
      <4> QED
        BY <3>4, <3>8, <4>2, UptoLine
    <3>10. SubSeq(d, x + 1, y) = SubSeq(b, x + 1, y)
      <4>1. Checksum(SubSeq(d, m.line_offsets[k + 1] + 1,
                            LineEnd(m.line_offsets, m.byte_len, k)))
              = m.line_checksums[k + 1]
        <5> HIDE DEF k, last, m
        <5> QED
          BY <2>2, <3>6 DEF ChecksumsHold
      <4>2. m.line_checksums[k + 1] = LineBytes(b, k)
        BY <1>1, <3>6
      <4> QED
        BY <1>1, <4>1, <4>2 DEF Checksum, LineBytes
    <3> HIDE DEF k, x, y, a, c, last
    <3>11. y <= Len(d) /\ y <= Len(b)
      BY <2>2, <2>5, <3>8, <3>9
    <3>12. i - x \in 1..(y - x)
      BY <3>1, <3>7, <3>8
    <3>13. SubSeq(d, x + 1, y)[i - x] = d[i]
      BY <3>8, <3>11, <3>12
    <3>14. SubSeq(b, x + 1, y)[i - x] = b[i]
      BY <3>8, <3>11, <3>12
    <3> QED
      BY <3>10, <3>13, <3>14
  <2> HIDE DEF a, c
  <2>7. SubSeq(d, a + 1, c) = SubSeq(b, a + 1, c)
    <3>1. c <= Len(d) /\ c <= Len(b)
      BY <2>2, <2>5
    <3> QED
      BY <2>5, <2>6, <3>1
  <2>8. StoredSlice(b, start, count) = SubSeq(b, a + 1, c)
    BY <1>3 DEF StoredSlice, a, c
  <2> HIDE DEF last
  <2> QED
    BY <2>2, <2>7, <2>8
<1> QED
  BY <1>2, <1>3

LEMMA SliceOutcome ==
  ASSUME NEW d, NEW m, NEW start, NEW count
  PROVE  ReadLineSlice(d, m, start, count).outcome
            \in {"lines", "io_error", "corrupt"}
  BY DEF ReadLineSlice, Slice

\* One byte on, the line is the same, or the next one behind a newline.
LEMMA LineOfNext ==
  ASSUME NEW b \in Seq(Bytes), NEW i \in 1..(Len(b) - 1)
  PROVE  LineOf(b, i + 1) = IF b[i] = Newline THEN LineOf(b, i) + 1
                                              ELSE LineOf(b, i)
<1> DEFINE N == {j \in 1..(i - 1) : b[j] = Newline}
           M == {j \in 1..i : b[j] = Newline}
<1>1. Len(b) \in Nat /\ i \in Nat /\ i \in 1..Len(b)
  OBVIOUS
<1>2. (i + 1) - 1 = i
  OBVIOUS
<1>3. LineOf(b, i) = Cardinality(N) /\ LineOf(b, i + 1) = Cardinality(M)
  BY <1>2 DEF LineOf
<1>4. IsFiniteSet(N)
  <2>1. N \in SUBSET (1..(i - 1)) /\ i - 1 \in Int
    BY <1>1
  <2>2. IsFiniteSet(1..(i - 1))
    BY <2>1, FS_Interval
  <2> HIDE DEF N
  <2> QED
    BY <2>1, <2>2, FS_Subset
<1>5. CASE b[i] = Newline
  <2>1. M = N \cup {i} /\ i \notin N
    BY <1>1, <1>5
  <2> HIDE DEF N, M
  <2>2. Cardinality(N \cup {i}) = Cardinality(N) + 1
    BY <1>4, <2>1, FS_AddElement
  <2> QED
    BY <1>3, <1>5, <2>1, <2>2
<1>6. CASE b[i] # Newline
  <2>1. M = N
    BY <1>1, <1>6
  <2> QED
    BY <1>3, <1>6, <2>1
<1> QED
  BY <1>5, <1>6

\* Where a range of lines lies in the stream.
LEMMA SlicePlace ==
  ASSUME NEW b \in Seq(Bytes), NEW start \in Nat, NEW count \in Nat \ {0},
         start < LineCount(b)
  PROVE  \E a \in Nat, c \in 1..Len(b) :
            /\ a <= c
            /\ StoredSlice(b, start, count) = SubSeq(b, a + 1, c)
            /\ \A i \in 1..Len(b) :
                  LineOf(b, i) \in start..(start + count - 1)
                    <=> a < i /\ i <= c
<1> DEFINE last == LastLine(b, start, count)
           a == Offsets(b)[start + 1]
           c == LineEnd(Offsets(b), Len(b), last - 1)
<1>1. LineCount(b) \in Nat /\ LineCount(b) = StartCount(b) /\ b # << >>
  BY LineCountType
<1>2. start \in 0..(StartCount(b) - 1) /\ last - 1 \in 0..(StartCount(b) - 1)
      /\ start \in 0..(last - 1)
  BY <1>1 DEF LastLine
<1>3. a \in Nat
  BY <1>1, <1>2, LineEnds
<1>4. c \in 1..Len(b) /\ Offsets(b)[(last - 1) + 1] < c
      /\ \A j \in 0..(last - 1) : Offsets(b)[j + 1] <= Offsets(b)[(last - 1) + 1]
  <2> HIDE DEF last
  <2> QED
    BY <1>1, <1>2, LineEnds
<1>5. Offsets(b)[(last - 1) + 1] \in Nat
  <2> HIDE DEF last
  <2> QED
    BY <1>1, <1>2, LineEnds
<1>6. a <= Offsets(b)[(last - 1) + 1]
  BY <1>2, <1>4
<1>7. StoredSlice(b, start, count) = SubSeq(b, a + 1, c)
  <2>1. ~(start >= LineCount(b))
    BY <1>1
  <2> QED
    BY <2>1 DEF StoredSlice
<1>8. \A i \in 1..Len(b) :
         LineOf(b, i) \in start..(start + count - 1) <=> a < i /\ i <= c
  BY RangeOfLines
<1> HIDE DEF a, c
<1>9. a <= c
  <2> HIDE DEF last
  <2> QED
    BY <1>3, <1>4, <1>5, <1>6
<1> QED
  BY <1>3, <1>4, <1>7, <1>8, <1>9

LEMMA SliceType ==
  ASSUME NEW b \in Seq(Bytes), NEW start \in Nat, NEW count \in Nat \ {0}
  PROVE  StoredSlice(b, start, count) \in Seq(Bytes)
<1>1. CASE start >= LineCount(b)
  BY <1>1 DEF StoredSlice
<1>2. CASE ~(start >= LineCount(b))
  <2>1. start < LineCount(b)
    BY <1>2, LineCountType
  <2>2. PICK a \in Nat, c \in 1..Len(b) :
           /\ a <= c
           /\ StoredSlice(b, start, count) = SubSeq(b, a + 1, c)
           /\ \A i \in 1..Len(b) :
                 LineOf(b, i) \in start..(start + count - 1)
                   <=> a < i /\ i <= c
    BY <2>1, SlicePlace
  <2>3. SubSeq(b, a + 1, c) \in Seq(Bytes)
    <3>1. a \in Nat /\ c \in 1..Len(b)
      BY <2>2
    <3> QED
      BY <3>1
  <2> QED
    BY <2>2, <2>3
<1> QED
  BY <1>1, <1>2

\* A line without the newline at its end holds what the reference text holds:
\* a newline can only be its last byte.
LEMMA LineTextTrimmed ==
  ASSUME NEW b \in Seq(Bytes), NEW k \in 0..(LineCount(b) - 1)
  PROVE  /\ TrimNewline(LineBytes(b, k)) = LineText(b, k)
         /\ LineText(b, k) \in Seq(Bytes)
<1> DEFINE a == Offsets(b)[k + 1]
           c == LineEnd(Offsets(b), Len(b), k)
           s == LineBytes(b, k)
           e == IF b[c] = Newline THEN c - 1 ELSE c
           P == {i \in 1..Len(b) : LineOf(b, i) = k /\ b[i] # Newline}
<1>1. /\ a \in Nat /\ c \in 1..Len(b) /\ a < c
      /\ s \in Seq(Bytes) /\ Len(s) = c - a
      /\ \A j \in 1..Len(s) : s[j] = b[a + j]
  BY LinePlace
<1>2. s = SubSeq(b, a + 1, c)
  BY DEF LineBytes
<1>3. \A i \in 1..Len(b) : LineOf(b, i) = k <=> a < i /\ i <= c
  BY ByteInLine
<1>4. ASSUME NEW i \in 1..Len(b), a < i, i < c
      PROVE  b[i] # Newline
  <2>1. i \in 1..(Len(b) - 1) /\ i + 1 \in 1..Len(b) /\ a < i + 1 /\ i + 1 <= c
        /\ i <= c
    <3> HIDE DEF a, c
    <3> QED
      BY <1>1, <1>4
  <2>2. LineOf(b, i) = k /\ LineOf(b, i + 1) = k
    BY <1>3, <1>4, <2>1
  <2>3. b[i] = Newline => LineOf(b, i + 1) = LineOf(b, i) + 1
    BY <2>1, LineOfNext
  <2> QED
    BY <2>2, <2>3
<1>5. LineText(b, k) = TextAt(b, P)
  BY DEF LineText
<1> HIDE DEF a, c, s
<1>6. e \in Nat /\ a <= e /\ e <= Len(b) /\ e <= c /\ (e = c \/ e = c - 1)
  BY <1>1
<1>7. P = (a + 1)..e
  <2>1. ASSUME NEW i \in P
        PROVE  i \in (a + 1)..e
    BY <1>1, <1>3
  <2>2. ASSUME NEW i \in (a + 1)..e
        PROVE  i \in P
    <3>1. i \in 1..Len(b) /\ a < i /\ i <= c
      <4> HIDE DEF e
      <4> QED
        BY <1>1, <1>6
    <3>2. b[i] # Newline
      BY <1>1, <1>4, <3>1
    <3> QED
      BY <1>3, <3>1, <3>2
  <2> HIDE DEF P, e
  <2> QED
    BY <2>1, <2>2
<1>8. TextAt(b, P) = SubSeq(b, a + 1, e)
  <2> HIDE DEF P, e
  <2> QED
    BY <1>1, <1>6, <1>7, TextOfRun
<1>9. TrimNewline(s) = SubSeq(b, a + 1, e)
  <2>1. s # << >> /\ s[Len(s)] = b[c]
    BY <1>1
  <2>2. CASE b[c] = Newline
    <3>1. TrimNewline(s) = SubSeq(s, 1, Len(s) - 1) /\ e = c - 1
      BY <2>1, <2>2 DEF TrimNewline
    <3> DEFINE u == SubSeq(s, 1, Len(s) - 1)
               v == SubSeq(b, a + 1, c - 1)
    <3>2. u = v
      <4>1. /\ u \in Seq(Bytes) /\ Len(u) = c - a - 1
            /\ \A j \in 1..(c - a - 1) : u[j] = s[j]
        <5> DEFINE n == Len(s) - 1
        <5>1. n \in Nat /\ n = c - a - 1 /\ n <= Len(s) /\ s \in Seq(Bytes)
          BY <1>1
        <5> HIDE DEF n
        <5>2. /\ SubSeq(s, 1, n) \in Seq(Bytes) /\ Len(SubSeq(s, 1, n)) = n
              /\ \A j \in 1..n : SubSeq(s, 1, n)[j] = s[j]
          BY <5>1
        <5> QED
          BY <5>1, <5>2 DEF n
      <4>2. /\ v \in Seq(Bytes) /\ Len(v) = c - a - 1
            /\ \A j \in 1..(c - a - 1) : v[j] = b[a + j]
        BY <1>1
      <4> HIDE DEF u, v
      <4>3. \A j \in 1..Len(u) : u[j] = v[j]
        BY <1>1, <4>1, <4>2
      <4> QED
        BY <4>1, <4>2, <4>3, SeqEqual
    <3> QED
      BY <3>1, <3>2
  <2>3. CASE b[c] # Newline
    <3>1. TrimNewline(s) = s /\ e = c
      BY <2>1, <2>3 DEF TrimNewline
    <3> QED
      BY <1>2, <3>1
  <2> QED
    BY <2>2, <2>3
<1>10. SubSeq(b, a + 1, e) \in Seq(Bytes)
  <2> HIDE DEF e
  <2> QED
    BY <1>1, <1>6
<1> QED
  BY <1>5, <1>8, <1>9, <1>10 DEF s

\* A search for a byte has to report exactly the lines that hold it.
LEMMA HitsOfLine ==
  ASSUME NEW b \in Seq(Bytes), NEW k \in 0..(LineCount(b) - 1), NEW l
  PROVE  l \in BytesOf(LineBytes(b, k)) <=> k + 1 \in Hits(b, l)
<1> DEFINE a == Offsets(b)[k + 1]
           c == LineEnd(Offsets(b), Len(b), k)
           s == LineBytes(b, k)
<1>1. /\ a \in Nat /\ c \in 1..Len(b) /\ a < c
      /\ s \in Seq(Bytes) /\ Len(s) = c - a
      /\ \A j \in 1..Len(s) : s[j] = b[a + j]
  BY LinePlace
<1>2. \A i \in 1..Len(b) : LineOf(b, i) = k <=> a < i /\ i <= c
  BY ByteInLine
<1>3. \A i \in 1..Len(b) : LineOf(b, i) \in Nat
  BY LineOfRank, StartsFinite
<1> HIDE DEF a, c, s
<1>4. ASSUME l \in BytesOf(s)
      PROVE  k + 1 \in Hits(b, l)
  <2>1. PICK j \in 1..Len(s) : s[j] = l
    BY <1>4 DEF BytesOf
  <2>2. a + j \in 1..Len(b) /\ a < a + j /\ a + j <= c /\ b[a + j] = l
    BY <1>1, <2>1
  <2>3. LineOf(b, a + j) = k
    BY <1>2, <2>2
  <2>4. a + j \in {i \in 1..Len(b) : b[i] = l}
    BY <2>2
  <2> QED
    BY <2>3, <2>4 DEF Hits
<1>5. ASSUME k + 1 \in Hits(b, l)
      PROVE  l \in BytesOf(s)
  <2>1. PICK i \in 1..Len(b) : b[i] = l /\ LineOf(b, i) + 1 = k + 1
    BY <1>5 DEF Hits
  <2>2. LineOf(b, i) = k
    BY <1>3, <2>1
  <2>3. a < i /\ i <= c
    BY <1>2, <2>2
  <2>4. i - a \in 1..Len(s) /\ s[i - a] = l
    BY <1>1, <2>1, <2>3
  <2> QED
    BY <2>4 DEF BytesOf
<1> QED
  BY <1>4, <1>5 DEF s

LEMMA HitsType ==
  ASSUME NEW b \in Seq(Bytes), NEW l, NEW n \in Hits(b, l)
  PROVE  n \in 1..LineCount(b) /\ n \in 1..Len(b)
<1>1. PICK i \in 1..Len(b) : n = LineOf(b, i) + 1
  BY DEF Hits
<1>2. LineOf(b, i) \in 0..(StartCount(b) - 1) /\ b # << >>
  BY LineOfRank
<1>3. LineCount(b) = StartCount(b) /\ LineCount(b) \in 0..Len(b)
  BY <1>2, LineCountType DEF LineCount
<1> QED
  BY <1>1, <1>2, <1>3

\* A marker of one line or two of which a range has a line lies within the
\* range's overlap.
LEMMA MarkerInContext ==
  ASSUME NEW b \in Seq(Bytes), NEW start \in Nat, NEW count \in Nat \ {0},
         NEW m \in Markers, NEW i \in 0..Len(b), StandsAt(m, b, i),
         LineOf(b, i + Len(m)) <= LineOf(b, i + 1) + 1,
         \E n \in LineOf(b, i + 1)..LineOf(b, i + Len(m)) :
            n \in start..(start + count - 1)
  PROVE  HasMarker(StoredSlice(b, ContextStart(start), count + 2))
<1> DEFINE p == LineOf(b, i + 1)
           q == LineOf(b, i + Len(m))
           s == ContextStart(start)
           u == Len(m)
<1>1. u \in Nat \ {0} /\ i \in Nat /\ i + u <= Len(b) /\ Len(b) \in Nat
  <2>1. m \in Seq(Bytes) /\ m # << >>
    BY MarkersAssumption
  <2> QED
    BY <2>1 DEF StandsAt
<1>2. \A k \in 1..u : b[i + k] = m[k]
  BY DEF StandsAt
<1> HIDE DEF u
<1>3. i + 1 \in 1..Len(b) /\ i + u \in 1..Len(b)
  BY <1>1
<1>4. p \in Nat /\ q \in Nat /\ p < LineCount(b) /\ q < LineCount(b)
  <2>1. p \in 0..(StartCount(b) - 1) /\ q \in 0..(StartCount(b) - 1)
        /\ StartCount(b) \in Nat
    BY <1>3, LineOfRank, StartsFinite DEF u
  <2>2. LineCount(b) = StartCount(b)
    BY <1>3 DEF LineCount
  <2> QED
    BY <2>1, <2>2
<1>5. PICK n \in p..q : n \in start..(start + count - 1)
  BY DEF u
<1>6. q <= p + 1
  BY DEF u
<1>7. LineOf(b, i + 1) = p /\ LineOf(b, i + u) = q
  BY DEF u
<1> HIDE DEF p, q
<1>8. s \in Nat /\ s < LineCount(b)
      /\ p \in s..(s + (count + 2) - 1) /\ q \in s..(s + (count + 2) - 1)
  BY <1>4, <1>5, <1>6, LineCountType DEF ContextStart
<1> HIDE DEF s
<1>9. PICK a \in Nat, c \in 1..Len(b) :
         /\ a <= c
         /\ StoredSlice(b, s, count + 2) = SubSeq(b, a + 1, c)
         /\ \A j \in 1..Len(b) :
               LineOf(b, j) \in s..(s + (count + 2) - 1) <=> a < j /\ j <= c
  <2>1. count + 2 \in Nat \ {0}
    OBVIOUS
  <2> QED
    BY <1>8, <2>1, SlicePlace
<1>10. a < i + 1 /\ i + u <= c
  BY <1>3, <1>7, <1>8, <1>9
<1>a. a \in Nat /\ c \in 1..Len(b) /\ a <= c
  BY <1>9
<1> DEFINE t == SubSeq(b, a + 1, c)
<1>11. /\ Len(t) = c - a
       /\ \A j \in 1..(c - a) : t[j] = b[a + j]
  BY <1>a
<1> HIDE DEF t
<1>12. i - a \in 0..Len(t) /\ (i - a) + u <= Len(t)
  BY <1>1, <1>a, <1>10, <1>11
<1>13. ASSUME NEW k \in 1..u
       PROVE  t[(i - a) + k] = m[k]
  <2>1. (i - a) + k \in 1..(c - a) /\ a + ((i - a) + k) = i + k
    BY <1>1, <1>a, <1>10
  <2> QED
    BY <1>2, <1>11, <2>1
<1>14. StandsAt(m, t, i - a)
  BY <1>12, <1>13 DEF StandsAt, u
<1>15. HasMarker(t)
  BY <1>12, <1>14 DEF HasMarker
<1> QED
  BY <1>9, <1>15 DEF t, s

-------------------------------------------------------------------------------
(* The inductive invariant.                                                  *)

Committed == pc \notin {"new", "rejected"}

\* How far a page has come when it has passed n lines.
StartAt(b, n) == IF n < LineCount(b) THEN Offsets(b)[n + 1] ELSE Len(b)

\* What every part holds, and what a commit has written.
BaseInv ==
    /\ bytes \in Streams /\ data \in Seq(Bytes) /\ damage \in 0..MaxDamage
    /\ pc \in {"new", "rejected", "idle", "scan", "select", "inspect"}
    /\ status \in {"none", "quota", "active", "corrupt", "io_error",
                   "invalid_cursor", "retrieved", "blocked"}
    /\ literal \in Literals
    /\ range \in Nat \X (Nat \ {0}) /\ selected \in Seq(Bytes)
    /\ Committed => /\ manifest = StreamManifest(bytes)
                    /\ ~IndexTooLong(bytes) /\ ~(Len(bytes) > MaxStreamBytes)

\* Where a search stands: a cursor names the line the next page begins with.
PlaceInv ==
    /\ line \in 0..LineCount(bytes)
    /\ scanned \in 0..StartAt(bytes, line)
    /\ ~Committed => line = 0 /\ scanned = 0 /\ status \in {"none", "quota"}
    /\ cursor # NoCursor => pc = "idle" /\ cursor = MakeCursor(line)
    /\ pc = "idle" /\ cursor = NoCursor /\ status = "active" /\ line > 0
         => line = LineCount(bytes)

\* s lists lines ahead of line n, in order, that hold l, with their text.
Reports(b, s, l, n) ==
    /\ s \in Seq([line : 1..Len(b), content : Seq(Bytes)])
    /\ \A i \in 1..Len(s) : /\ s[i].line \in Hits(b, l) /\ s[i].line <= n
                            /\ s[i].content = LineText(b, s[i].line - 1)
    /\ \A i, j \in 1..Len(s) : i < j => s[i].line < s[j].line

\* s with line k behind it.
WithLine(b, s, k) ==
    Append(s, [line |-> k + 1, content |-> LineText(b, k)])

SoundInv ==
    /\ Reports(bytes, found, literal, line)
    /\ Reports(bytes, page, literal, line)
    /\ Len(page) <= MaxMatches
    /\ pc = "scan" =>
          /\ Len(page) < MaxMatches
          /\ \A i \in 1..Len(found), j \in 1..Len(page) :
                found[i].line < page[j].line

\* Line n is in the report s.
Tells(s, n) == \E i \in 1..Len(s) : s[i].line = n

\* Nothing that lies behind a page has been left out.
CompleteInv ==
    Len(bytes) <= MaxScanBytes =>
        \A n \in Hits(bytes, literal) : n <= line =>
            /\ pc = "scan" => Tells(found, n) \/ Tells(page, n)
            /\ pc = "idle" /\ (status = "active" \/ cursor # NoCursor)
                 => Tells(found, n)

AnswerInv ==
    /\ pc = "inspect" \/ (pc = "idle" /\ status = "retrieved")
         => selected = StoredSlice(bytes, range[1], range[2])
    /\ pc = "idle" /\ status = "retrieved"
         => ~HasMarker(StoredSlice(bytes, ContextStart(range[1]), range[2] + 2))

RInv == BaseInv /\ PlaceInv /\ SoundInv /\ CompleteInv /\ AnswerInv

\* A cursor is followed only by the search it was made for.
LEMMA FollowCases ==
  ASSUME NEW l \in Literals, Follow(l)
  PROVE  /\ pc = "idle" /\ cursor # NoCursor
         /\ UNCHANGED <<bytes, data, manifest, damage>>
         /\ \/ DropPage("corrupt") /\ UNCHANGED <<range, selected>>
            \/ /\ CursorBound(cursor, l) /\ StartPage(cursor.line)
               /\ literal' = l /\ UNCHANGED <<status, found>>
            \/ /\ status' = "invalid_cursor"
               /\ UNCHANGED <<pc, searching, range, selected>>
<1>1. PICK c \in {cursor} \cup ForeignCursors : Resume(c, l)
  BY DEF Follow
<1>2. CursorBound(c, l) => c = cursor
  BY CursorAssumption DEF CursorBound, ForeignCursors
<1>3. /\ pc = "idle" /\ cursor # NoCursor
      /\ UNCHANGED <<bytes, data, manifest, damage>>
  BY <1>1 DEF Resume, stored
<1>4. CASE ~LookupActive
  BY <1>1, <1>3, <1>4 DEF Resume, retrieving
<1>5. CASE LookupActive /\ CursorBound(c, l)
  BY <1>1, <1>2, <1>3, <1>5 DEF Resume
<1>6. CASE LookupActive /\ ~CursorBound(c, l)
  BY <1>1, <1>3, <1>6 DEF Resume, retrieving
<1> QED
  BY <1>4, <1>5, <1>6

\* How far a page has come when it has passed one line more.
LEMMA StartAtNext ==
  ASSUME NEW b \in Seq(Bytes)
  PROVE  /\ \A n \in 0..LineCount(b) : StartAt(b, n) \in 0..Len(b)
         /\ \A k \in 0..(LineCount(b) - 1) :
               StartAt(b, k + 1) = StartAt(b, k) + Len(LineBytes(b, k))
<1>1. LineCount(b) \in Nat /\ Len(b) \in Nat
  BY LineCountType
<1>2. ASSUME NEW n \in 0..LineCount(b)
      PROVE  StartAt(b, n) \in 0..Len(b)
  <2>1. CASE n < LineCount(b)
    <3>1. n \in 0..(LineCount(b) - 1)
      BY <1>1, <2>1
    <3>2. /\ Offsets(b)[n + 1] \in Nat
          /\ LineEnd(Offsets(b), Len(b), n) \in 1..Len(b)
          /\ Offsets(b)[n + 1] < LineEnd(Offsets(b), Len(b), n)
      BY <3>1, LinePlace
    <3> QED
      BY <1>1, <2>1, <3>2 DEF StartAt
  <2>2. CASE ~(n < LineCount(b))
    BY <1>1, <2>2 DEF StartAt
  <2> QED
    BY <2>1, <2>2
<1>3. ASSUME NEW k \in 0..(LineCount(b) - 1)
      PROVE  StartAt(b, k + 1) = StartAt(b, k) + Len(LineBytes(b, k))
  <2>1. /\ Offsets(b)[k + 1] \in Nat
        /\ LineEnd(Offsets(b), Len(b), k) \in Nat
        /\ Len(LineBytes(b, k))
             = LineEnd(Offsets(b), Len(b), k) - Offsets(b)[k + 1]
    BY LinePlace
  <2>2. StartAt(b, k) = Offsets(b)[k + 1]
    BY <1>1 DEF StartAt
  <2>3. LineCount(b) = StartCount(b) /\ b # << >>
    BY <1>1, LineCountType
  <2>4. k \in 0..(StartCount(b) - 1)
    BY <2>3
  <2>5. StartAt(b, k + 1) = LineEnd(Offsets(b), Len(b), k)
    <3>1. CASE k < StartCount(b) - 1
      <4>1. LineEnd(Offsets(b), Len(b), k) = Offsets(b)[k + 2]
        BY <2>3, <2>4, <3>1, LineEnds
      <4>2. k + 1 < LineCount(b) /\ (k + 1) + 1 = k + 2
        BY <1>1, <2>3, <3>1
      <4> QED
        BY <4>1, <4>2 DEF StartAt
    <3>2. CASE k = StartCount(b) - 1
      <4>1. LineEnd(Offsets(b), Len(b), k) = Len(b)
        BY <2>3, <2>4, <3>2, LineEnds
      <4>2. ~(k + 1 < LineCount(b))
        BY <1>1, <2>3, <3>2
      <4> QED
        BY <4>1, <4>2 DEF StartAt
    <3> QED
      BY <1>1, <2>3, <2>4, <3>1, <3>2
  <2> QED
    BY <2>1, <2>2, <2>5
<1> QED
  BY <1>2, <1>3

LEMMA BytesAreASeq ==
  ASSUME BaseInv
  PROVE  bytes \in Seq(Bytes)
  BY StreamsAssumption DEF BaseInv

\* A read through the index fails, or yields what was committed.
LEMMA ReadFacts ==
  ASSUME BaseInv, Committed, NEW start \in Nat, NEW count \in Nat \ {0}
  PROVE  /\ manifest.line_count = LineCount(bytes)
         /\ ReadLineSlice(data, manifest, start, count).outcome
               \in {"lines", "io_error", "corrupt"}
         /\ ReadLineSlice(data, manifest, start, count).outcome = "lines" =>
               /\ ReadLineSlice(data, manifest, start, count).bytes
                     = StoredSlice(bytes, start, count)
               /\ StoredSlice(bytes, start, count) \in Seq(Bytes)
<1>1. bytes \in Seq(Bytes) /\ data \in Seq(Bytes)
      /\ manifest = StreamManifest(bytes)
  BY BytesAreASeq DEF BaseInv
<1>2. ReadLineSlice(data, manifest, start, count).outcome
         \in {"lines", "io_error", "corrupt"}
  BY SliceOutcome
<1>3. manifest.line_count = LineCount(bytes)
  BY <1>1, ManifestFacts
<1>4. ASSUME ReadLineSlice(data, StreamManifest(bytes), start, count).outcome
                = "lines"
      PROVE  ReadLineSlice(data, StreamManifest(bytes), start, count).bytes
                = StoredSlice(bytes, start, count)
  BY <1>1, <1>4, SliceVerified
<1>5. StoredSlice(bytes, start, count) \in Seq(Bytes)
  BY <1>1, SliceType
<1> QED
  BY <1>1, <1>2, <1>3, <1>4, <1>5

\* The page with the line that is being scanned.
NextPage == WithLine(bytes, page, line)

\* One turn of the loop: the line is stepped over, ends the page, goes into it, or
\* does not hold the literal.
LEMMA ScanCases ==
  ASSUME BaseInv, PlaceInv, ScanLine
  PROVE  /\ pc = "scan" /\ Committed /\ line \in 0..(LineCount(bytes) - 1)
         /\ manifest.line_count = LineCount(bytes)
         /\ scanned' = scanned + Len(LineBytes(bytes, line))
         /\ UNCHANGED <<stored, retrieving>>
         /\ \/ scanned' > MaxScanBytes /\ EndPage(line + 1, page, TRUE)
            \/ /\ line + 1 \in Hits(bytes, literal)
               /\ Len(NextPage) >= MaxMatches
               /\ EndPage(line + 1, NextPage, line + 1 < manifest.line_count)
            \/ /\ line + 1 \in Hits(bytes, literal)
               /\ ~(Len(NextPage) >= MaxMatches)
               /\ page' = NextPage /\ line' = line + 1
               /\ UNCHANGED <<pc, literal, cursor, status, found>>
            \/ line + 1 \notin Hits(bytes, literal) /\ ScanMiss
<1>1. pc = "scan" /\ Committed /\ line < manifest.line_count
      /\ LineRead.outcome = "lines" /\ UNCHANGED <<stored, retrieving>>
  BY DEF ScanLine, Committed
<1>2. bytes \in Seq(Bytes) /\ line \in Nat /\ 1 \in Nat \ {0}
  BY BytesAreASeq, LineCountType DEF PlaceInv
<1>3. manifest.line_count = LineCount(bytes) /\ LineCount(bytes) \in Nat
  BY <1>1, <1>2, ReadFacts, LineCountType
<1>4. line \in 0..(LineCount(bytes) - 1)
  BY <1>1, <1>2, <1>3
<1>5. LineRead.bytes = LineBytes(bytes, line)
  <2>1. LineRead.bytes = StoredSlice(bytes, line, 1)
    BY <1>1, <1>2, ReadFacts DEF LineRead
  <2>2. line < LineCount(bytes)
    BY <1>1, <1>3
  <2> QED
    BY <1>2, <2>1, <2>2, StoredLine
<1>6. Match(LineBytes(bytes, line))
         = [line |-> line + 1, content |-> LineText(bytes, line)]
  BY <1>2, <1>4, LineTextTrimmed DEF Match
<1>7. literal \in BytesOf(LineBytes(bytes, line))
         <=> line + 1 \in Hits(bytes, literal)
  BY <1>2, <1>4, HitsOfLine
<1>8. scanned' = scanned + Len(LineBytes(bytes, line))
  BY <1>5 DEF ScanLine
<1>9. \/ scanned' > MaxScanBytes /\ EndPage(line + 1, page, TRUE)
      \/ /\ literal \in BytesOf(LineBytes(bytes, line))
         /\ ScanHit(LineBytes(bytes, line))
      \/ literal \notin BytesOf(LineBytes(bytes, line)) /\ ScanMiss
  BY <1>5 DEF ScanLine
<1>10. ASSUME ScanHit(LineBytes(bytes, line))
       PROVE  \/ /\ Len(NextPage) >= MaxMatches
                 /\ EndPage(line + 1, NextPage, line + 1 < manifest.line_count)
              \/ /\ ~(Len(NextPage) >= MaxMatches)
                 /\ page' = NextPage /\ line' = line + 1
                 /\ UNCHANGED <<pc, literal, cursor, status, found>>
  BY <1>6, <1>10 DEF ScanHit, NextPage, WithLine
<1> QED
  BY <1>1, <1>3, <1>4, <1>7, <1>8, <1>9, <1>10

(* BaseInv.                                                                  *)

LEMMA BaseInit ==
  ASSUME Init
  PROVE  BaseInv
  BY RetrievalLimits DEF Init, BaseInv, Committed

\* While a page is scanned only the search moves on.
LEMMA ScanKeeps ==
  ASSUME BaseInv, ScanLine \/ ScanFails \/ ScanTimeUp \/ ScanEnd
  PROVE  /\ pc = "scan" /\ pc' \in {"idle", "scan"}
         /\ status' \in {status, "active", "corrupt", "io_error"}
         /\ literal' = literal
         /\ UNCHANGED <<bytes, data, manifest, damage, range, selected>>
<1>1. CASE ScanLine
  <2>1. \A n, m, t : EndPage(n, m, t) =>
           pc' = "idle" /\ status' = "active" /\ literal' = literal
    BY DEF EndPage
  <2> QED
    BY <1>1, <2>1 DEF ScanLine, ScanHit, ScanMiss, stored, retrieving
<1>2. CASE ScanFails
  BY <1>2 DEF ScanFails, DropPage, stored, retrieving
<1>3. CASE ScanTimeUp \/ ScanEnd
  BY <1>3 DEF ScanTimeUp, ScanEnd, EndPage, stored, retrieving
<1> QED
  BY <1>1, <1>2, <1>3

LEMMA BaseNext ==
  ASSUME BaseInv, [Next]_vars
  PROVE  BaseInv'
<1> DEFINE Pcs == {"new", "rejected", "idle", "scan", "select", "inspect"}
           Statuses == {"none", "quota", "active", "corrupt", "io_error",
                        "invalid_cursor", "retrieved", "blocked"}
<1>1. CASE Commit
  <2>1. bytes \in Seq(Bytes)
    BY BytesAreASeq
  <2> QED
    BY <1>1, <2>1 DEF Commit, BaseInv, Committed, searching, retrieving
<1>2. CASE Damage
  <2>1. data' \in Seq(Bytes)
    <3>1. PICK i \in 1..Len(data) :
             \/ \E c \in Bytes : data' = [data EXCEPT ![i] = c]
             \/ data' = SubSeq(data, 1, i - 1)
      BY <1>2 DEF Damage
    <3>2. data \in Seq(Bytes) /\ i \in 1..Len(data)
      BY <3>1 DEF BaseInv
    <3>3. \A c \in Bytes : [data EXCEPT ![i] = c] \in Seq(Bytes)
      BY <3>2, ExceptSeq
    <3>4. SubSeq(data, 1, i - 1) \in Seq(Bytes)
      BY <3>2
    <3> QED
      BY <3>1, <3>3, <3>4
  <2>2. damage' \in 0..MaxDamage
    BY <1>2, RetrievalLimits DEF Damage, BaseInv
  <2> QED
    BY <1>2, <2>1, <2>2 DEF Damage, BaseInv, Committed, searching, retrieving
<1>3. CASE \E l \in Literals : Search(l) \/ Follow(l)
  <2>1. PICK l \in Literals : Search(l) \/ Follow(l)
    BY <1>3
  <2>2. <<0, 1>> \in Nat \X (Nat \ {0}) /\ << >> \in Seq(Bytes)
    OBVIOUS
  <2>3. UNCHANGED <<bytes, data, manifest, damage>>
    BY <2>1, FollowCases DEF Search, stored
  <2>4. /\ pc = "idle" /\ pc' \in {"idle", "scan"}
        /\ status' \in {status, "corrupt", "invalid_cursor"}
        /\ literal' \in Literals
    <3>1. CASE Search(l)
      BY <3>1 DEF Search, StartPage, DropPage, BaseInv
    <3>2. CASE Follow(l)
      BY <3>2, FollowCases DEF StartPage, DropPage, BaseInv, searching
    <3> QED
      BY <2>1, <3>1, <3>2
  <2>5. /\ range' \in {range, <<0, 1>>} /\ selected' \in {selected, << >>}
    <3>1. CASE Search(l)
      BY <3>1 DEF Search, StartPage, ForgetAnswer, retrieving
    <3>2. CASE Follow(l)
      BY <3>2, FollowCases DEF StartPage, ForgetAnswer
    <3> QED
      BY <2>1, <3>1, <3>2
  <2> QED
    BY <2>2, <2>3, <2>4, <2>5 DEF BaseInv, Committed
<1>4. CASE ScanLine \/ ScanFails \/ ScanTimeUp \/ ScanEnd
  BY <1>4, ScanKeeps DEF BaseInv, Committed
<1>5. CASE \E start \in 0..(Len(bytes) + 1), count \in 1..MaxLinesPerQuery :
              Retrieve(start, count)
  <2>1. PICK start \in 0..(Len(bytes) + 1), count \in 1..MaxLinesPerQuery :
           Retrieve(start, count)
    BY <1>5
  <2>2. <<start, count>> \in Nat \X (Nat \ {0})
    BY <2>1, BytesAreASeq, RetrievalLimits
  <2>3. /\ pc = "idle" /\ pc' \in {"select", "idle"} /\ range' = <<start, count>>
        /\ status' \in {status, "corrupt"} /\ selected' \in {selected, << >>}
        /\ UNCHANGED <<bytes, data, manifest, damage, literal>>
    BY <2>1 DEF Retrieve, AnswerRetrieve, stored
  <2>4. << >> \in Seq(Bytes)
    OBVIOUS
  <2> QED
    BY <2>2, <2>3, <2>4 DEF BaseInv, Committed
<1>6. CASE SelectLines
  <2> DEFINE r == ReadLineSlice(data, manifest, range[1], range[2])
  <2>1. Committed /\ range[1] \in Nat /\ range[2] \in Nat \ {0}
    BY <1>6 DEF SelectLines, Committed, BaseInv
  <2>2. /\ r.outcome \in {"lines", "io_error", "corrupt"}
        /\ r.outcome = "lines" => r.bytes \in Seq(Bytes)
    BY <2>1, ReadFacts
  <2>3. /\ pc = "select" /\ pc' \in {"inspect", "idle"}
        /\ status' \in {status, r.outcome}
        /\ selected' = << >> \/ selected' = selected
             \/ (r.outcome = "lines" /\ selected' = r.bytes)
        /\ UNCHANGED <<bytes, data, manifest, damage, literal, range>>
    BY <1>6 DEF SelectLines, AnswerRetrieve, stored, searching
  <2>4. << >> \in Seq(Bytes)
    OBVIOUS
  <2>5. status' \in Statuses
    BY <1>6, <2>2 DEF SelectLines, AnswerRetrieve, BaseInv
  <2> HIDE DEF r
  <2> QED
    BY <2>2, <2>3, <2>4, <2>5 DEF BaseInv, Committed
<1>7. CASE InspectContext
  <2> DEFINE r == ReadLineSlice(data, manifest,
                                ContextStart(range[1]), range[2] + 2)
  <2>1. r.outcome \in {"lines", "io_error", "corrupt"}
    BY SliceOutcome
  <2>2. status' \in {r.outcome, "blocked", "retrieved"} /\ status' # "lines"
    BY <1>7 DEF InspectContext, AnswerRetrieve
  <2>3. /\ pc = "inspect" /\ pc' = "idle" /\ selected' \in {selected, << >>}
        /\ UNCHANGED <<bytes, data, manifest, damage, literal, range>>
    BY <1>7 DEF InspectContext, AnswerRetrieve, stored, searching
  <2>4. << >> \in Seq(Bytes)
    OBVIOUS
  <2> HIDE DEF r
  <2>5. status' \in Statuses
    BY <2>1, <2>2
  <2> QED
    BY <2>3, <2>4, <2>5 DEF BaseInv, Committed
<1>8. CASE UNCHANGED vars
  BY <1>8 DEF vars, stored, searching, retrieving, BaseInv, Committed
<1> QED
  BY <1>1, <1>2, <1>3, <1>4, <1>5, <1>6, <1>7, <1>8 DEF Next

-------------------------------------------------------------------------------
(* PlaceInv.                                                                 *)

LEMMA PlaceInit ==
  ASSUME Init
  PROVE  PlaceInv
<1>1. bytes \in Seq(Bytes)
  BY StreamsAssumption DEF Init
<1>2. StartAt(bytes, 0) \in 0..Len(bytes) /\ LineCount(bytes) \in Nat
  BY <1>1, StartAtNext, LineCountType
<1> QED
  BY <1>1, <1>2 DEF Init, PlaceInv, Committed

\* A page that ends leaves a cursor, or is the last.
LEMMA EndPagePlace ==
  ASSUME BaseInv, PlaceInv, pc = "scan", NEW next \in 0..LineCount(bytes),
         NEW matches, NEW truncated \in BOOLEAN,
         EndPage(next, matches, truncated), bytes' = bytes,
         scanned' \in 0..StartAt(bytes, next)
  PROVE  PlaceInv'
<1>1. bytes \in Seq(Bytes) /\ Committed
  BY BytesAreASeq DEF Committed
<1>2. manifest.line_count = LineCount(bytes) /\ LineCount(bytes) \in Nat
  BY <1>1, ManifestFacts, LineCountType DEF BaseInv
<1>3. /\ pc' = "idle" /\ status' = "active" /\ line' = next /\ literal' = literal
      /\ cursor' = IF truncated \/ next < LineCount(bytes)
                   THEN MakeCursor(next) ELSE NoCursor
  BY <1>2 DEF EndPage
<1>4. MakeCursor(next) # NoCursor
  <2>1. MakeCursor(next) \in [source : {Here}, literal : Literals, line : Nat]
    BY <1>2 DEF MakeCursor, BaseInv
  <2> QED
    BY <2>1, CursorAssumption
<1>5. cursor' # NoCursor => cursor' = MakeCursor(line)'
  BY <1>3 DEF MakeCursor
<1>6. cursor' = NoCursor => next = LineCount(bytes)
  BY <1>2, <1>3, <1>4
<1> QED
  BY <1>3, <1>5, <1>6 DEF PlaceInv, Committed

LEMMA PlaceNext ==
  ASSUME BaseInv, PlaceInv, [Next]_vars
  PROVE  PlaceInv'
<1>1. /\ bytes \in Seq(Bytes) /\ LineCount(bytes) \in Nat /\ bytes' = bytes
      /\ StartAt(bytes, 0) \in 0..Len(bytes) /\ StartAt(bytes, line) \in 0..Len(bytes)
  <2>1. bytes \in Seq(Bytes)
    BY BytesAreASeq
  <2>2. LineCount(bytes) \in Nat
    BY <2>1, LineCountType
  <2>3. bytes' = bytes
    <3>1. CASE \E l \in Literals : Search(l) \/ Follow(l)
      BY <3>1, FollowCases DEF Search, stored
    <3>2. CASE \E start \in 0..(Len(bytes) + 1), count \in 1..MaxLinesPerQuery :
                 Retrieve(start, count)
      BY <3>2 DEF Retrieve, stored
    <3>3. CASE ScanLine \/ ScanFails \/ ScanTimeUp \/ ScanEnd
      BY <3>3, ScanKeeps
    <3>4. CASE Commit \/ Damage \/ SelectLines \/ InspectContext \/ UNCHANGED vars
      BY <3>4 DEF Commit, Damage, SelectLines, InspectContext, vars, stored
    <3> QED
      BY <3>1, <3>2, <3>3, <3>4 DEF Next
  <2> QED
    BY <2>1, <2>2, <2>3, StartAtNext DEF PlaceInv
<1>2. 0 \in 0..StartAt(bytes, 0) /\ \A n \in 0..LineCount(bytes) : 0 \in 0..StartAt(bytes, n)
  BY <1>1, StartAtNext
<1>3. CASE Commit
  BY <1>1, <1>3 DEF Commit, PlaceInv, Committed, searching
<1>4. CASE Damage
  BY <1>1, <1>4 DEF Damage, PlaceInv, Committed, MakeCursor, searching
<1>5. ASSUME NEW l \in Literals, Search(l)
      PROVE  PlaceInv'
  <2>1. CASE StartPage(0)
    BY <1>1, <1>2, <2>1 DEF StartPage, PlaceInv, Committed
  <2>2. CASE DropPage("corrupt")
    BY <1>1, <1>5, <2>2 DEF DropPage, Search, PlaceInv, Committed
  <2> QED
    BY <1>5, <2>1, <2>2 DEF Search
<1>6. ASSUME NEW l \in Literals, Follow(l)
      PROVE  PlaceInv'
  <2>1. pc = "idle" /\ cursor # NoCursor /\ cursor.line = line
    BY <1>6, FollowCases DEF PlaceInv, MakeCursor
  <2>2. CASE StartPage(cursor.line)
    BY <1>1, <1>2, <2>1, <2>2 DEF StartPage, PlaceInv, Committed
  <2>3. CASE DropPage("corrupt")
    BY <1>1, <2>1, <2>3 DEF DropPage, PlaceInv, Committed
  <2>4. CASE status' = "invalid_cursor" /\ UNCHANGED <<pc, searching>>
    BY <1>1, <2>1, <2>4 DEF PlaceInv, Committed, MakeCursor, searching
  <2> QED
    BY <1>6, <2>2, <2>3, <2>4, FollowCases
<1>7. CASE ScanLine
  <2>1. /\ pc = "scan" /\ Committed /\ line \in 0..(LineCount(bytes) - 1)
        /\ scanned' = scanned + Len(LineBytes(bytes, line))
    BY <1>7, ScanCases
  <2>2. line + 1 \in 0..LineCount(bytes) /\ line \in Nat
    BY <1>1, <2>1
  <2>3. scanned' \in 0..StartAt(bytes, line + 1)
    <3>1. StartAt(bytes, line + 1)
            = StartAt(bytes, line) + Len(LineBytes(bytes, line))
      BY <1>1, <2>1, StartAtNext
    <3>2. Len(LineBytes(bytes, line)) \in Nat
      BY <1>1, <2>1, LinePlace
    <3>3. scanned \in 0..StartAt(bytes, line)
      BY DEF PlaceInv
    <3> DEFINE A == StartAt(bytes, line)
               L == Len(LineBytes(bytes, line))
    <3>4. A \in Nat
      BY <1>1
    <3>5. StartAt(bytes, line + 1) = A + L /\ scanned' = scanned + L /\ L \in Nat
          /\ scanned \in 0..A
      BY <2>1, <3>1, <3>2, <3>3
    <3> HIDE DEF A, L
    <3> QED
      BY <3>4, <3>5
  <2>4. CASE EndPage(line + 1, page, TRUE)
    BY <1>1, <2>1, <2>2, <2>3, <2>4, EndPagePlace
  <2>5. CASE EndPage(line + 1, NextPage, line + 1 < manifest.line_count)
    <3>1. (line + 1 < manifest.line_count) \in BOOLEAN
      OBVIOUS
    <3> QED
      BY <1>1, <2>1, <2>2, <2>3, <2>5, <3>1, EndPagePlace
  <2>6. CASE line' = line + 1 /\ UNCHANGED <<pc, cursor>>
    BY <1>1, <2>1, <2>2, <2>3, <2>6 DEF PlaceInv, Committed
  <2> QED
    BY <1>7, <2>4, <2>5, <2>6, ScanCases DEF ScanMiss
<1>8. CASE ScanFails
  <2>1. pc = "scan" /\ pc' = "idle" /\ cursor' = NoCursor
        /\ status' \in {"corrupt", "io_error"} /\ UNCHANGED <<line, scanned>>
    BY <1>8 DEF ScanFails, DropPage
  <2> QED
    BY <1>1, <2>1 DEF PlaceInv, Committed
<1>9. CASE ScanTimeUp
  <2>1. pc = "scan" /\ EndPage(line, page, TRUE) /\ scanned' = scanned
    BY <1>9 DEF ScanTimeUp
  <2>2. line \in 0..LineCount(bytes) /\ scanned' \in 0..StartAt(bytes, line)
    BY <2>1 DEF PlaceInv
  <2> QED
    BY <1>1, <2>1, <2>2, EndPagePlace
<1>10. CASE ScanEnd
  <2>1. pc = "scan" /\ EndPage(line, page, FALSE) /\ scanned' = scanned
    BY <1>10 DEF ScanEnd
  <2>2. line \in 0..LineCount(bytes) /\ scanned' \in 0..StartAt(bytes, line)
    BY <2>1 DEF PlaceInv
  <2> QED
    BY <1>1, <2>1, <2>2, EndPagePlace
<1>11. ASSUME NEW start \in 0..(Len(bytes) + 1),
              NEW count \in 1..MaxLinesPerQuery, Retrieve(start, count)
       PROVE  PlaceInv'
  <2>1. /\ pc = "idle" /\ pc' \in {"idle", "select"}
        /\ cursor = NoCursor /\ cursor' = cursor
        /\ line' = 0 /\ scanned' = 0
    BY <1>11 DEF Retrieve, AnswerRetrieve, ForgetPages
  <2> QED
    BY <1>1, <1>2, <2>1 DEF PlaceInv, Committed
<1>12. CASE SelectLines \/ InspectContext
  <2>1. /\ pc \in {"select", "inspect"} /\ pc' \in {"inspect", "idle"}
        /\ UNCHANGED <<literal, line, scanned, cursor>>
    BY <1>12 DEF SelectLines, InspectContext, AnswerRetrieve, searching
  <2>2. pc' = "idle" => status' # "active"
    <3>1. \A start, count :
             ReadLineSlice(data, manifest, start, count).outcome
               \in {"lines", "io_error", "corrupt"}
      BY SliceOutcome
    <3>2. CASE SelectLines
      <4>1. ReadLineSlice(data, manifest, range[1], range[2]).outcome # "active"
        BY <3>1
      <4> QED
        BY <3>2, <4>1 DEF SelectLines, AnswerRetrieve
    <3>3. CASE InspectContext
      <4>1. ReadLineSlice(data, manifest, ContextStart(range[1]),
                          range[2] + 2).outcome # "active"
        BY <3>1
      <4> QED
        BY <3>3, <4>1 DEF InspectContext, AnswerRetrieve
    <3> QED
      BY <1>12, <3>2, <3>3
  <2> QED
    BY <1>1, <2>1, <2>2 DEF PlaceInv, Committed, MakeCursor
<1>13. CASE UNCHANGED vars
  BY <1>13 DEF vars, stored, searching, retrieving, PlaceInv, Committed,
               MakeCursor
<1> QED
  BY <1>3, <1>4, <1>5, <1>6, <1>7, <1>8, <1>9, <1>10, <1>11, <1>12, <1>13
     DEF Next

-------------------------------------------------------------------------------
(* SoundInv.                                                                 *)

LEMMA NothingReported ==
  ASSUME NEW b \in Seq(Bytes), NEW l, NEW n \in Nat
  PROVE  Reports(b, << >>, l, n)
  BY DEF Reports

LEMMA ReportsGrow ==
  ASSUME NEW b \in Seq(Bytes), NEW s, NEW l, NEW n \in Nat, NEW m \in Nat,
         Reports(b, s, l, n), n <= m
  PROVE  Reports(b, s, l, m)
<1>1. ASSUME NEW i \in 1..Len(s)
      PROVE  s[i].line <= m
  <2>1. s[i].line \in Hits(b, l) /\ s[i].line <= n
    BY DEF Reports
  <2>2. s[i].line \in Nat
    BY <2>1, HitsType
  <2> QED
    BY <2>1, <2>2
<1> QED
  BY <1>1 DEF Reports

\* The line behind the ones reported, when it holds the literal, joins them.
LEMMA ReportsAppend ==
  ASSUME NEW b \in Seq(Bytes), NEW s, NEW l, NEW k \in 0..(LineCount(b) - 1),
         Reports(b, s, l, k), k + 1 \in Hits(b, l)
  PROVE  /\ Reports(b, WithLine(b, s, k), l, k + 1)
         /\ Len(WithLine(b, s, k)) = Len(s) + 1
         /\ \A i \in 1..Len(s) : WithLine(b, s, k)[i] = s[i]
         /\ WithLine(b, s, k)[Len(s) + 1].line = k + 1
<1> DEFINE t == WithLine(b, s, k)
           R == [line : 1..Len(b), content : Seq(Bytes)]
           e == [line |-> k + 1, content |-> LineText(b, k)]
<1>1. k \in Nat /\ (k + 1) - 1 = k
  BY LineCountType
<1>2. e \in R
  <2>1. k + 1 \in 1..Len(b)
    BY HitsType
  <2>2. LineText(b, k) \in Seq(Bytes)
    BY LineTextTrimmed
  <2> QED
    BY <2>1, <2>2
<1>3. e.line = k + 1 /\ e.content = LineText(b, k)
  OBVIOUS
<1>4. s \in Seq(R)
  BY DEF Reports
<1>5. \A i \in 1..Len(s) : /\ s[i].line \in Hits(b, l) /\ s[i].line <= k
                           /\ s[i].content = LineText(b, s[i].line - 1)
  BY DEF Reports
<1>6. \A i, j \in 1..Len(s) : i < j => s[i].line < s[j].line
  BY DEF Reports
<1> HIDE DEF R, e
<1>7. /\ t \in Seq(R) /\ Len(t) = Len(s) + 1 /\ Len(s) \in Nat
      /\ \A i \in 1..Len(s) : t[i] = s[i]
      /\ t[Len(s) + 1] = e
  <2>1. t = Append(s, e)
    BY DEF e, WithLine
  <2> HIDE DEF t
  <2> QED
    BY <1>2, <1>4, <2>1, AppendProperties
<1> HIDE DEF t
<1>8. \A i \in 1..Len(s) : s[i].line \in Nat
  BY <1>5, HitsType
<1>9. ASSUME NEW i \in 1..Len(t)
      PROVE  /\ t[i].line \in Hits(b, l) /\ t[i].line <= k + 1
             /\ t[i].content = LineText(b, t[i].line - 1)
  <2>1. CASE i \in 1..Len(s)
    BY <1>1, <1>5, <1>7, <1>8, <2>1
  <2>2. CASE i = Len(s) + 1
    <3>1. t[i].line = k + 1 /\ t[i].content = LineText(b, k)
      BY <1>3, <1>7, <2>2
    <3>2. t[i].line - 1 = k /\ k + 1 <= k + 1
      BY <1>1, <3>1
    <3> QED
      BY <3>1, <3>2
  <2> QED
    BY <1>7, <2>1, <2>2
<1>10. ASSUME NEW i \in 1..Len(t), NEW j \in 1..Len(t), i < j
       PROVE  t[i].line < t[j].line
  <2>1. i \in 1..Len(s)
    BY <1>7, <1>10
  <2>2. CASE j \in 1..Len(s)
    BY <1>6, <1>7, <1>10, <2>1, <2>2
  <2>3. CASE j = Len(s) + 1
    <3>1. t[i].line <= k /\ t[i].line \in Nat
      BY <1>5, <1>7, <1>8, <2>1
    <3>2. t[j].line = k + 1
      BY <1>3, <1>7, <2>3
    <3> DEFINE x == t[i].line
    <3>3. x <= k /\ x \in Nat
      BY <3>1
    <3> HIDE DEF x
    <3>4. x < k + 1
      BY <1>1, <3>3
    <3> QED
      BY <3>2, <3>4 DEF x
  <2>4. j \in 1..Len(s) \/ j = Len(s) + 1
    BY <1>7
  <2> QED
    BY <2>2, <2>3, <2>4
<1>11. Reports(b, t, l, k + 1)
  BY <1>7, <1>9, <1>10 DEF Reports, R
<1> QED
  BY <1>3, <1>7, <1>11 DEF t

\* A page behind the pages before it.
LEMMA ReportsJoin ==
  ASSUME NEW b \in Seq(Bytes), NEW f, NEW p, NEW l, NEW n,
         Reports(b, f, l, n), Reports(b, p, l, n),
         \A i \in 1..Len(f), j \in 1..Len(p) : f[i].line < p[j].line,
         NEW t, t = f \o p
  PROVE  /\ Reports(b, t, l, n)
         /\ \A m : Tells(f, m) \/ Tells(p, m) => Tells(t, m)
<1> DEFINE R == [line : 1..Len(b), content : Seq(Bytes)]
<1>1. f \in Seq(R) /\ p \in Seq(R)
  BY DEF Reports
<1>2. /\ \A i \in 1..Len(f) : /\ f[i].line \in Hits(b, l) /\ f[i].line <= n
                              /\ f[i].content = LineText(b, f[i].line - 1)
      /\ \A i, j \in 1..Len(f) : i < j => f[i].line < f[j].line
  BY DEF Reports
<1>3. /\ \A i \in 1..Len(p) : /\ p[i].line \in Hits(b, l) /\ p[i].line <= n
                              /\ p[i].content = LineText(b, p[i].line - 1)
      /\ \A i, j \in 1..Len(p) : i < j => p[i].line < p[j].line
  BY DEF Reports
<1> HIDE DEF R
<1>4. /\ t \in Seq(R) /\ Len(t) = Len(f) + Len(p)
      /\ Len(f) \in Nat /\ Len(p) \in Nat
      /\ \A i \in 1..(Len(f) + Len(p)) :
            t[i] = IF i <= Len(f) THEN f[i] ELSE p[i - Len(f)]
  BY <1>1, ConcatProperties
<1>5. \A i \in 1..Len(f) : t[i] = f[i]
  BY <1>4
<1>6. \A i \in 1..Len(p) : t[Len(f) + i] = p[i]
  BY <1>4
<1>7. ASSUME NEW i \in 1..Len(t)
      PROVE  i \in 1..Len(f) \/ \E j \in 1..Len(p) : i = Len(f) + j
  <2>1. i <= Len(f) \/ i - Len(f) \in 1..Len(p)
    BY <1>4
  <2> QED
    BY <1>4, <2>1
<1>8. ASSUME NEW i \in 1..Len(t)
      PROVE  /\ t[i].line \in Hits(b, l) /\ t[i].line <= n
             /\ t[i].content = LineText(b, t[i].line - 1)
  <2>1. CASE i \in 1..Len(f)
    BY <1>2, <1>5, <2>1
  <2>2. CASE \E j \in 1..Len(p) : i = Len(f) + j
    <3>1. PICK j \in 1..Len(p) : i = Len(f) + j
      BY <2>2
    <3>2. t[i] = p[j] /\ j \in 1..Len(p)
      BY <1>6, <3>1
    <3> QED
      BY <1>3, <3>2
  <2> QED
    BY <1>7, <2>1, <2>2
<1>9. ASSUME NEW i \in 1..Len(t), NEW j \in 1..Len(t), i < j
      PROVE  t[i].line < t[j].line
  <2>1. CASE i \in 1..Len(f) /\ j \in 1..Len(f)
    BY <1>2, <1>5, <1>9, <2>1
  <2>2. CASE i \in 1..Len(f) /\ \E v \in 1..Len(p) : j = Len(f) + v
    BY <1>5, <1>6, <2>2
  <2>3. CASE (\E u \in 1..Len(p) : i = Len(f) + u)
             /\ \E v \in 1..Len(p) : j = Len(f) + v
    <3>1. PICK u \in 1..Len(p) : i = Len(f) + u
      BY <2>3
    <3>2. PICK v \in 1..Len(p) : j = Len(f) + v
      BY <2>3
    <3>3. u < v
      BY <1>4, <1>9, <3>1, <3>2
    <3> QED
      BY <1>3, <1>6, <3>1, <3>2, <3>3
  <2>4. ~((\E u \in 1..Len(p) : i = Len(f) + u) /\ j \in 1..Len(f))
    BY <1>4, <1>9
  <2> QED
    BY <1>7, <2>1, <2>2, <2>3, <2>4
<1>10. Reports(b, t, l, n)
  BY <1>4, <1>8, <1>9 DEF Reports, R
<1>11. ASSUME NEW m, Tells(f, m) \/ Tells(p, m)
       PROVE  Tells(t, m)
  <2>1. CASE Tells(f, m)
    <3>1. PICK i \in 1..Len(f) : f[i].line = m
      BY <2>1 DEF Tells
    <3>2. i \in 1..Len(t) /\ t[i].line = m
      BY <1>4, <1>5, <3>1
    <3> QED
      BY <3>2 DEF Tells
  <2>2. CASE Tells(p, m)
    <3>1. PICK i \in 1..Len(p) : p[i].line = m
      BY <2>2 DEF Tells
    <3>2. i \in 1..Len(p) /\ t[Len(f) + i] = p[i]
      BY <1>6, <3>1
    <3>3. Len(t) = Len(f) + Len(p) /\ Len(f) \in Nat /\ Len(p) \in Nat
      BY <1>4
    <3>4. Len(f) + i \in 1..Len(t)
      BY <3>2, <3>3
    <3>5. t[Len(f) + i].line = m
      BY <3>1, <3>2
    <3> QED
      BY <3>4, <3>5 DEF Tells
  <2> QED
    BY <1>11, <2>1, <2>2
<1> QED
  BY <1>10, <1>11

LEMMA SoundInit ==
  ASSUME Init
  PROVE  SoundInv
<1>1. bytes \in Seq(Bytes) /\ found = << >> /\ page = << >> /\ line = 0
      /\ pc # "scan"
  BY StreamsAssumption DEF Init
<1>2. Reports(bytes, << >>, literal, 0)
  BY <1>1, NothingReported
<1>3. Len(<< >>) <= MaxMatches
  BY RetrievalLimits
<1> QED
  BY <1>1, <1>2, <1>3 DEF SoundInv

\* The page that ends joins the ones before it.
LEMMA EndPageSound ==
  ASSUME bytes \in Seq(Bytes), SoundInv, line \in Nat, NEW next \in Nat,
         line <= next, NEW matches, NEW truncated,
         EndPage(next, matches, truncated), bytes' = bytes,
         Reports(bytes, matches, literal, next), Len(matches) <= MaxMatches,
         \A i \in 1..Len(found), j \in 1..Len(matches) :
            found[i].line < matches[j].line
  PROVE  /\ SoundInv'
         /\ \A m : Tells(found, m) \/ Tells(matches, m) => Tells(found', m)
<1>1. /\ pc' = "idle" /\ line' = next /\ page' = matches
      /\ found' = found \o matches /\ literal' = literal
  BY DEF EndPage
<1>2. Reports(bytes, found, literal, next)
  BY ReportsGrow DEF SoundInv
<1>3. /\ Reports(bytes, found', literal, next)
      /\ \A m : Tells(found, m) \/ Tells(matches, m) => Tells(found', m)
  BY <1>1, <1>2, ReportsJoin
<1> QED
  BY <1>1, <1>3 DEF SoundInv

\* What the line that is scanned makes of the page.
LEMMA NextPageFacts ==
  ASSUME BaseInv, PlaceInv, SoundInv, pc = "scan",
         line \in 0..(LineCount(bytes) - 1), line + 1 \in Hits(bytes, literal)
  PROVE  /\ Reports(bytes, NextPage, literal, line + 1)
         /\ Len(NextPage) = Len(page) + 1 /\ Len(page) \in Nat
         /\ Len(NextPage) <= MaxMatches
         /\ \A i \in 1..Len(found), j \in 1..Len(NextPage) :
               found[i].line < NextPage[j].line
         /\ \A m : Tells(page, m) \/ m = line + 1 => Tells(NextPage, m)
<1>1. bytes \in Seq(Bytes) /\ line \in Nat
  BY BytesAreASeq, LineCountType
<1>2. /\ Reports(bytes, page, literal, line) /\ Len(page) < MaxMatches
      /\ Reports(bytes, found, literal, line)
      /\ \A i \in 1..Len(found), j \in 1..Len(page) : found[i].line < page[j].line
  BY DEF SoundInv
<1>3. /\ Reports(bytes, NextPage, literal, line + 1)
      /\ Len(NextPage) = Len(page) + 1
      /\ \A i \in 1..Len(page) : NextPage[i] = page[i]
      /\ NextPage[Len(page) + 1].line = line + 1
  BY <1>1, <1>2, ReportsAppend DEF NextPage
<1>4. Len(page) \in Nat
  BY <1>2 DEF Reports
<1>5. Len(NextPage) <= MaxMatches
  BY <1>2, <1>3, <1>4, RetrievalLimits
<1>6. ASSUME NEW i \in 1..Len(found)
      PROVE  found[i].line < line + 1
  <2>1. found[i].line \in Hits(bytes, literal) /\ found[i].line <= line
    BY <1>2 DEF Reports
  <2> DEFINE x == found[i].line
  <2>2. x \in Nat /\ x <= line
    BY <1>1, <2>1, HitsType
  <2> HIDE DEF x
  <2>3. x < line + 1
    BY <1>1, <2>2
  <2> QED
    BY <2>3 DEF x
<1>7. ASSUME NEW i \in 1..Len(found), NEW j \in 1..Len(NextPage)
      PROVE  found[i].line < NextPage[j].line
  <2>1. CASE j \in 1..Len(page)
    BY <1>2, <1>3, <2>1
  <2>2. CASE j = Len(page) + 1
    BY <1>3, <1>6, <2>2
  <2> QED
    BY <1>3, <1>4, <2>1, <2>2
<1>8. ASSUME NEW m, Tells(page, m) \/ m = line + 1
      PROVE  Tells(NextPage, m)
  <2>1. CASE Tells(page, m)
    <3>1. PICK i \in 1..Len(page) : page[i].line = m
      BY <2>1 DEF Tells
    <3>2. i \in 1..Len(NextPage)
      BY <1>3, <1>4, <3>1
    <3>3. NextPage[i].line = m
      BY <1>3, <3>1
    <3> QED
      BY <3>2, <3>3 DEF Tells
  <2>2. CASE m = line + 1
    <3>1. Len(page) + 1 \in 1..Len(NextPage)
      BY <1>3, <1>4
    <3> QED
      BY <1>3, <2>2, <3>1 DEF Tells
  <2> QED
    BY <1>8, <2>1, <2>2
<1> QED
  BY <1>3, <1>4, <1>5, <1>7, <1>8

\* What the steps that read, retrieve or damage leave of a search.
LEMMA SearchRests ==
  ASSUME BaseInv, [Next]_vars,
         ~\E l \in Literals : Search(l) \/ Follow(l),
         ~(ScanLine \/ ScanFails \/ ScanTimeUp \/ ScanEnd)
  PROVE  /\ bytes' = bytes /\ literal' = literal
         /\ \/ UNCHANGED <<found, page, line>>
            \/ found' = << >> /\ page' = << >> /\ line' = 0
         /\ pc' # pc => pc # "scan" /\ pc' # "scan"
<1>1. CASE Commit \/ Damage \/ SelectLines \/ InspectContext
  BY <1>1 DEF Commit, Damage, SelectLines, InspectContext, AnswerRetrieve,
              searching, stored
<1>2. CASE \E start \in 0..(Len(bytes) + 1), count \in 1..MaxLinesPerQuery :
              Retrieve(start, count)
  BY <1>2 DEF Retrieve, AnswerRetrieve, ForgetPages, stored
<1>3. CASE UNCHANGED vars
  BY <1>3 DEF vars, stored, searching
<1> QED
  BY <1>1, <1>2, <1>3 DEF Next

LEMMA SoundNext ==
  ASSUME BaseInv, PlaceInv, SoundInv, [Next]_vars
  PROVE  SoundInv'
<1>1. bytes \in Seq(Bytes) /\ line \in 0..LineCount(bytes) /\ line \in Nat
      /\ LineCount(bytes) \in Nat
  BY BytesAreASeq, LineCountType DEF PlaceInv
<1>2. /\ Reports(bytes, found, literal, line)
      /\ Reports(bytes, page, literal, line)
      /\ Len(page) <= MaxMatches
      /\ pc = "scan" => /\ Len(page) < MaxMatches
                        /\ \A i \in 1..Len(found), j \in 1..Len(page) :
                              found[i].line < page[j].line
  BY DEF SoundInv
<1>3. /\ \A l : Reports(bytes, << >>, l, 0) /\ Reports(bytes, << >>, l, line)
      /\ Len(<< >>) < MaxMatches /\ Len(<< >>) <= MaxMatches
      /\ \A f : \A i \in 1..Len(f), j \in 1..Len(<< >>) :
            f[i].line < << >>[j].line
  BY <1>1, NothingReported, RetrievalLimits
<1>4. ASSUME NEW l \in Literals, Search(l)
      PROVE  SoundInv'
  <2>1. CASE StartPage(0) /\ found' = << >>
    BY <1>3, <1>4, <2>1 DEF Search, StartPage, SoundInv, stored
  <2>2. CASE DropPage("corrupt")
    BY <1>2, <1>3, <1>4, <2>2 DEF Search, DropPage, SoundInv, stored
  <2> QED
    BY <1>4, <2>1, <2>2 DEF Search
<1>5. ASSUME NEW l \in Literals, Follow(l)
      PROVE  SoundInv'
  <2>1. cursor.line = line /\ cursor.literal = literal
    BY <1>5, FollowCases DEF PlaceInv, MakeCursor
  <2>2. CASE CursorBound(cursor, l) /\ StartPage(cursor.line) /\ literal' = l
             /\ found' = found
    <3>1. literal' = literal /\ line' = line /\ page' = << >> /\ bytes' = bytes
      BY <1>5, <2>1, <2>2, FollowCases DEF CursorBound, StartPage
    <3>2. Reports(bytes', found', literal', line')
      BY <1>2, <2>2, <3>1
    <3>3. Reports(bytes', page', literal', line')
      BY <1>3, <3>1
    <3>4. /\ Len(page') < MaxMatches /\ Len(page') <= MaxMatches
          /\ \A i \in 1..Len(found'), j \in 1..Len(page') :
                found'[i].line < page'[j].line
      BY <1>3, <3>1
    <3> QED
      BY <3>2, <3>3, <3>4 DEF SoundInv
  <2>3. CASE DropPage("corrupt")
    BY <1>2, <1>3, <1>5, <2>3, FollowCases DEF DropPage, SoundInv
  <2>4. CASE UNCHANGED <<pc, searching>>
    BY <1>2, <1>5, <2>4, FollowCases DEF SoundInv, searching
  <2> QED
    BY <1>5, <2>2, <2>3, <2>4, FollowCases
<1>6. CASE ScanLine
  <2>1. /\ pc = "scan" /\ line \in 0..(LineCount(bytes) - 1) /\ bytes' = bytes
    BY <1>6, ScanCases DEF stored
  <2>2. line + 1 \in Nat /\ line <= line + 1
    BY <1>1
  <2>3. Reports(bytes, page, literal, line + 1)
        /\ Reports(bytes, found, literal, line + 1)
    BY <1>1, <1>2, <2>2, ReportsGrow
  <2>4. CASE EndPage(line + 1, page, TRUE)
    BY <1>1, <1>2, <2>1, <2>2, <2>3, <2>4, EndPageSound
  <2>5. CASE /\ line + 1 \in Hits(bytes, literal)
             /\ EndPage(line + 1, NextPage, line + 1 < manifest.line_count)
    <3>1. /\ Reports(bytes, NextPage, literal, line + 1)
          /\ Len(NextPage) <= MaxMatches
          /\ \A i \in 1..Len(found), j \in 1..Len(NextPage) :
                found[i].line < NextPage[j].line
      BY <2>1, <2>5, NextPageFacts
    <3> QED
      BY <1>1, <2>1, <2>2, <2>5, <3>1, EndPageSound
  <2>6. CASE /\ line + 1 \in Hits(bytes, literal)
             /\ ~(Len(NextPage) >= MaxMatches)
             /\ page' = NextPage /\ line' = line + 1
             /\ UNCHANGED <<pc, literal, found>>
    <3>1. /\ Reports(bytes, NextPage, literal, line + 1)
          /\ Len(NextPage) = Len(page) + 1 /\ Len(page) \in Nat
          /\ Len(NextPage) <= MaxMatches
          /\ \A i \in 1..Len(found), j \in 1..Len(NextPage) :
                found[i].line < NextPage[j].line
      BY <2>1, <2>6, NextPageFacts
    <3>2. Len(NextPage) < MaxMatches
      BY <2>6, <3>1, RetrievalLimits
    <3> QED
      BY <2>1, <2>3, <2>6, <3>1, <3>2 DEF SoundInv
  <2>7. CASE ScanMiss
    BY <1>2, <2>1, <2>3, <2>7 DEF ScanMiss, SoundInv
  <2> QED
    BY <1>6, <2>4, <2>5, <2>6, <2>7, ScanCases
<1>7. CASE ScanFails
  <2>1. DropPage(LineRead.outcome) /\ bytes' = bytes
    BY <1>7 DEF ScanFails, stored
  <2> QED
    BY <1>2, <1>3, <2>1 DEF DropPage, SoundInv
<1>8. CASE ScanTimeUp \/ ScanEnd
  <2>1. /\ pc = "scan" /\ bytes' = bytes
        /\ EndPage(line, page, TRUE) \/ EndPage(line, page, FALSE)
    BY <1>8 DEF ScanTimeUp, ScanEnd, stored
  <2>2. line <= line
    BY <1>1
  <2> QED
    BY <1>1, <1>2, <2>1, <2>2, EndPageSound
<1>9. CASE ~\E l \in Literals : Search(l) \/ Follow(l)
  <2>1. CASE ~(ScanLine \/ ScanFails \/ ScanTimeUp \/ ScanEnd)
    <3>1. /\ bytes' = bytes /\ literal' = literal
          /\ \/ UNCHANGED <<found, page, line>>
             \/ found' = << >> /\ page' = << >> /\ line' = 0
          /\ pc' # pc => pc # "scan" /\ pc' # "scan"
      BY <1>9, <2>1, SearchRests
    <3>2. CASE UNCHANGED <<found, page, line>>
      BY <1>2, <3>1, <3>2 DEF SoundInv
    <3>3. CASE found' = << >> /\ page' = << >> /\ line' = 0
      BY <1>3, <3>1, <3>3 DEF SoundInv
    <3> QED
      BY <3>1, <3>2, <3>3
  <2> QED
    BY <1>6, <1>7, <1>8, <2>1
<1> QED
  BY <1>4, <1>5, <1>9

-------------------------------------------------------------------------------
(* CompleteInv.                                                              *)

LEMMA CompleteInit ==
  ASSUME Init
  PROVE  CompleteInv
<1>1. bytes \in Seq(Bytes) /\ line = 0
  BY StreamsAssumption DEF Init
<1>2. \A n \in Hits(bytes, literal) : ~(n <= line)
  <2>1. \A n \in Hits(bytes, literal) : n \in 1..Len(bytes)
    BY <1>1, HitsType
  <2> QED
    BY <1>1, <2>1
<1> QED
  BY <1>2 DEF CompleteInv

LEMMA CompleteNext ==
  ASSUME BaseInv, PlaceInv, SoundInv, CompleteInv, [Next]_vars
  PROVE  CompleteInv'
<1>1. bytes \in Seq(Bytes) /\ line \in 0..LineCount(bytes) /\ line \in Nat
      /\ LineCount(bytes) \in Nat
  BY BytesAreASeq, LineCountType DEF PlaceInv
<1>2. \A l : \A n \in Hits(bytes, l) : n \in Nat /\ ~(n <= 0)
  BY <1>1, HitsType
<1>3. ASSUME NEW l \in Literals, Search(l)
      PROVE  CompleteInv'
  <2>1. CASE StartPage(0)
    BY <1>2, <1>3, <2>1 DEF Search, StartPage, CompleteInv, stored
  <2>2. CASE DropPage("corrupt")
    BY <2>2 DEF DropPage, CompleteInv
  <2> QED
    BY <1>3, <2>1, <2>2 DEF Search
<1>4. ASSUME NEW l \in Literals, Follow(l)
      PROVE  CompleteInv'
  <2>1. cursor.line = line /\ cursor.literal = literal /\ cursor # NoCursor
        /\ pc = "idle" /\ bytes' = bytes
    BY <1>4, FollowCases DEF PlaceInv, MakeCursor
  <2>2. CASE CursorBound(cursor, l) /\ StartPage(cursor.line) /\ literal' = l
             /\ found' = found
    <3>1. literal' = literal /\ line' = line /\ pc' = "scan"
      BY <2>1, <2>2 DEF CursorBound, StartPage
    <3> QED
      BY <2>1, <2>2, <3>1 DEF CompleteInv, Tells
  <2>3. CASE DropPage("corrupt")
    BY <2>3 DEF DropPage, CompleteInv
  <2>4. CASE UNCHANGED <<pc, searching>>
    BY <2>1, <2>4 DEF CompleteInv, Tells, searching
  <2> QED
    BY <1>4, <2>2, <2>3, <2>4, FollowCases
<1>5. ASSUME pc = "scan", Len(bytes) <= MaxScanBytes
      PROVE  \A n \in Hits(bytes, literal) :
                n <= line => Tells(found, n) \/ Tells(page, n)
  BY <1>5 DEF CompleteInv
<1>6. ASSUME NEW next \in Nat, NEW matches, NEW truncated,
             EndPage(next, matches, truncated), bytes' = bytes, line <= next,
             Reports(bytes, matches, literal, next), Len(matches) <= MaxMatches,
             \A i \in 1..Len(found), j \in 1..Len(matches) :
                found[i].line < matches[j].line,
             Len(bytes) <= MaxScanBytes =>
                \A n \in Hits(bytes, literal) :
                   n <= next => Tells(found, n) \/ Tells(matches, n)
      PROVE  CompleteInv'
  <2>1. \A m : Tells(found, m) \/ Tells(matches, m) => Tells(found', m)
    BY <1>1, <1>6, EndPageSound
  <2>2. pc' = "idle" /\ line' = next /\ literal' = literal
    BY <1>6 DEF EndPage
  <2> QED
    BY <1>6, <2>1, <2>2 DEF CompleteInv, Tells
<1>7. /\ Reports(bytes, page, literal, line)
      /\ Len(page) <= MaxMatches
      /\ pc = "scan" => \A i \in 1..Len(found), j \in 1..Len(page) :
                           found[i].line < page[j].line
  BY DEF SoundInv
<1>8. CASE ScanLine
  <2>1. /\ pc = "scan" /\ line \in 0..(LineCount(bytes) - 1) /\ bytes' = bytes
        /\ scanned' = scanned + Len(LineBytes(bytes, line))
    BY <1>8, ScanCases DEF stored
  <2>2. line + 1 \in Nat /\ line <= line + 1
    BY <1>1
  <2>3. Reports(bytes, page, literal, line + 1)
    BY <1>1, <1>7, <2>2, ReportsGrow
  <2>4. ASSUME NEW n \in Hits(bytes, literal), n <= line + 1
        PROVE  n <= line \/ n = line + 1
    BY <1>1, <1>2, <2>4
  <2>5. CASE scanned' > MaxScanBytes /\ EndPage(line + 1, page, TRUE)
    <3>1. PlaceInv'
      BY PlaceNext
    <3>2. scanned' <= Len(bytes)
      <4>1. line' = line + 1 /\ scanned' \in 0..StartAt(bytes, line')
        BY <2>1, <2>5, <3>1 DEF EndPage, PlaceInv
      <4>2. line + 1 \in 0..LineCount(bytes)
        BY <1>1, <2>1
      <4>3. StartAt(bytes, line + 1) \in 0..Len(bytes)
        BY <1>1, <4>2, StartAtNext
      <4> QED
        BY <1>1, <4>1, <4>3
    <3>3. scanned' \in Nat /\ Len(bytes) \in Nat /\ MaxScanBytes \in Nat
      <4>1. scanned \in Nat /\ Len(LineBytes(bytes, line)) \in Nat
        BY <1>1, <2>1, StartAtNext, LinePlace DEF PlaceInv
      <4> QED
        BY <1>1, <2>1, <4>1, RetrievalLimits
    <3>4. ~(Len(bytes) <= MaxScanBytes)
      BY <2>5, <3>2, <3>3
    <3> QED
      BY <2>1, <3>4 DEF CompleteInv
  <2>6. CASE /\ line + 1 \in Hits(bytes, literal)
             /\ EndPage(line + 1, NextPage, line + 1 < manifest.line_count)
    <3>1. /\ Reports(bytes, NextPage, literal, line + 1)
          /\ Len(NextPage) <= MaxMatches
          /\ \A i \in 1..Len(found), j \in 1..Len(NextPage) :
                found[i].line < NextPage[j].line
          /\ \A m : Tells(page, m) \/ m = line + 1 => Tells(NextPage, m)
      BY <2>1, <2>6, NextPageFacts
    <3>2. ASSUME Len(bytes) <= MaxScanBytes,
                 NEW n \in Hits(bytes, literal), n <= line + 1
          PROVE  Tells(found, n) \/ Tells(NextPage, n)
      BY <1>5, <2>1, <2>4, <3>1, <3>2
    <3> QED
      BY <1>6, <2>1, <2>2, <2>6, <3>1, <3>2
  <2>7. CASE /\ line + 1 \in Hits(bytes, literal)
             /\ page' = NextPage /\ line' = line + 1
             /\ UNCHANGED <<pc, literal, found>>
    <3>1. \A m : Tells(page, m) \/ m = line + 1 => Tells(NextPage, m)
      BY <2>1, <2>7, NextPageFacts
    <3>2. ASSUME Len(bytes) <= MaxScanBytes,
                 NEW n \in Hits(bytes, literal), n <= line + 1
          PROVE  Tells(found, n) \/ Tells(NextPage, n)
      BY <1>5, <2>1, <2>4, <3>1, <3>2
    <3> QED
      BY <2>1, <2>7, <3>2 DEF CompleteInv, Tells
  <2>8. CASE line + 1 \notin Hits(bytes, literal) /\ ScanMiss
    <3>1. ASSUME Len(bytes) <= MaxScanBytes,
                 NEW n \in Hits(bytes, literal), n <= line + 1
          PROVE  Tells(found, n) \/ Tells(page, n)
      BY <1>5, <2>1, <2>4, <2>8, <3>1
    <3>2. line' = line + 1 /\ UNCHANGED <<pc, literal, page, found>>
      BY <2>8 DEF ScanMiss
    <3> QED
      BY <2>1, <3>1, <3>2 DEF CompleteInv, Tells
  <2> QED
    BY <1>8, <2>5, <2>6, <2>7, <2>8, ScanCases
<1>9. CASE ScanFails
  <2>1. pc' = "idle" /\ cursor' = NoCursor /\ status' \in {"corrupt", "io_error"}
    BY <1>9 DEF ScanFails, DropPage
  <2> QED
    BY <2>1 DEF CompleteInv
<1>10. CASE ScanTimeUp \/ ScanEnd
  <2>1. /\ pc = "scan" /\ bytes' = bytes
        /\ EndPage(line, page, TRUE) \/ EndPage(line, page, FALSE)
    BY <1>10 DEF ScanTimeUp, ScanEnd, stored
  <2>2. line <= line
    BY <1>1
  <2> QED
    BY <1>1, <1>5, <1>6, <1>7, <2>1, <2>2
<1>11. CASE UNCHANGED <<bytes, literal, found, page, line, pc, cursor>>
            /\ (status' = status)
  BY <1>11 DEF CompleteInv, Tells
<1>12. CASE Damage \/ UNCHANGED vars
  BY <1>11, <1>12 DEF Damage, vars, stored, searching
<1>13. CASE Commit
  <2>1. line' = 0 /\ bytes' = bytes
    BY <1>13 DEF Commit, PlaceInv, Committed, searching
  <2> QED
    BY <1>2, <2>1 DEF CompleteInv
<1>14. ASSUME NEW start \in 0..(Len(bytes) + 1),
              NEW count \in 1..MaxLinesPerQuery, Retrieve(start, count)
       PROVE  CompleteInv'
  <2>1. line' = 0 /\ bytes' = bytes
    BY <1>14 DEF Retrieve, ForgetPages, stored
  <2> QED
    BY <1>2, <2>1 DEF CompleteInv
<1>15. CASE SelectLines \/ InspectContext
  <2>1. pc' \in {"inspect", "idle"} /\ pc \in {"select", "inspect"}
        /\ UNCHANGED <<bytes, literal, line, found, page, cursor>>
    BY <1>15 DEF SelectLines, InspectContext, AnswerRetrieve, searching, stored
  <2>2. cursor' = NoCursor
    BY <2>1 DEF PlaceInv
  <2>3. pc' = "idle" => status' # "active"
    <3>1. \A start, count :
             ReadLineSlice(data, manifest, start, count).outcome # "active"
      <4>1. \A start, count :
               ReadLineSlice(data, manifest, start, count).outcome
                 \in {"lines", "io_error", "corrupt"}
        BY SliceOutcome
      <4> QED
        BY <4>1
    <3>2. CASE SelectLines
      BY <3>1, <3>2 DEF SelectLines, AnswerRetrieve
    <3>3. CASE InspectContext
      BY <3>1, <3>3 DEF InspectContext, AnswerRetrieve
    <3> QED
      BY <1>15, <3>2, <3>3
  <2> QED
    BY <2>1, <2>2, <2>3 DEF CompleteInv
<1> QED
  BY <1>3, <1>4, <1>8, <1>9, <1>10, <1>12, <1>13, <1>14, <1>15 DEF Next

-------------------------------------------------------------------------------
(* AnswerInv.                                                                *)

LEMMA AnswerInit ==
  ASSUME Init
  PROVE  AnswerInv
  BY DEF Init, AnswerInv

LEMMA AnswerNext ==
  ASSUME BaseInv, AnswerInv, [Next]_vars
  PROVE  AnswerInv'
<1>1. ASSUME pc' # "inspect", pc' = "idle" => status' # "retrieved"
      PROVE  AnswerInv'
  BY <1>1 DEF AnswerInv
<1>2. ASSUME UNCHANGED <<bytes, pc, status, range, selected>>
      PROVE  AnswerInv'
  BY <1>2 DEF AnswerInv
<1>3. CASE Commit
  BY <1>1, <1>3 DEF Commit
<1>4. CASE Damage \/ UNCHANGED vars
  BY <1>2, <1>4 DEF Damage, vars, stored, retrieving
<1>5. CASE \E l \in Literals : Search(l) \/ Follow(l)
  BY <1>1, <1>5, FollowCases DEF Search, StartPage, DropPage
<1>6. CASE ScanLine
  <2>1. \A n, m, t : EndPage(n, m, t) => pc' = "idle" /\ status' = "active"
    BY DEF EndPage
  <2> QED
    BY <1>1, <1>6, <2>1 DEF ScanLine, ScanHit, ScanMiss
<1>7. CASE ScanFails \/ ScanTimeUp \/ ScanEnd
  BY <1>1, <1>7 DEF ScanFails, DropPage, ScanTimeUp, ScanEnd, EndPage
<1>8. CASE \E start \in 0..(Len(bytes) + 1), count \in 1..MaxLinesPerQuery :
              Retrieve(start, count)
  BY <1>1, <1>8 DEF Retrieve, AnswerRetrieve
<1>9. CASE SelectLines
  <2> DEFINE r == ReadLineSlice(data, manifest, range[1], range[2])
  <2>1. /\ Committed /\ range[1] \in Nat /\ range[2] \in Nat \ {0}
        /\ bytes' = bytes /\ range' = range
    BY <1>9 DEF SelectLines, Committed, BaseInv, stored
  <2>2. /\ r.outcome \in {"lines", "io_error", "corrupt"}
        /\ r.outcome = "lines"
             => r.bytes = StoredSlice(bytes, range[1], range[2])
    BY <2>1, ReadFacts
  <2>3. IF r.outcome = "lines" THEN pc' = "inspect" /\ selected' = r.bytes
        ELSE pc' = "idle" /\ status' = r.outcome
    BY <1>9 DEF SelectLines, AnswerRetrieve
  <2> HIDE DEF r
  <2>4. CASE r.outcome = "lines"
    BY <2>1, <2>2, <2>3, <2>4 DEF AnswerInv
  <2>5. CASE r.outcome # "lines"
    BY <1>1, <2>2, <2>3, <2>5
  <2> QED
    BY <2>4, <2>5
<1>10. CASE InspectContext
  <2> DEFINE c == ContextStart(range[1])
             r == ReadLineSlice(data, manifest, c, range[2] + 2)
  <2>1. /\ Committed /\ range[1] \in Nat /\ range[2] \in Nat \ {0}
        /\ pc = "inspect" /\ bytes' = bytes /\ range' = range
    BY <1>10 DEF InspectContext, Committed, BaseInv, stored
  <2>2. c \in Nat /\ range[2] + 2 \in Nat \ {0}
    BY <2>1 DEF ContextStart
  <2>3. /\ r.outcome \in {"lines", "io_error", "corrupt"}
        /\ r.outcome = "lines" => r.bytes = StoredSlice(bytes, c, range[2] + 2)
    BY <2>1, <2>2, ReadFacts
  <2>4. /\ pc' = "idle"
        /\ status' = "retrieved" => selected' = selected
        /\ status' = IF r.outcome # "lines" THEN r.outcome
                     ELSE IF HasMarker(r.bytes) \/ HasMarker(selected)
                     THEN "blocked" ELSE "retrieved"
    BY <1>10 DEF InspectContext, AnswerRetrieve
  <2>5. selected = StoredSlice(bytes, range[1], range[2])
    BY <2>1 DEF AnswerInv
  <2>6. ASSUME status' = "retrieved"
        PROVE  ~HasMarker(StoredSlice(bytes, c, range[2] + 2))
               /\ selected' = selected
    <3> HIDE DEF r
    <3>1. r.outcome = "lines" /\ ~HasMarker(r.bytes)
      BY <2>3, <2>4, <2>6
    <3> QED
      BY <2>3, <2>4, <2>6, <3>1
  <2> QED
    BY <2>1, <2>4, <2>5, <2>6 DEF AnswerInv
<1> QED
  BY <1>3, <1>4, <1>5, <1>6, <1>7, <1>8, <1>9, <1>10 DEF Next

-------------------------------------------------------------------------------
(* The theorems.                                                             *)

\* However a client searches, follows and retrieves, and whatever happens to the
\* data file, the five parts of the invariant hold together (commit, search_at and
\* retrieve_lines_at of storage.rs).
THEOREM RetrievalInvariant == Spec => []RInv
<1>1. Init => RInv
  BY BaseInit, PlaceInit, SoundInit, CompleteInit, AnswerInit DEF RInv
<1>2. RInv /\ [Next]_vars => RInv'
  <2> SUFFICES ASSUME RInv, [Next]_vars
               PROVE  RInv'
    OBVIOUS
  <2>1. BaseInv /\ PlaceInv /\ SoundInv /\ CompleteInv /\ AnswerInv
    BY DEF RInv
  <2>2. BaseInv'
    BY <2>1, BaseNext
  <2>3. PlaceInv'
    BY <2>1, PlaceNext
  <2>4. SoundInv'
    BY <2>1, SoundNext
  <2>5. CompleteInv'
    BY <2>1, CompleteNext
  <2>6. AnswerInv'
    BY <2>1, AnswerNext
  <2> QED
    BY <2>2, <2>3, <2>4, <2>5, <2>6 DEF RInv
<1> QED
  BY <1>1, <1>2, PTL DEF Spec

\* Everything keeps its type, and no page holds more than MAX_MATCHES matches
\* (search_at).
THEOREM RetrievalTypes == Spec => []TypeOK
<1>1. RInv => TypeOK
  <2> SUFFICES ASSUME BaseInv, PlaceInv, SoundInv
               PROVE  TypeOK
    BY DEF RInv
  <2>1. bytes \in Seq(Bytes) /\ Len(bytes) \in Nat
    BY BytesAreASeq
  <2>2. LineCount(bytes) \in 0..Len(bytes) /\ line \in 0..LineCount(bytes)
    BY <2>1, LineCountType DEF PlaceInv
  <2>3. line \in 0..Len(bytes) /\ line \in 0..(Len(bytes) + 1)
    BY <2>1, <2>2
  <2>4. scanned \in 0..Len(bytes)
    <3>1. StartAt(bytes, line) \in 0..Len(bytes)
      BY <2>1, <2>2, StartAtNext
    <3>2. scanned \in 0..StartAt(bytes, line)
      BY DEF PlaceInv
    <3> QED
      BY <2>1, <3>1, <3>2
  <2>5. cursor # NoCursor => cursor.line \in 0..Len(bytes)
    BY <2>3 DEF PlaceInv, MakeCursor
  <2>6. /\ page \in Seq([line : 1..Len(bytes), content : Seq(Bytes)])
        /\ Len(page) <= MaxMatches
    BY DEF SoundInv, Reports
  <2> QED
    BY <2>3, <2>4, <2>5, <2>6 DEF TypeOK, BaseInv
<1> QED
  BY <1>1, RetrievalInvariant, PTL

\* The index of every stream that commit does not refuse passes the validation
\* of every later lookup (stream_manifest, validate_stream_manifest).
THEOREM CommittedIndexIsAccepted == Spec => []WrittenIsAccepted
<1>1. RInv => WrittenIsAccepted
  BY BytesAreASeq, ManifestAccepted DEF RInv, BaseInv, WrittenIsAccepted, Committed
<1> QED
  BY <1>1, RetrievalInvariant, PTL

\* A search reports, each once and in order, lines of the command's output that
\* hold the literal, with their text, however the pages are cut and the file is
\* damaged (search_at, parse_cursor and the line checksums).
THEOREM SearchesAreSound == Spec => []SearchSound
<1>1. RInv => SearchSound
  <2> SUFFICES ASSUME BaseInv, SoundInv
               PROVE  SearchSound
    BY DEF RInv
  <2>1. Reports(bytes, found, literal, line)
    BY DEF SoundInv
  <2>2. \A i \in 1..Len(found) :
           /\ found[i].line \in Hits(bytes, literal)
           /\ found[i].content = LineText(bytes, found[i].line - 1)
    BY <2>1 DEF Reports
  <2>3. ASSUME NEW i \in 2..Len(found)
        PROVE  found[i - 1].line < found[i].line
    <3>1. Len(found) \in Nat
      BY <2>1 DEF Reports
    <3>2. i - 1 \in 1..Len(found) /\ i \in 1..Len(found) /\ i - 1 < i
      BY <3>1
    <3> QED
      BY <2>1, <3>2 DEF Reports
  <2> QED
    BY <2>2, <2>3 DEF SearchSound
<1> QED
  BY <1>1, RetrievalInvariant, PTL

\* A search whose pages were followed to the last has reported every line that
\* holds the literal, wherever time or MAX_MATCHES cut a page (search_at).
THEOREM SearchesAreComplete == Spec => []SearchComplete
<1>1. RInv => SearchComplete
  <2> SUFFICES ASSUME BaseInv, PlaceInv, SoundInv, CompleteInv, pc = "idle",
                      cursor = NoCursor, status = "active", line > 0,
                      Len(bytes) <= MaxScanBytes
               PROVE  {found[i].line : i \in 1..Len(found)}
                         = Hits(bytes, literal)
    BY DEF RInv, SearchComplete
  <2>1. line = LineCount(bytes)
    BY DEF PlaceInv
  <2>2. Reports(bytes, found, literal, line)
    BY DEF SoundInv
  <2>3. \A i \in 1..Len(found) : found[i].line \in Hits(bytes, literal)
    BY <2>2 DEF Reports
  <2>4. ASSUME NEW n \in Hits(bytes, literal)
        PROVE  \E i \in 1..Len(found) : found[i].line = n
    <3>1. bytes \in Seq(Bytes)
      BY BytesAreASeq
    <3>2. n <= line
      BY <2>1, <3>1, HitsType, LineCountType
    <3> QED
      BY <3>2 DEF CompleteInv, Tells
  <2> QED
    BY <2>3, <2>4
<1> QED
  BY <1>1, RetrievalInvariant, PTL

\* What retrieve_lines_at hands out is the lines of the command's output that were
\* asked for, whatever befell the file before, between and after its two reads.
THEOREM RetrievesAreFaithful == Spec => []RetrieveFaithful
<1>1. RInv => RetrieveFaithful
  <2> SUFFICES ASSUME BaseInv, AnswerInv, pc = "idle", status = "retrieved"
               PROVE  selected = LinesOf(bytes, range[1], range[2])
    BY DEF RInv, RetrieveFaithful
  <2>1. selected = StoredSlice(bytes, range[1], range[2])
    BY DEF AnswerInv
  <2>2. range[1] \in Nat /\ range[2] \in Nat \ {0}
    BY DEF BaseInv
  <2> QED
    BY <2>1, <2>2, BytesAreASeq, StoredSliceIsLines
<1> QED
  BY <1>1, RetrievalInvariant, PTL

\* A range of which an answer gives a part away has no marker that lies in one
\* line or is split between two (the overlap retrieve_lines_at inspects).
THEOREM SplitMarkersAreBlocked == Spec => []MarkerBlocked
<1>1. RInv => MarkerBlocked
  <2> SUFFICES ASSUME BaseInv, AnswerInv, pc = "idle", status = "retrieved",
                      NEW m \in Markers, NEW i \in 0..Len(bytes),
                      GivesAway(m, i)
               PROVE  LineOf(bytes, i + Len(m)) > LineOf(bytes, i + 1) + 1
    BY DEF RInv, MarkerBlocked
  <2>1. ~HasMarker(StoredSlice(bytes, ContextStart(range[1]), range[2] + 2))
    BY DEF AnswerInv
  <2>2. range[1] \in Nat /\ range[2] \in Nat \ {0}
    BY DEF BaseInv
  <2>3. ~(LineOf(bytes, i + Len(m)) <= LineOf(bytes, i + 1) + 1)
    BY <2>1, <2>2, BytesAreASeq, MarkerInContext DEF GivesAway
  <2>4. LineOf(bytes, i + 1) \in Nat /\ LineOf(bytes, i + Len(m)) \in Nat
    <3>1. m \in Seq(Bytes) /\ m # << >> /\ bytes \in Seq(Bytes)
      BY MarkersAssumption, BytesAreASeq
    <3>2. i + 1 \in 1..Len(bytes) /\ i + Len(m) \in 1..Len(bytes)
      BY <3>1 DEF GivesAway, StandsAt
    <3> QED
      BY <3>1, <3>2, LineOfRank, StartsFinite
  <2> QED
    BY <2>3, <2>4
<1> QED
  BY <1>1, RetrievalInvariant, PTL

===============================================================================
