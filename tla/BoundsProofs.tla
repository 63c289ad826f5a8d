----------------------------- MODULE BoundsProofs -----------------------------
(***************************************************************************)
(* Proofs about Bounds for every text, every budget and every length of    *)
(* the envelope and the marker: no answer is longer than its budget.       *)
(***************************************************************************)
EXTENDS Bounds, SequenceTheorems, WellFoundedInduction, TLAPS

\* The two ends of a text, and how long they are.
LEMMA Ends ==
  ASSUME NEW S, NEW t \in Seq(S), NEW n \in 0..Len(t)
  PROVE  /\ Opening(t, n) \in Seq(S) /\ Len(Opening(t, n)) = n
         /\ Closing(t, n) \in Seq(S) /\ Len(Closing(t, n)) = n
<1>1. Len(t) \in Nat
  BY LenProperties
<1>2. Opening(t, n) \in Seq(S) /\ Len(Opening(t, n)) = n
  BY <1>1, SubSeqProperties DEF Opening
<1>3. Closing(t, n) \in Seq(S) /\ Len(Closing(t, n)) = n
  <2>1. Len(t) - n + 1 \in 1..(Len(t) + 1)
    BY <1>1
  <2>2. SubSeq(t, Len(t) - n + 1, Len(t)) \in Seq(S)
    BY <1>1, <2>1, SubSeqProperties
  <2>3. Len(SubSeq(t, Len(t) - n + 1, Len(t))) = n
    BY <1>1, <2>1, SubSeqProperties
  <2> QED
    BY <2>2, <2>3 DEF Closing
<1> QED
  BY <1>2, <1>3

\* fit_to_char_budget leaves what fits alone, and cuts the rest to the budget
\* exactly, the marker included.
THEOREM FitsBudget ==
  ASSUME NEW S, NEW t \in Seq(S), NEW max \in Nat, Marker \in Seq(S)
  PROVE  /\ FitToBudget(t, max) \in Seq(S)
         /\ Len(FitToBudget(t, max)) \in 0..max
         /\ Len(t) <= max => FitToBudget(t, max) = t
         /\ Len(t) > max => Len(FitToBudget(t, max)) = max
<1>1. Len(t) \in Nat /\ Len(Marker) \in Nat
  BY LenProperties
<1>2. CASE Len(t) <= max
  BY <1>1, <1>2 DEF FitToBudget
<1>3. CASE Len(t) > max /\ max <= Len(Marker)
  <2>1. FitToBudget(t, max) = Opening(Marker, max)
    BY <1>1, <1>3 DEF FitToBudget
  <2> QED
    BY <1>1, <1>3, <2>1, Ends
<1>4. CASE Len(t) > max /\ max > Len(Marker)
  <2> DEFINE room  == max - Len(Marker)
             left  == Opening(t, room \div 2)
             right == Closing(t, room - room \div 2)
  <2>1. FitToBudget(t, max) = left \o Marker \o right
    BY <1>1, <1>4 DEF FitToBudget
  <2>2. /\ room \in Nat /\ room <= Len(t)
        /\ room \div 2 \in 0..Len(t)
        /\ room - room \div 2 \in 0..Len(t)
    BY <1>1, <1>4
  <2> HIDE DEF room
  <2>3. left \in Seq(S) /\ Len(left) = room \div 2
    BY <2>2, Ends
  <2>8. right \in Seq(S) /\ Len(right) = room - room \div 2
    BY <2>2, Ends
  <2> HIDE DEF left, right
  <2> DEFINE front == left \o Marker
  <2>4. front \in Seq(S) /\ Len(front) = Len(left) + Len(Marker)
    BY <2>3, ConcatProperties
  <2>9. left \o Marker \o right = front \o right
    OBVIOUS
  <2> HIDE DEF front
  <2>10. /\ front \o right \in Seq(S)
         /\ Len(front \o right) = Len(front) + Len(right)
    BY <2>4, <2>8, ConcatProperties
  <2>5. FitToBudget(t, max) = front \o right
    BY <2>1, <2>9
  <2>6. Len(left) + Len(Marker) + Len(right) = room + Len(Marker)
    BY <1>1, <2>2, <2>3, <2>8
  <2>7. room + Len(Marker) = max
    BY <1>1 DEF room
  <2> QED
    BY <1>1, <1>4, <2>4, <2>5, <2>6, <2>7, <2>10
<1> QED
  BY <1>1, <1>2, <1>3, <1>4

\* wrap_untrusted_bounded never exceeds the budget, though the envelope alone
\* may be longer than it.
THEOREM EnvelopeFits ==
  ASSUME NEW S, NEW t \in Seq(S), NEW max \in Nat,
         Marker \in Seq(S), Header \in Seq(S), Footer \in Seq(S)
  PROVE  Len(WrapBounded(t, max)) <= max
<1>1. /\ Len(Header) \in Nat /\ Len(Footer) \in Nat
      /\ Overhead = Len(Header) + Len(Footer) /\ Overhead \in Nat
  BY LenProperties DEF Overhead
<1>2. CASE max <= Overhead
  <2>1. Header \o Footer \in Seq(S)
    BY ConcatProperties
  <2>2. Len(FitToBudget(Header \o Footer, max)) \in 0..max
    BY <2>1, FitsBudget
  <2> QED
    BY <1>1, <1>2, <2>2 DEF WrapBounded
<1>3. CASE max > Overhead
  <2> DEFINE room == max - Overhead
             body == FitToBudget(t, room)
  <2>1. room \in Nat
    BY <1>1, <1>3
  <2>2. body \in Seq(S) /\ Len(body) \in 0..room
    BY <2>1, FitsBudget
  <2>3. WrapBounded(t, max) = Header \o body \o Footer
    BY <1>1, <1>3, SMTT(30) DEF WrapBounded, Wrap
  <2> HIDE DEF body
  <2>4. /\ Header \o body \in Seq(S)
        /\ Len(Header \o body) = Len(Header) + Len(body)
    BY <2>2, ConcatProperties
  <2>5. Len((Header \o body) \o Footer)
           = Len(Header) + Len(body) + Len(Footer)
    BY <2>4, ConcatProperties
  <2> QED
    BY <1>1, <2>1, <2>2, <2>3, <2>5
<1> QED
  BY <1>1, <1>2, <1>3

\* What render_external cut to the payload's budget passes the second cut whole:
\* no answer carries two markers.
THEOREM CutOnce ==
  ASSUME NEW S, NEW t \in Seq(S), NEW max \in Nat,
         Marker \in Seq(S), Header \in Seq(S), Footer \in Seq(S),
         max > Overhead
  PROVE  WrapBounded(FitToBudget(t, PayloadBudget(max)), max)
            = Wrap(FitToBudget(t, PayloadBudget(max)))
<1> DEFINE room == max - Overhead
           body == FitToBudget(t, room)
<1>1. Overhead \in Nat
  BY LenProperties DEF Overhead
<1>2. room \in Nat /\ PayloadBudget(max) = room
  BY <1>1 DEF PayloadBudget
<1>3. body \in Seq(S) /\ Len(body) \in 0..room
  BY <1>2, FitsBudget
<1> HIDE DEF body
<1>4. Len(body) <= room
  BY <1>2, <1>3
<1>6. FitToBudget(body, room) = body
  BY <1>2, <1>3, <1>4, FitsBudget
<1>5. WrapBounded(body, max) = Wrap(FitToBudget(body, room))
  BY <1>1 DEF WrapBounded
<1> QED
  BY <1>2, <1>5, <1>6 DEF body

\* Every set of natural numbers has a least one.
LEMMA LeastNatural ==
  ASSUME NEW T, T \subseteq Nat, T # {}
  PROVE  \E x \in T : \A y \in T : x <= y
<1> DEFINE R == {p \in Nat \X Nat : p[1] < p[2]}
<1>1. OpToRel(<, Nat) = R
  BY DEF OpToRel
<1>2. IsWellFoundedOn(R, Nat)
  BY <1>1, NatLessThanWellFounded
<1> HIDE DEF R
<1>3. \E x \in T : \A y \in T : <<y, x>> \notin R
  BY <1>2, WFMin
<1>4. PICK x \in T : \A y \in T : <<y, x>> \notin R
  BY <1>3
<1>5. ASSUME NEW y \in T
      PROVE  x <= y
  <2>1. <<y, x>> \in Nat \X Nat /\ <<y, x>>[1] = y /\ <<y, x>>[2] = x
    OBVIOUS
  <2>2. ~(y < x)
    BY <1>4, <2>1 DEF R
  <2> QED
    BY <2>2
<1> QED
  BY <1>5

\* A part of a text is a text, and no longer.
LEMMA PartType ==
  ASSUME NEW S, NEW t \in Seq(S), NEW s, s \in SubSeqs(t)
  PROVE  s \in Seq(S) /\ Len(s) <= Len(t)
<1>1. PICK i \in 0..Len(t), j \in 0..Len(t) : s = SubSeq(t, i + 1, j)
  BY DEF SubSeqs
<1>2. Len(t) \in Nat /\ \A k \in 1..Len(t) : t[k] \in S
  BY LenProperties
<1>3. i + 1 \in Int /\ j \in Int /\ \A k \in (i + 1)..j : t[k] \in S
  BY <1>2
<1>4. /\ s \in Seq(S)
      /\ Len(s) = IF i + 1 <= j THEN j - (i + 1) + 1 ELSE 0
  BY <1>1, <1>3, SubSeqProperties
<1> QED
  BY <1>2, <1>4

\* A literal that is in a line begins there.
LEMMA FirstPlace ==
  ASSUME NEW S, NEW line \in Seq(S), NEW literal \in SubSeqs(line),
         literal # << >>
  PROVE  IndexFirstSubSeq(literal, line) \in 1..(Len(line) - Len(literal) + 1)
<1> DEFINE In(i) == literal \in SubSeqs(SubSeq(line, 1, i))
           T == {i \in 0..Len(line) : In(i)}
           P(i) == In(i) /\ \A j \in 0..i - 1 : ~In(j)
           last == CHOOSE i \in 0..Len(line) : P(i)
<1>1. Len(line) \in Nat /\ SubSeq(line, 1, Len(line)) = line
  BY LenProperties, SubSeqFull
<1>2. Len(line) \in T /\ T \subseteq Nat
  <2>1. In(Len(line))
    BY <1>1
  <2> QED
    BY <1>1, <2>1
<1>3. PICK m \in T : \A y \in T : m <= y
  <2> HIDE DEF T
  <2> QED
    BY <1>2, LeastNatural
<1>4. P(m)
  BY <1>1, <1>3
<1>5. last \in 0..Len(line) /\ P(last)
  BY <1>3, <1>4
<1>6. IndexFirstSubSeq(literal, line) = last - (Len(literal) - 1)
  BY DEF IndexFirstSubSeq
<1> HIDE DEF last
<1>7. /\ SubSeq(line, 1, last) \in Seq(S)
      /\ Len(SubSeq(line, 1, last)) = last
  <2>1. \A k \in 1..last : line[k] \in S
    BY <1>1, <1>5, LenProperties
  <2>2. 1 \in Int /\ last \in Int
    BY <1>5
  <2> QED
    BY <1>5, <2>1, <2>2, SubSeqProperties
<1>8. Len(literal) <= last /\ Len(literal) \in Nat \ {0}
  <2>1. literal \in Seq(S) /\ Len(literal) <= last
    BY <1>5, <1>7, PartType
  <2> QED
    BY <2>1, EmptySeq
<1> QED
  BY <1>1, <1>5, <1>6, <1>8

\* bounded_match_line keeps to its length, and the match stays in it whenever
\* it has room next to the marker.
THEOREM MatchLineFits ==
  ASSUME NEW S, NEW line \in Seq(S), NEW literal \in SubSeqs(line),
         literal # << >>, NEW max \in Nat, Marker \in Seq(S)
  PROVE  LET shown == BoundedMatchLine(line, literal, max)
         IN  /\ shown \in Seq(S) /\ Len(shown) <= max
             /\ Len(literal) + Len(Marker) < max =>
                   Range(literal) \subseteq Range(shown)
<1> DEFINE shown == BoundedMatchLine(line, literal, max)
           context == max - Len(Marker) - Len(literal)
           start == IndexFirstSubSeq(literal, line)
           before == Opening(line, start - 1)
           after == SubSeq(line, start + Len(literal), Len(line))
           Least(a, b) == IF a < b THEN a ELSE b
           m == Least(context \div 2, Len(before))
           n == Least(context - context \div 2, Len(after))
           left == Closing(before, m)
           right == Opening(after, n)
<1>1. /\ literal \in Seq(S) /\ Len(literal) \in Nat \ {0}
      /\ Len(line) \in Nat /\ Len(literal) <= Len(line)
      /\ Len(Marker) \in Nat
  BY PartType, EmptySeq, LenProperties
<1>2. start \in 1..(Len(line) - Len(literal) + 1)
  BY FirstPlace
<1>3. CASE Len(line) <= max
  <2>1. shown = line
    BY <1>3 DEF BoundedMatchLine
  <2>2. Range(literal) \subseteq Range(line)
    <3>1. PICK i \in 0..Len(line), j \in 0..Len(line) :
             literal = SubSeq(line, i + 1, j)
      BY DEF SubSeqs
    <3>2. \A k \in (i + 1)..j : line[k] \in Range(line)
      BY <1>1, RangeEquality
    <3>3. literal \in Seq(Range(line))
      BY <1>1, <3>1, <3>2, SubSeqProperties
    <3> QED
      BY <3>3, RangeOfSeq
  <2> QED
    BY <1>3, <2>1, <2>2
<1>4. CASE Len(line) > max /\ Len(literal) + Len(Marker) >= max
  <2>1. shown = FitToBudget(line, max)
    BY <1>1, <1>4 DEF BoundedMatchLine
  <2>2. shown \in Seq(S) /\ Len(shown) \in 0..max
    BY <2>1, FitsBudget
  <2> QED
    BY <1>1, <1>4, <2>2
<1>5. CASE Len(line) > max /\ Len(literal) + Len(Marker) < max
  <2>1. shown = left \o Marker \o literal \o right
    <3>1. ~(Len(line) <= max) /\ ~(Len(literal) + Len(Marker) >= max)
      BY <1>1, <1>5
    <3> QED
      BY <3>1 DEF BoundedMatchLine
  <2>2. context \in Nat /\ context \div 2 \in 0..context
    BY <1>1, <1>5
  <2>3. start - 1 \in 0..Len(line)
    BY <1>1, <1>2
  <2>4. before \in Seq(S) /\ Len(before) \in Nat
    BY <2>3, Ends
  <2>5. after \in Seq(S) /\ Len(after) \in Nat
    <3>1. \A k \in (start + Len(literal))..Len(line) : line[k] \in S
      BY <1>1, <1>2, LenProperties
    <3>2. after \in Seq(S)
      BY <1>1, <1>2, <3>1, SubSeqProperties
    <3> QED
      BY <3>2, LenProperties
  <2> HIDE DEF before, after, start, context
  <2>6. /\ m \in 0..Len(before) /\ n \in 0..Len(after)
        /\ m + n <= context
    <3> DEFINE half == context \div 2
    <3>1. half \in 0..context
      BY <2>2
    <3> HIDE DEF half
    <3>2. /\ Least(half, Len(before)) \in 0..Len(before)
          /\ Least(half, Len(before)) <= half
      BY <2>2, <2>4, <3>1
    <3>3. /\ Least(context - half, Len(after)) \in 0..Len(after)
          /\ Least(context - half, Len(after)) <= context - half
      BY <2>2, <2>5, <3>1
    <3>4. /\ m = Least(half, Len(before))
          /\ n = Least(context - half, Len(after))
      BY DEF half
    <3> HIDE DEF m, n, Least
    <3> QED
      BY <2>2, <2>4, <2>5, <3>1, <3>2, <3>3, <3>4
  <2> HIDE DEF m, n
  <2>7. /\ left \in Seq(S) /\ Len(left) = m
        /\ right \in Seq(S) /\ Len(right) = n
    BY <2>4, <2>5, <2>6, Ends
  <2> DEFINE x == left \o Marker
             y == x \o literal
  <2> HIDE DEF left, right
  <2>8. x \in Seq(S) /\ Len(x) = m + Len(Marker)
    BY <2>7, ConcatProperties
  <2> HIDE DEF x
  <2>9. /\ y \in Seq(S) /\ Len(y) = m + Len(Marker) + Len(literal)
        /\ Range(literal) \subseteq Range(y)
    <3>1. y \in Seq(S) /\ Len(y) = m + Len(Marker) + Len(literal)
      BY <1>1, <2>8, ConcatProperties
    <3>2. Range(y) = Range(x) \cup Range(literal)
      BY <1>1, <2>8, RangeConcatenation
    <3> QED
      BY <3>1, <3>2
  <2> HIDE DEF y
  <2>10. /\ y \o right \in Seq(S) /\ Len(y \o right) = Len(y) + n
         /\ Range(y) \subseteq Range(y \o right)
    <3>1. y \o right \in Seq(S) /\ Len(y \o right) = Len(y) + n
      BY <2>7, <2>9, ConcatProperties
    <3>2. Range(y \o right) = Range(y) \cup Range(right)
      BY <2>7, <2>9, RangeConcatenation
    <3> QED
      BY <3>1, <3>2
  <2>11. shown = y \o right
    BY <2>1 DEF x, y
  <2>12. Len(shown) <= max
    <3>1. context = max - Len(Marker) - Len(literal)
      BY DEF context
    <3> QED
      BY <1>1, <2>2, <2>6, <2>9, <2>10, <2>11, <3>1
  <2> QED
    BY <2>9, <2>10, <2>11, <2>12
<1> QED
  BY <1>1, <1>3, <1>4, <1>5
===============================================================================
