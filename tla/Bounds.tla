-------------------------------- MODULE Bounds --------------------------------
(***************************************************************************)
(* How an answer is cut to its budget: src/truncator.rs, src/utils.rs,     *)
(* truncate_lines of src/main.rs and bounded_match_line of src/storage.rs. *)
(* A text is a sequence; what an element stands for (a character, a line)  *)
(* is the caller's business.                                               *)
(***************************************************************************)
EXTENDS Naturals, Sequences, SequencesExt

CONSTANTS
    Omitted,    \* the notice truncate and truncate_lines leave in a text
    Marker,     \* MARKER, which counts against the budget
    Header,     \* UNTRUSTED_PREFIX
    Footer      \* UNTRUSTED_SUFFIX

Opening(t, n) == SubSeq(t, 1, n)
Closing(t, n) == SubSeq(t, Len(t) - n + 1, Len(t))

\* truncate and truncate_lines: the two ends, max elements in all.
Truncate(t, max) ==
    IF Len(t) <= max THEN t
    ELSE Opening(t, max \div 2) \o Omitted \o Closing(t, max - max \div 2)

\* Faulty variant: the notice is not paid for.
FitUnpaid(t, max) ==
    IF Len(t) <= max THEN t
    ELSE Opening(t, max \div 2) \o Marker \o Closing(t, max - max \div 2)

FitToBudget(t, max) ==
    LET room == max - Len(Marker)
    IN  IF Len(t) <= max THEN t
        ELSE IF max <= Len(Marker) THEN Opening(Marker, max)
        ELSE Opening(t, room \div 2) \o Marker
                 \o Closing(t, room - room \div 2)

Wrap(t) == Header \o t \o Footer

Overhead == Len(Header) + Len(Footer)

PayloadBudget(max) == IF max > Overhead THEN max - Overhead ELSE 0

WrapBounded(t, max) ==
    IF max <= Overhead THEN FitToBudget(Header \o Footer, max)
    ELSE Wrap(FitToBudget(t, max - Overhead))

\* The neighbourhood of the first match in a line that is too long.
BoundedMatchLine(line, literal, max) ==
    LET context == max - Len(Marker) - Len(literal)
        start   == IndexFirstSubSeq(literal, line)
        before  == Opening(line, start - 1)
        after   == SubSeq(line, start + Len(literal), Len(line))
        Least(a, b) == IF a < b THEN a ELSE b
    IN  IF Len(line) <= max THEN line
        ELSE IF Len(literal) + Len(Marker) >= max THEN FitToBudget(line, max)
        ELSE Closing(before, Least(context \div 2, Len(before)))
                 \o Marker \o literal
                 \o Opening(after, Least(context - context \div 2, Len(after)))
===============================================================================
