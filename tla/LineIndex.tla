------------------------------- MODULE LineIndex -------------------------------
(***************************************************************************)
(* The line index of a stored stream (src/storage.rs): how it is built when *)
(* a run is committed, how a lookup validates it, and how a range of lines *)
(* is read through it.  A stream is a sequence of bytes; Newline is the    *)
(* only byte that matters to the index.  A checksum stands for the line it *)
(* was taken of: two different lines never share one.                      *)
(***************************************************************************)
EXTENDS Naturals, Sequences, FiniteSets

CONSTANTS
    Newline,         \* b'\n'
    MaxStreamBytes,  \* MAX_STREAM_BYTES
    MaxIndexEntries  \* MAX_INDEX_ENTRIES

ASSUME IndexLimitsNat == MaxStreamBytes \in Nat /\ MaxIndexEntries \in Nat \ {0}

-------------------------------------------------------------------------------
(* stream_manifest                                                           *)

\* Offsets count from 0: a line starts at 0 and behind each newline but the last
\* byte of the stream.
LineStarts(b) == {0} \cup {i \in 1..Len(b) : b[i] = Newline /\ i < Len(b)}

Below(S, x) == {y \in S : y < x}

\* The numbers of S from the least on: the one at k has k - 1 below it.
Ascending(S) ==
    [k \in 1..Cardinality(S) |->
        CHOOSE x \in S : Cardinality(Below(S, x)) = k - 1]

Checksum(line) == line

\* Faulty variant: one entry too many is indexed.
IndexTooLongByOne(b) == Cardinality(LineStarts(b)) > MaxIndexEntries + 1

\* quota: line index limit exceeded
IndexTooLong(b) == Cardinality(LineStarts(b)) > MaxIndexEntries

\* Where line k (from 0) ends: at the next line, or with the stream.
LineEnd(offsets, byteLen, k) ==
    IF k + 1 < Len(offsets) THEN offsets[k + 2] ELSE byteLen

StreamManifest(b) ==
    LET offsets == Ascending(LineStarts(b))
        count == IF b = << >> THEN 0 ELSE Len(offsets)
    IN  [byte_len       |-> Len(b),
         line_count     |-> count,
         line_offsets   |-> offsets,
         line_checksums |->
            [k \in 1..count |->
                Checksum(SubSeq(b, offsets[k] + 1,
                                LineEnd(offsets, Len(b), k - 1)))]]

-------------------------------------------------------------------------------
(* validate_stream_manifest                                                  *)

ValidManifest(m) ==
    /\ m.byte_len <= MaxStreamBytes
    /\ Len(m.line_offsets) \in 1..MaxIndexEntries
    /\ m.line_offsets[1] = 0
    /\ m.line_count = IF m.byte_len = 0 THEN 0 ELSE Len(m.line_offsets)
    /\ Len(m.line_checksums) = m.line_count
    /\ \A k \in 1..Len(m.line_offsets) : m.line_offsets[k] <= m.byte_len
    /\ \A k \in 2..Len(m.line_offsets) :
          m.line_offsets[k - 1] < m.line_offsets[k]

-------------------------------------------------------------------------------
(* read_line_slice                                                           *)

Slice(outcome, b) == [outcome |-> outcome, bytes |-> b]

\* Faulty variant: only the first line of the range is verified.
ChecksumsHoldFirst(d, m, first, last) ==
    Checksum(SubSeq(d, m.line_offsets[first + 1] + 1,
                    LineEnd(m.line_offsets, m.byte_len, first)))
        = m.line_checksums[first + 1]

\* Lines first to last - 1 of the data file are the ones that were indexed.
ChecksumsHold(d, m, first, last) ==
    \A k \in first..(last - 1) :
        Checksum(SubSeq(d, m.line_offsets[k + 1] + 1,
                        LineEnd(m.line_offsets, m.byte_len, k)))
            = m.line_checksums[k + 1]

\* Lines start to start + count - 1 of the data file d, as far as it has them.
ReadLineSlice(d, m, start, count) ==
    IF start >= m.line_count THEN Slice("lines", << >>)
    ELSE LET last == IF start + count < m.line_count THEN start + count
                     ELSE m.line_count
             from == m.line_offsets[start + 1]
             to == LineEnd(m.line_offsets, m.byte_len, last - 1)
         IN  IF to > Len(d) THEN Slice("io_error", << >>)
             ELSE IF ~ChecksumsHold(d, m, start, last)
             THEN Slice("corrupt", << >>)
             ELSE Slice("lines", SubSeq(d, from + 1, to))
===============================================================================
