------------------------------- MODULE Retrieval -------------------------------
(***************************************************************************)
(* Reading one stored stream back (src/storage.rs): one run is committed,  *)
(* a client searches it page by page, following the cursors it is given,   *)
(* and retrieves ranges of its lines, while the data file may be damaged   *)
(* between any two accesses.  Expiry, deletion and races between processes *)
(* are RunStore's.                                                         *)
(***************************************************************************)
EXTENDS LineIndex

CONSTANTS
    Bytes,             \* the bytes a stream is made of
    Streams,           \* the outputs a command may have left
    Literals,          \* search literals, each one byte long
    Markers,           \* texts the injection detector knows
    Here, Elsewhere,   \* this stream of this run; others a client may confuse
    MaxMatches,        \* MAX_MATCHES
    MaxScanBytes,      \* MAX_SCAN_BYTES
    MaxLinesPerQuery,  \* MAX_LINES_PER_QUERY
    MaxDamage,         \* bound on the accidents that befall the data file
    NoCursor

ASSUME StreamsAssumption == Newline \in Bytes /\ Streams \subseteq Seq(Bytes)
ASSUME MarkersAssumption == Markers \subseteq Seq(Bytes) \ {<< >>}
ASSUME RetrievalLimits ==
    /\ MaxMatches \in Nat \ {0}
    /\ {MaxScanBytes, MaxLinesPerQuery, MaxDamage} \subseteq Nat
ASSUME CursorAssumption ==
    /\ NoCursor \notin [source : {Here}, literal : Literals, line : Nat]
    /\ Here \notin Elsewhere

VARIABLES
    bytes,     \* what was committed
    data,      \* what the data file holds
    manifest,  \* its index
    damage,    \* accidents so far
    pc,        \* what the client's process is doing
    literal,   \* search: the literal
    line,      \* search: the next line to scan
    scanned,   \* search: bytes read for this page
    page,      \* search: matches of this page
    cursor,    \* next_cursor of the last page
    status,    \* the last answer's status
    found,     \* the matches of all pages since the search began
    range,     \* retrieve: <<start_line, line_count>>
    selected   \* retrieve: the content

stored == <<bytes, data, manifest, damage>>
searching == <<literal, line, scanned, page, cursor, found>>
retrieving == <<range, selected>>
vars == <<stored, pc, searching, status, retrieving>>

NoManifest == StreamManifest(<< >>)

Init ==
    /\ bytes \in Streams
    /\ data = << >> /\ manifest = NoManifest /\ damage = 0
    /\ pc = "new" /\ status = "none"
    /\ literal \in Literals /\ line = 0 /\ scanned = 0
    /\ page = << >> /\ cursor = NoCursor /\ found = << >>
    /\ range = <<0, 1>> /\ selected = << >>

-------------------------------------------------------------------------------
(* Commit, and accidents                                                     *)

Commit ==
    /\ pc = "new"
    /\ IF IndexTooLong(bytes) \/ Len(bytes) > MaxStreamBytes
       THEN /\ pc' = "rejected" /\ status' = "quota"
            /\ UNCHANGED <<data, manifest>>
       ELSE /\ pc' = "idle" /\ status' = "active"
            /\ data' = bytes /\ manifest' = StreamManifest(bytes)
    /\ UNCHANGED <<bytes, damage, searching, retrieving>>

\* A byte of the file is overwritten, or the file loses its tail.
Damage ==
    /\ pc \notin {"new", "rejected"} /\ damage < MaxDamage
    /\ damage' = damage + 1
    /\ \E i \in 1..Len(data) :
          \/ \E c \in Bytes : data' = [data EXCEPT ![i] = c]
          \/ data' = SubSeq(data, 1, i - 1)
    /\ UNCHANGED <<bytes, manifest, pc, searching, status, retrieving>>

\* read_manifest as every lookup runs it: the index is sound and the file has
\* the length the index says.
LookupActive == ValidManifest(manifest) /\ Len(data) = manifest.byte_len

-------------------------------------------------------------------------------
(* search_at                                                                 *)

\* A page is answered without matches and without a cursor.
DropPage(st) ==
    /\ pc' = "idle" /\ status' = st /\ cursor' = NoCursor /\ page' = << >>
    /\ UNCHANGED <<literal, line, scanned, found>>

\* The next call has nothing of the last retrieve's.
ForgetAnswer == range' = <<0, 1>> /\ selected' = << >>

\* Faulty variant: every page starts at the first line.
StartPageOver(from) ==
    /\ pc' = "scan" /\ line' = 0 /\ scanned' = 0 /\ page' = << >>
    /\ cursor' = NoCursor
    /\ ForgetAnswer

StartPage(from) ==
    /\ pc' = "scan" /\ line' = from /\ scanned' = 0 /\ page' = << >>
    /\ cursor' = NoCursor
    /\ ForgetAnswer

\* Without a cursor a search starts at line 0.  A client follows one search to
\* its end before it asks for anything else.
Search(l) ==
    /\ pc = "idle" /\ cursor = NoCursor
    /\ IF LookupActive
       THEN /\ StartPage(0) /\ literal' = l /\ found' = << >>
            /\ UNCHANGED status
       ELSE DropPage("corrupt") /\ UNCHANGED retrieving
    /\ UNCHANGED stored

MakeCursor(next) == [source |-> Here, literal |-> literal, line |-> next]

\* Cursors a client has from searches of other streams.
ForeignCursors == [source : Elsewhere, literal : Literals, line : 0..Len(bytes)]

\* Faulty variant: whose cursor it is is not checked.
CursorBoundAnywhere(c, l) == c.literal = l

\* parse_cursor: a cursor names the run, the stream and the literal of the search
\* it continues.
CursorBound(c, l) == c.source = Here /\ c.literal = l

Resume(c, l) ==
    /\ pc = "idle" /\ cursor # NoCursor
    /\ IF ~LookupActive THEN DropPage("corrupt") /\ UNCHANGED retrieving
       ELSE IF CursorBound(c, l)
       THEN /\ StartPage(c.line) /\ literal' = l
            /\ UNCHANGED <<status, found>>
       ELSE /\ status' = "invalid_cursor"
            /\ UNCHANGED <<pc, searching, retrieving>>
    /\ UNCHANGED stored

\* The client gives the cursor it got, or another one, with some literal.
Follow(l) == \E c \in {cursor} \cup ForeignCursors : Resume(c, l)

\* Faulty variant: a page that was cut short resumes one line too late.
EndPageSkips(next, matches, truncated) ==
    /\ pc' = "idle" /\ status' = "active"
    /\ line' = next /\ page' = matches /\ found' = found \o matches
    /\ cursor' = IF truncated \/ next < manifest.line_count
                 THEN MakeCursor(next + 1) ELSE NoCursor
    /\ UNCHANGED literal

EndPage(next, matches, truncated) ==
    /\ pc' = "idle" /\ status' = "active"
    /\ line' = next /\ page' = matches /\ found' = found \o matches
    /\ cursor' = IF truncated \/ next < manifest.line_count
                 THEN MakeCursor(next) ELSE NoCursor
    /\ UNCHANGED literal

LineRead == ReadLineSlice(data, manifest, line, 1)

BytesOf(b) == {b[i] : i \in 1..Len(b)}

\* trim_end_matches('\n'), of a line, whose only newline is its last byte.
TrimNewline(b) ==
    IF b # << >> /\ b[Len(b)] = Newline THEN SubSeq(b, 1, Len(b) - 1) ELSE b

Match(b) == [line |-> line + 1, content |-> TrimNewline(b)]

\* Faulty variant: the page holds one match more than MAX_MATCHES.
ScanHitOneMore(b) ==
    LET matches == Append(page, Match(b))
    IN  IF Len(matches) > MaxMatches
        THEN EndPage(line + 1, matches, line + 1 < manifest.line_count)
        ELSE /\ page' = matches /\ line' = line + 1
             /\ UNCHANGED <<pc, literal, cursor, status, found>>

\* The line holds the literal; a full page ends here.
ScanHit(b) ==
    LET matches == Append(page, Match(b))
    IN  IF Len(matches) >= MaxMatches
        THEN EndPage(line + 1, matches, line + 1 < manifest.line_count)
        ELSE /\ page' = matches /\ line' = line + 1
             /\ UNCHANGED <<pc, literal, cursor, status, found>>

ScanMiss ==
    /\ line' = line + 1
    /\ UNCHANGED <<pc, literal, page, cursor, status, found>>

\* The read failed: as damaged data, or as an error of the file system.
ScanFails ==
    /\ pc = "scan" /\ line < manifest.line_count
    /\ LineRead.outcome \in {"corrupt", "io_error"}
    /\ DropPage(LineRead.outcome)
    /\ UNCHANGED <<stored, retrieving>>

\* One turn of the loop.  A line that takes the page past MAX_SCAN_BYTES is
\* stepped over, not looked at.
ScanLine ==
    /\ pc = "scan" /\ line < manifest.line_count
    /\ LineRead.outcome = "lines"
    /\ LET b == LineRead.bytes
       IN  /\ scanned' = scanned + Len(b)
           /\ IF scanned' > MaxScanBytes THEN EndPage(line + 1, page, TRUE)
              ELSE IF literal \in BytesOf(b) THEN ScanHit(b)
              ELSE ScanMiss
    /\ UNCHANGED <<stored, retrieving>>

\* MAX_SCAN_TIME is looked at before a line is read and after it was scanned.
ScanTimeUp ==
    /\ pc = "scan"
    /\ line < manifest.line_count \/ scanned > 0
    /\ EndPage(line, page, TRUE)
    /\ UNCHANGED <<scanned, stored, retrieving>>

ScanEnd ==
    /\ pc = "scan" /\ line >= manifest.line_count
    /\ EndPage(line, page, FALSE)
    /\ UNCHANGED <<scanned, stored, retrieving>>

-------------------------------------------------------------------------------
(* retrieve_lines_at                                                         *)

AnswerRetrieve(st) ==
    /\ pc' = "idle" /\ status' = st
    /\ selected' = IF st = "retrieved" THEN selected ELSE << >>

ForgetPages == line' = 0 /\ scanned' = 0 /\ page' = << >> /\ found' = << >>

\* The lookup.
Retrieve(start, count) ==
    /\ pc = "idle" /\ cursor = NoCursor /\ count \in 1..MaxLinesPerQuery
    /\ range' = <<start, count>>
    /\ IF LookupActive THEN pc' = "select" /\ UNCHANGED <<status, selected>>
       ELSE AnswerRetrieve("corrupt")
    /\ ForgetPages
    /\ UNCHANGED <<stored, literal, cursor>>

SelectLines ==
    /\ pc = "select"
    /\ LET r == ReadLineSlice(data, manifest, range[1], range[2])
       IN  IF r.outcome = "lines"
           THEN pc' = "inspect" /\ selected' = r.bytes /\ UNCHANGED status
           ELSE AnswerRetrieve(r.outcome)
    /\ UNCHANGED <<stored, searching, range>>

\* Marker m stands in b after the first i bytes.
StandsAt(m, b, i) ==
    i + Len(m) <= Len(b) /\ \A k \in 1..Len(m) : b[i + k] = m[k]

\* detect_injection
HasMarker(b) == \E m \in Markers, i \in 0..Len(b) : StandsAt(m, b, i)

\* Faulty variant: the overlap covers what follows the range only.
ContextStartAtRange(start) == start

\* start_line.saturating_sub(1)
ContextStart(start) == IF start = 0 THEN 0 ELSE start - 1

\* The overlap is inspected, and never part of the answer.
InspectContext ==
    /\ pc = "inspect"
    /\ LET r == ReadLineSlice(data, manifest,
                               ContextStart(range[1]), range[2] + 2)
       IN  AnswerRetrieve(IF r.outcome # "lines" THEN r.outcome
                          ELSE IF HasMarker(r.bytes) \/ HasMarker(selected)
                          THEN "blocked" ELSE "retrieved")
    /\ UNCHANGED <<stored, searching, range>>

-------------------------------------------------------------------------------

ScanStep == ScanLine \/ ScanFails \/ ScanTimeUp \/ ScanEnd

Next ==
    \/ Commit
    \/ Damage
    \/ \E l \in Literals : Search(l) \/ Follow(l)
    \/ ScanLine
    \/ ScanFails
    \/ ScanTimeUp
    \/ ScanEnd
    \/ \E start \in 0..(Len(bytes) + 1), count \in 1..MaxLinesPerQuery :
          Retrieve(start, count)
    \/ SelectLines
    \/ InspectContext

Spec == Init /\ [][Next]_vars

FollowRightly ==
    \E l \in Literals :
        cursor # NoCursor /\ cursor.literal = l /\ Resume(cursor, l)

\* The process runs; a client that got a cursor uses it in the end; and the two
\* seconds of a page are not used up every single time before a line is read.
FairSpec ==
    /\ Spec
    /\ WF_vars(ScanStep)
    /\ SF_vars(ScanLine \/ ScanFails)
    /\ SF_vars(FollowRightly)
    /\ WF_vars(SelectLines \/ InspectContext)

-------------------------------------------------------------------------------
(* Properties                                                                *)

\* Reference: line n, and the lines of a range, of a text, counting the newlines
\* ahead of every byte and knowing nothing of an index.
LineOf(b, i) == Cardinality({j \in 1..(i - 1) : b[j] = Newline})

TextAt(b, places) ==
    [k \in 1..Cardinality(places) |-> b[Ascending(places)[k]]]

LinesOf(b, start, count) ==
    TextAt(b, {i \in 1..Len(b) : LineOf(b, i) \in start..(start + count - 1)})

\* Reference: line n without the newline that ends it.
LineText(b, n) ==
    TextAt(b, {i \in 1..Len(b) : LineOf(b, i) = n /\ b[i] # Newline})

\* Reference: the lines, from 1, that a search for l has to report.
Hits(b, l) == {LineOf(b, i) + 1 : i \in {j \in 1..Len(b) : b[j] = l}}

\* Everything keeps its type, and an answer never holds more than MAX_MATCHES
\* matches (the loop of search_at tests the limit after it pushed).
TypeOK ==
    /\ bytes \in Streams /\ damage \in 0..MaxDamage
    /\ pc \in {"new", "rejected", "idle", "scan", "select", "inspect"}
    /\ status \in {"none", "quota", "active", "corrupt", "io_error",
                   "invalid_cursor", "retrieved", "blocked"}
    /\ literal \in Literals /\ line \in 0..(Len(bytes) + 1)
    /\ scanned \in 0..Len(bytes)
    /\ page \in Seq([line : 1..Len(bytes), content : Seq(Bytes)])
    /\ Len(page) <= MaxMatches
    /\ cursor # NoCursor => cursor.line \in 0..Len(bytes)

\* What commit accepts, every later lookup accepts: the writer's limits are
\* within the validator's (stream_manifest against validate_stream_manifest), so
\* that a run that was stored whole is never reported corrupt.
WrittenIsAccepted == pc \notin {"new", "rejected"} => ValidManifest(manifest)

\* Over all the pages of a search each match is reported once, in order, with
\* the number and the text of a line of the command's output that holds the
\* literal, whatever happened to the file meanwhile (search_at, the cursor and
\* the line checksums together).
SearchSound ==
    /\ \A i \in 1..Len(found) :
          /\ found[i].line \in Hits(bytes, literal)
          /\ found[i].content = LineText(bytes, found[i].line - 1)
    /\ \A i \in 2..Len(found) : found[i - 1].line < found[i].line

\* When the pages have been followed to the end no match is missing: neither the
\* limit on matches nor the one on time loses a line.  A stream is never larger
\* than what one page may read (MAX_STREAM_BYTES = MAX_SCAN_BYTES).
SearchComplete ==
    pc = "idle" /\ cursor = NoCursor /\ status = "active" /\ line > 0
        /\ Len(bytes) <= MaxScanBytes
    => {found[i].line : i \in 1..Len(found)} = Hits(bytes, literal)

\* What is handed out is exactly the asked-for lines of the command's output,
\* even if the file was damaged before, between or after the reads of the answer
\* (read_line_slice verifies every line it returns).
RetrieveFaithful ==
    pc = "idle" /\ status = "retrieved"
        => selected = LinesOf(bytes, range[1], range[2])

\* A marker stands after the first i bytes of the stream, from its first line to
\* its last, and the range has some of these lines.
GivesAway(m, i) ==
    /\ StandsAt(m, bytes, i)
    /\ \E n \in LineOf(bytes, i + 1)..LineOf(bytes, i + Len(m)) :
          n \in range[1]..(range[1] + range[2] - 1)

\* No answer gives away a part of a marker that lies in one line or is split
\* between two: the overlap retrieve_lines_at inspects is one line to each side.
MarkerBlocked ==
    pc = "idle" /\ status = "retrieved" =>
        \A m \in Markers, i \in 0..Len(bytes) :
            GivesAway(m, i) =>
                LineOf(bytes, i + Len(m)) > LineOf(bytes, i + 1) + 1

\* A marker split at the boundary of the requested range cannot bypass the
\* policy (the comment of the overlap): fails for one with an empty line in it.
SplitMarkerBlocked ==
    pc = "idle" /\ status = "retrieved" =>
        \A m \in Markers, i \in 0..Len(bytes) : ~GivesAway(m, i)

\* A client that follows the cursors it is given comes to the last page.
SearchEnds == pc = "scan" ~> pc = "idle" /\ cursor = NoCursor
===============================================================================
