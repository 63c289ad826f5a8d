------------------------------ MODULE GateProofs ------------------------------
(***************************************************************************)
(* Proofs about Gate for every text, command line, file system, budget and *)
(* number of failing reads and writes: what is shown, what is kept, what   *)
(* is told of it, and what is read.                                        *)
(***************************************************************************)
EXTENDS Gate, BoundsProofs

-------------------------------------------------------------------------------
(* Words and texts.                                                          *)

\* The program's own words.
Notices == {"status", "warning", "error", "stats", "diagnostics", "warnings",
            "mask", "nl"} \cup Reasons

Words == STRING \cup Notices
Text  == Seq(Words)
Clean == Words \ {"key", "home"}
Plain == Words \ {"key", "home", "inj", "crlf"}
Kept  == Seq(Words \ {"key", "home", "crlf"})

Commands == {Redact(q.path.names) : q \in Requests}

\* W are words a process may write under the policy pia, in lists of names
\* apart: whatever that lets through, redacted, and the plain ones.
Permits(W, pia) ==
    /\ Plain \subseteq W /\ W \subseteq Clean /\ W \subseteq Words
    /\ \A t \in Text : ~Stops(t, pia) => Redact(t) \in Seq(W)

\* A replacement goes token by token.
LEMMA ReplaceType ==
  ASSUME NEW from, NEW to \in Words, NEW t \in Text
  PROVE  /\ Replace(from, to, t) \in Text
         /\ Len(Replace(from, to, t)) = Len(t)
         /\ \A i \in 1..Len(t) : Replace(from, to, t)[i]
                = IF t[i] \in from THEN to ELSE t[i]
<1>1. Len(t) \in Nat /\ \A i \in 1..Len(t) : t[i] \in Words
  BY DEF Text
<1>2. DOMAIN t = 1..Len(t)
  BY DEF Text
<1>3. Replace(from, to, t) =
         [i \in 1..Len(t) |-> IF t[i] \in from THEN to ELSE t[i]]
  BY <1>2 DEF Replace
<1>4. \A i \in 1..Len(t) : (IF t[i] \in from THEN to ELSE t[i]) \in Words
  BY <1>1
<1> QED
  BY <1>1, <1>3, <1>4, IsASeq DEF Text

\* A redacted text has neither secrets nor private paths; the rest of it stands.
LEMMA RedactType ==
  ASSUME NEW t \in Text
  PROVE  /\ Redact(t) \in Seq(Clean) /\ Redact(t) \in Text
         /\ Len(Redact(t)) = Len(t)
         /\ \A i \in 1..Len(t) :
               Redact(t)[i] = IF t[i] \in {"key", "home"} THEN "mask" ELSE t[i]
<1>1. "mask" \in Words
  BY DEF Words, Notices
<1>2. /\ Redact(t) \in Text /\ Len(Redact(t)) = Len(t)
      /\ \A i \in 1..Len(t) :
            Redact(t)[i] = IF t[i] \in {"key", "home"} THEN "mask" ELSE t[i]
  BY <1>1, ReplaceType DEF Redact
<1>3. \A i \in 1..Len(Redact(t)) : Redact(t)[i] \in Clean
  BY <1>2 DEF Clean, Text
<1> QED
  BY <1>2, <1>3 DEF Text

\* Redaction adds no word but its own.
LEMMA RedactWithin ==
  ASSUME NEW W, Plain \subseteq W, W \subseteq Words, NEW t \in Seq(W)
  PROVE  Redact(t) \in Seq(W)
<1>1. t \in Text
  BY DEF Text
<1>2. "mask" \in W
  BY DEF Plain, Words, Notices
<1>3. Redact(t) \in Text /\ \A i \in 1..Len(Redact(t)) : Redact(t)[i] \in W
  BY <1>1, <1>2, RedactType
<1> QED
  BY <1>3 DEF Text

\* What is redacted twice is redacted.
LEMMA RedactTwice ==
  ASSUME NEW t \in Text
  PROVE  Redact(Redact(t)) = Redact(t)
<1>1. /\ Redact(t) \in Text /\ Redact(Redact(t)) \in Text
      /\ Len(Redact(Redact(t))) = Len(Redact(t)) /\ Len(Redact(t)) = Len(t)
  BY RedactType
<1>2. \A i \in 1..Len(t) : Redact(Redact(t))[i] = Redact(t)[i]
  BY <1>1, RedactType
<1> QED
  BY <1>1, <1>2, SeqEqual DEF Text

\* An injection is neither made nor lost by redaction.
LEMMA DetectRedacted ==
  ASSUME NEW t \in Text
  PROVE  Detect(Redact(t)) <=> Detect(t)
<1>1. /\ Redact(t) \in Text /\ Len(Redact(t)) = Len(t)
      /\ \A i \in 1..Len(t) :
            Redact(t)[i] = IF t[i] \in {"key", "home"} THEN "mask" ELSE t[i]
  BY RedactType
<1>2. \A s \in Text : Detect(s) <=> \E i \in 1..Len(s) : s[i] = "inj"
  BY RangeEquality DEF Detect, Text
<1> QED
  BY <1>1, <1>2

\* What is stored has no secrets, private paths and foreign line ends; other
\* tokens are stored as they were read.
LEMMA SanitizeType ==
  ASSUME NEW t \in Text
  PROVE  /\ Sanitize(t) \in Kept /\ Len(Sanitize(t)) = Len(t)
         /\ \A i \in 1..Len(t) :
               t[i] \notin {"key", "home", "crlf"} => Sanitize(t)[i] = t[i]
<1> DEFINE u == Replace({"crlf"}, "nl", t)
<1>1. "nl" \in Words
  BY DEF Words, Notices
<1>2. /\ u \in Text /\ Len(u) = Len(t)
      /\ \A i \in 1..Len(t) : u[i] = IF t[i] \in {"crlf"} THEN "nl" ELSE t[i]
  BY <1>1, ReplaceType
<1>3. /\ Redact(u) \in Text /\ Len(Redact(u)) = Len(t)
      /\ \A i \in 1..Len(t) :
            Redact(u)[i] = IF u[i] \in {"key", "home"} THEN "mask" ELSE u[i]
  BY <1>2, RedactType
<1>4. \A i \in 1..Len(Redact(u)) :
         Redact(u)[i] \in Words \ {"key", "home", "crlf"}
  BY <1>2, <1>3 DEF Text
<1>5. Sanitize(t) = Redact(u)
  BY DEF Sanitize
<1> HIDE DEF u
<1> QED
  BY <1>2, <1>3, <1>4, <1>5 DEF Text, Kept

\* Shortening keeps the words of a text, and adds the notice.
LEMMA TruncateType ==
  ASSUME NEW W, Plain \subseteq W, NEW t \in Seq(W), NEW max \in Nat
  PROVE  Truncate(t, max) \in Seq(W)
<1>1. Omitted \in Seq(W)
  BY NoticesPlain DEF Plain, Words
<1>2. CASE Len(t) <= max
  BY <1>2 DEF Truncate
<1>3. CASE Len(t) > max
  <2>1. Len(t) \in Nat /\ max \div 2 \in 0..max
    BY LenProperties
  <2>2. max \div 2 \in 0..Len(t) /\ max - max \div 2 \in 0..Len(t)
    BY <1>3, <2>1
  <2>3. /\ Opening(t, max \div 2) \in Seq(W)
        /\ Closing(t, max - max \div 2) \in Seq(W)
    BY <2>2, Ends
  <2>4. Truncate(t, max) = Opening(t, max \div 2) \o Omitted
                              \o Closing(t, max - max \div 2)
    BY <1>3, <2>1 DEF Truncate
  <2> QED
    BY <1>1, <2>3, <2>4, ConcatProperties
<1> QED
  BY <1>2, <1>3, LenProperties

\* So does the envelope.
LEMMA WrapType ==
  ASSUME NEW W, Plain \subseteq W, NEW t \in Seq(W)
  PROVE  Wrap(t) \in Seq(W)
<1>1. Header \in Seq(W) /\ Footer \in Seq(W)
  BY NoticesPlain DEF Plain, Words
<1> QED
  BY <1>1, ConcatProperties DEF Wrap

\* So does a whole render of what may be written.
LEMMA ExternalType ==
  ASSUME NEW W, Plain \subseteq W, NEW t \in Text, Redact(t) \in Seq(W),
         NEW max \in Nat
  PROVE  External(t, max) \in Seq(W)
<1>1. Header \in Seq(W) /\ Footer \in Seq(W) /\ Marker \in Seq(W)
  BY NoticesPlain DEF Plain, Words
<1>2. Overhead \in Nat
  BY <1>1, LenProperties DEF Overhead
<1>3. PayloadBudget(max) \in Nat
  BY <1>2 DEF PayloadBudget
<1>4. \A s \in Seq(W), n \in Nat : FitToBudget(s, n) \in Seq(W)
  BY <1>1, FitsBudget
<1>5. Header \o Footer \in Seq(W)
  BY <1>1, ConcatProperties
<1>6. \A s \in Seq(W) : WrapBounded(s, max) \in Seq(W)
  <2> SUFFICES ASSUME NEW s \in Seq(W) PROVE WrapBounded(s, max) \in Seq(W)
    OBVIOUS
  <2>1. CASE max <= Overhead
    BY <1>4, <1>5, <2>1 DEF WrapBounded
  <2>2. CASE max > Overhead
    <3>1. FitToBudget(s, max - Overhead) \in Seq(W)
      BY <1>2, <1>4, <2>2
    <3> QED
      BY <1>2, <2>2, <3>1, WrapType DEF WrapBounded
  <2> QED
    BY <1>2, <2>1, <2>2
<1> QED
  BY <1>3, <1>4, <1>6 DEF External

-------------------------------------------------------------------------------
(* Policies.                                                                 *)

\* What redaction leaves may always be written.
LEMMA PermitsClean ==
  ASSUME NEW pia
  PROVE  Permits(Clean, pia)
<1>1. Plain \subseteq Clean /\ Clean \subseteq Words
  BY DEF Plain, Clean
<1>2. \A t \in Text : Redact(t) \in Seq(Clean)
  BY RedactType
<1> QED
  BY <1>1, <1>2 DEF Permits

\* A command line is kept redacted.
LEMMA CommandsClean == Commands \subseteq Seq(Clean)
<1>1. \A t \in Text : Redact(t) \in Seq(Clean)
  BY RedactType
<1>2. \A q \in Requests : q.path.names \in Text
  BY CommandsKnown DEF Text, Words
<1> QED
  BY <1>1, <1>2 DEF Commands

\* Under Block only what has no injection passes.
LEMMA PermitsPolicy == Permits(Clean \ {"inj"}, "Block")
<1> DEFINE W == Clean \ {"inj"}
<1>1. Plain \subseteq W /\ W \subseteq Clean /\ W \subseteq Words
  BY DEF Plain, Clean
<1>2. ASSUME NEW t \in Text, ~Detect(t)
      PROVE  Redact(t) \in Seq(W)
  <2>1. /\ Redact(t) \in Seq(Clean) /\ Redact(t) \in Text
        /\ ~Detect(Redact(t))
    BY <1>2, RedactType, DetectRedacted
  <2>2. \A i \in 1..Len(Redact(t)) : Redact(t)[i] \in W
    BY <2>1, RangeEquality DEF Detect
  <2> QED
    BY <2>1, <2>2
<1>3. \A t \in Text : ~Stops(t, "Block") => Redact(t) \in Seq(W)
  BY <1>2, RedactType, DetectRedacted DEF Stops
<1> QED
  BY <1>1, <1>3 DEF Permits

\* A text without an injection is one of words other than that.
LEMMA Harmless ==
  ASSUME NEW t \in Text
  PROVE  ~Detect(t) <=> t \in Seq(Words \ {"inj"})
<1>1. Detect(t) <=> \E i \in 1..Len(t) : t[i] = "inj"
  BY RangeEquality DEF Detect, Text
<1> QED
  BY <1>1 DEF Text

\* Neither shortening nor rendering brings in an injection.
LEMMA StaysHarmless ==
  ASSUME NEW t \in Text, ~Detect(t), NEW max \in Nat
  PROVE  /\ Truncate(t, max) \in Text /\ ~Detect(Truncate(t, max))
         /\ ~Detect(Prepared(t))
<1> DEFINE W == Words \ {"inj"}
<1>1. Plain \subseteq W /\ W \subseteq Words /\ t \in Seq(W)
  BY Harmless DEF Plain
<1>2. Truncate(t, max) \in Seq(W)
  BY <1>1, TruncateType
<1>3. Redact(t) \in Seq(W)
  BY <1>1, RedactWithin
<1>4. Prepared(t) \in Seq(W)
  BY <1>1, <1>3, WrapType DEF Prepared
<1>5. \A s \in Seq(W) : s \in Text /\ ~Detect(s)
  BY Harmless DEF Text
<1> QED
  BY <1>2, <1>4, <1>5

\* With room for a word behind the envelope a notice is legible.
LEMMA Legible ==
  ASSUME NEW w \in Notices, NEW max \in Nat, max > Overhead
  PROVE  w \in Range(External(<<w>>, max))
<1> DEFINE t == <<w>>
<1>1. /\ Header \in Text /\ Footer \in Text /\ Marker \in Text
      /\ w \in Words /\ w \notin {"key", "home"}
  BY NoticesPlain DEF Text, Words, Notices, Reasons
<1>2. t \in Text /\ Len(t) = 1 /\ t[1] = w
  BY <1>1 DEF Text
<1>3. Redact(t) = t
  <2>1. /\ Redact(t) \in Text /\ Len(Redact(t)) = 1
        /\ Redact(t)[1] = w
    BY <1>1, <1>2, RedactType
  <2> QED
    BY <1>2, <2>1, SeqEqual DEF Text
<1>4. Overhead \in Nat /\ max - Overhead \in Nat /\ Len(t) <= max - Overhead
  BY <1>1, <1>2, LenProperties DEF Overhead, Text
<1>5. FitToBudget(t, max - Overhead) = t
  BY <1>2, <1>4 DEF FitToBudget
<1>6. External(t, max) = Wrap(t)
  BY <1>3, <1>4, <1>5 DEF External, PayloadBudget, WrapBounded
<1> DEFINE u == Header \o t
<1> HIDE DEF t
<1>7. w \in Range(t)
  BY <1>2, RangeEquality DEF Text
<1>8. u \in Text /\ Range(t) \subseteq Range(u)
  BY <1>1, <1>2, ConcatProperties, RangeConcatenation DEF Text
<1>9. Wrap(t) = u \o Footer
  BY DEF Wrap
<1> HIDE DEF u
<1>10. Range(u) \subseteq Range(u \o Footer)
  BY <1>1, <1>8, RangeConcatenation DEF Text
<1>11. w \in Range(External(t, max))
  BY <1>6, <1>7, <1>8, <1>9, <1>10
<1> QED
  BY <1>11 DEF t

-------------------------------------------------------------------------------
(* Calls.                                                                    *)

Sinks == {"stdout", "stderr", "file"}
Whats == {"payload", "warning", "status", "error", "stats", "json", "gaps",
          "receipt", "legacy"}

Statistics ==
    [code : Nat \cup {None}, warned : BOOLEAN, command : Commands]

\* Outputs that list names, whatever the policy.
Lists == {"gaps", "stats", "json"}

Within(c, W) == c.what \notin Lists => c.text \in Seq(W)

Entries(W) ==
    {c \in [to : Sinks, what : Whats, text : Seq(Clean)] : Within(c, W)}
Emits(W) ==
    {c \in [do : {"emit"}, to : Sinks, what : Whats, text : Seq(Clean)] :
        Within(c, W)}
Keeps      == [do : {"keep"}, content : Kept \X Kept, stats : Statistics]

Calls == Emits(Words) \cup Keeps \cup [do : {"receipt"}]
            \cup [do : {"exit"}, code : Nat]

\* What a list of writes will have written.
Said(a) == {Entry(c) : c \in Range(a)}

Has(E, what) == \E e \in E : e.what = what

\* A write is a list of one call.
LEMMA EmitAny ==
  ASSUME NEW W, NEW to \in Sinks, NEW what \in Whats, NEW t \in Seq(Clean),
         what \notin Lists => t \in Seq(W)
  PROVE  /\ Emit(to, what, t) \in Seq(Emits(W))
         /\ \E e \in Said(Emit(to, what, t)) : TRUE
         /\ \A e \in Said(Emit(to, what, t)) :
               e.to = to /\ e.what = what /\ e.text = t
<1> DEFINE c == [do |-> "emit", to |-> to, what |-> what, text |-> t]
<1>1. c \in Emits(W) /\ Entry(c).to = to /\ Entry(c).what = what
      /\ Entry(c).text = t
  BY DEF Emits, Entry, Within
<1>2. Emit(to, what, t) = <<c>>
  BY DEF Emit
<1> HIDE DEF c
<1>3. <<c>> \in Seq(Emits(W)) /\ Len(<<c>>) = 1 /\ <<c>>[1] = c
  BY <1>1
<1>4. <<c>>[1] \in Range(<<c>>)
  <2>1. Range(<<c>>) = {<<c>>[i] : i \in 1..Len(<<c>>)}
    BY <1>3, RangeEquality
  <2> QED
    BY <1>3, <2>1
<1>5. Range(<<c>>) \in SUBSET {c}
  <2>1. <<c>> \in Seq({c})
    OBVIOUS
  <2> QED
    BY <2>1, RangeOfSeq
<1> QED
  BY <1>1, <1>2, <1>3, <1>4, <1>5 DEF Said

\* So is one of permitted words, and one of names.
LEMMA EmitType ==
  ASSUME NEW W, NEW pia, Permits(W, pia), NEW to \in Sinks,
         NEW what \in Whats, NEW t \in Seq(W)
  PROVE  /\ Emit(to, what, t) \in Seq(Emits(W))
         /\ \E e \in Said(Emit(to, what, t)) : TRUE
         /\ \A e \in Said(Emit(to, what, t)) :
               e.to = to /\ e.what = what /\ e.text = t
<1>1. t \in Seq(Clean)
  BY DEF Permits
<1> QED
  BY <1>1, EmitAny

LEMMA ListType ==
  ASSUME NEW W, NEW to \in Sinks, NEW what \in Lists, NEW t \in Seq(Clean)
  PROVE  /\ Emit(to, what, t) \in Seq(Emits(W))
         /\ \E e \in Said(Emit(to, what, t)) : TRUE
         /\ \A e \in Said(Emit(to, what, t)) :
               e.to = to /\ e.what = what /\ e.text = t
<1>1. what \in Whats
  BY DEF Lists, Whats
<1> QED
  BY <1>1, EmitAny

\* Lists of writes add up.
LEMMA SaidConcat ==
  ASSUME NEW W, NEW a \in Seq(Emits(W)), NEW b \in Seq(Emits(W))
  PROVE  /\ a \o b \in Seq(Emits(W))
         /\ Said(a \o b) = Said(a) \cup Said(b)
<1>1. Range(a \o b) = Range(a) \cup Range(b)
  BY RangeConcatenation
<1> QED
  BY <1>1, ConcatProperties DEF Said

\* No writes say nothing.
LEMMA SaidNothing ==
  ASSUME NEW W
  PROVE  << >> \in Seq(Emits(W)) /\ Said(<< >>) = {}
<1>1. Range(<< >>) \in SUBSET {}
  <2>1. << >> \in Seq({})
    BY EmptySeq
  <2> QED
    BY <2>1, RangeOfSeq
<1> QED
  BY <1>1, EmptySeq DEF Said

\* What is said has the type of what is written.
LEMMA SaidType ==
  ASSUME NEW W, NEW a \in Seq(Emits(W))
  PROVE  Said(a) \subseteq Entries(W)
<1>1. \A c \in Emits(W) : Entry(c) \in Entries(W)
  BY DEF Emits, Entries, Entry, Within
<1> QED
  BY <1>1, RangeOfSeq DEF Said

\* Writes that a policy permits are calls.
LEMMA EmitsAreCalls ==
  ASSUME NEW W, W \subseteq Words, NEW a \in Seq(Emits(W))
  PROVE  a \in Seq(Calls)
<1>1. Emits(W) \subseteq Calls
  BY DEF Emits, Calls, Within
<1> QED
  BY <1>1

\* The single calls, as lists.
LEMMA QuitType ==
  ASSUME NEW c \in Nat
  PROVE  /\ Quit(c) \in Seq(Calls) /\ Quit(c) # << >> /\ Tail(Quit(c)) = << >>
         /\ Head(Quit(c)) = [do |-> "exit", code |-> c]
  BY DEF Quit, Calls

LEMMA ReceiptType ==
  /\ Receipt \in Seq(Calls) /\ Receipt # << >> /\ Tail(Receipt) = << >>
  /\ Head(Receipt) = [do |-> "receipt"]
  BY DEF Receipt, Calls

LEMMA KeepType ==
  ASSUME NEW k \in Keeps
  PROVE  /\ <<k>> \in Seq(Calls) /\ <<k>> # << >> /\ Tail(<<k>>) = << >>
         /\ Head(<<k>>) = k
  BY DEF Calls

\* The statistics of a command line are known ones.
LEMMA StatsType ==
  ASSUME NEW code \in Nat \cup {None}, NEW warned \in BOOLEAN,
         request \in Requests
  PROVE  /\ StatsOf(code, warned) \in Statistics
         /\ StatsOf(code, warned).code = code
         /\ StatsOf(code, warned).warned = warned
  BY DEF StatsOf, Statistics, Commands

\* The program's own words may be written under every policy.
LEMMA NoticeType ==
  ASSUME NEW W, NEW pia, Permits(W, pia), NEW w \in Notices, NEW max \in Nat
  PROVE  /\ <<w>> \in Text /\ <<w>> \in Seq(W)
         /\ Prepared(<<w>>) \in Seq(W) /\ External(<<w>>, max) \in Seq(W)
<1>1. w \in Plain
  BY DEF Plain, Words, Notices, Reasons
<1>2. Plain \subseteq W /\ W \subseteq Words
  BY DEF Permits
<1>3. <<w>> \in Seq(W) /\ <<w>> \in Text
  BY <1>1, <1>2 DEF Text
<1>4. Redact(<<w>>) \in Seq(W)
  BY <1>2, <1>3, RedactWithin
<1> QED
  BY <1>2, <1>3, <1>4, WrapType, ExternalType DEF Prepared

\* Statistics are clean.
LEMMA StatsTextType ==
  ASSUME NEW stats \in Statistics
  PROVE  /\ Redact(StatsText(stats)) \in Seq(Clean)
         /\ Prepared(StatsText(stats)) \in Seq(Clean)
<1>1. /\ Plain \subseteq Clean /\ Clean \subseteq Words
      /\ Permits(Clean, "Block")
  BY PermitsClean DEF Permits
<1>2. stats.command \in Seq(Clean)
  BY CommandsClean DEF Statistics
<1>3. <<"stats">> \in Seq(Clean)
  <2>1. "stats" \in Notices /\ 0 \in Nat
    BY DEF Notices
  <2> QED
    BY <1>1, <2>1, NoticeType
<1>4. StatsText(stats) \in Seq(Clean)
  BY <1>2, <1>3, ConcatProperties DEF StatsText
<1>5. Redact(StatsText(stats)) \in Seq(Clean)
  BY <1>1, <1>4, RedactWithin
<1> QED
  BY <1>1, <1>5, WrapType DEF Prepared

\* They are printed, and written to the JSON file, redacted.
LEMMA PrintStatsType ==
  ASSUME NEW W, NEW stats \in Statistics
  PROVE  /\ PrintStats(stats) \in Seq(Emits(W))
         /\ Has(Said(PrintStats(stats)), "stats")
         /\ ~Has(Said(PrintStats(stats)), "payload")
         /\ WriteJson(stats) \in Seq(Emits(W))
         /\ ~Has(Said(WriteJson(stats)), "payload")
<1>1. "stats" \in Lists /\ "json" \in Lists /\ "stderr" \in Sinks
      /\ "file" \in Sinks
  BY DEF Lists, Sinks
<1>2. /\ Redact(StatsText(stats)) \in Seq(Clean)
      /\ Prepared(StatsText(stats)) \in Seq(Clean)
  BY StatsTextType
<1>3. /\ PrintStats(stats) \in Seq(Emits(W))
      /\ \A e \in Said(PrintStats(stats)) : e.what = "stats"
      /\ \E e \in Said(PrintStats(stats)) : e.what = "stats"
  BY <1>1, <1>2, ListType DEF PrintStats
<1>4. /\ WriteJson(stats) \in Seq(Emits(W))
      /\ \A e \in Said(WriteJson(stats)) : e.what = "json"
  BY <1>1, <1>2, ListType DEF WriteJson
<1> QED
  BY <1>3, <1>4 DEF Has

\* The list of what a search passed over is printed redacted too.
LEMMA ListGapsType ==
  ASSUME NEW W, NEW names \in Names
  PROVE  /\ ListGaps(names) \in Seq(Emits(W))
         /\ ~Has(Said(ListGaps(names)), "payload")
<1> DEFINE t == <<"diagnostics">> \o names
<1>1. Plain \subseteq Clean /\ Clean \subseteq Words
  BY DEF Plain, Clean
<1>2. <<"diagnostics">> \in Text /\ names \in Text
  BY InputsKnown DEF Text, Words, Notices
<1>3. t \in Text
  BY <1>2, ConcatProperties DEF Text
<1> HIDE DEF t
<1>4. Redact(t) \in Seq(Clean) /\ Redact(t) \in Text
  BY <1>3, RedactType
<1>5. Redact(Redact(t)) \in Seq(Clean)
  BY <1>4, RedactType
<1>6. Prepared(Redact(t)) \in Seq(Clean)
  BY <1>1, <1>5, WrapType DEF Prepared
<1>7. /\ ListGaps(names) = Emit("stderr", "gaps", Prepared(Redact(t)))
      /\ "gaps" \in Lists /\ "stderr" \in Sinks
  BY DEF ListGaps, t, Lists, Sinks
<1> QED
  BY <1>6, <1>7, ListType DEF Has

LEMMA StatusType ==
  ASSUME NEW W, NEW pia, Permits(W, pia)
  PROVE  Status \in Seq(Emits(W))
<1>1. "status" \in Notices /\ "status" \in Whats /\ "stdout" \in Sinks
      /\ 0 \in Nat
  BY DEF Notices, Whats, Sinks
<1>2. Prepared(<<"status">>) \in Seq(W)
  BY <1>1, NoticeType
<1> QED
  BY <1>1, <1>2, EmitType DEF Status

\* The line of emit_error.
Complaint == Emit("stderr", "error", Prepared(<<"error">>))

\* A failure is that line and the exit.
LEMMA ComplaintType ==
  ASSUME NEW W, NEW pia, Permits(W, pia)
  PROVE  /\ Complaint \in Seq(Emits(W))
         /\ \A e \in Said(Complaint) : e.what = "error"
         /\ \A c : Failure(c) = Complaint \o Quit(c)
<1>1. "error" \in Notices /\ "error" \in Whats /\ "stderr" \in Sinks
      /\ 0 \in Nat
  BY DEF Notices, Whats, Sinks
<1>2. Prepared(<<"error">>) \in Seq(W)
  BY <1>1, NoticeType
<1> QED
  BY <1>1, <1>2, EmitType DEF Complaint, Failure

\* A warning is said legibly when there is room for it.
LEMMA WarnType ==
  ASSUME NEW W, NEW pia, Permits(W, pia), NEW warned \in BOOLEAN,
         request.max \in Nat
  PROVE  /\ Warn(warned) \in Seq(Emits(W))
         /\ ~Has(Said(Warn(warned)), "payload")
         /\ warned => Has(Said(Warn(warned)), "warning")
         /\ warned /\ request.max > Overhead =>
               \E e \in Said(Warn(warned)) :
                  e.what = "warning" /\ "warning" \in Range(e.text)
<1>1. "warning" \in Notices /\ "warning" \in Whats /\ "stderr" \in Sinks
  BY DEF Notices, Whats, Sinks
<1> DEFINE t == External(<<"warning">>, request.max)
<1>2. t \in Seq(W) /\ (request.max > Overhead => "warning" \in Range(t))
  BY <1>1, NoticeType, Legible
<1> HIDE DEF t
<1>3. CASE warned
  <2>1. Warn(warned) = Emit("stderr", "warning", t)
    BY <1>3 DEF Warn, t
  <2>2. /\ Emit("stderr", "warning", t) \in Seq(Emits(W))
        /\ \E e \in Said(Emit("stderr", "warning", t)) : TRUE
        /\ \A e \in Said(Emit("stderr", "warning", t)) :
              e.what = "warning" /\ e.text = t
    BY <1>1, <1>2, EmitType
  <2> QED
    BY <1>2, <2>1, <2>2 DEF Has
<1>4. CASE ~warned
  BY <1>4, SaidNothing DEF Warn, Has
<1> QED
  BY <1>3, <1>4

\* What is shown has passed the policy; it shows an injection only if the text
\* it is made of has one.
LEMMA ShowType ==
  ASSUME NEW W, NEW pia, Permits(W, pia), NEW to \in Sinks, NEW t \in Text
  PROVE  /\ Show(to, t, pia) \in Seq(Emits(W))
         /\ \A e \in Said(Show(to, t, pia)) :
               e.what = "payload" /\ e.to = to /\ (Detect(e.text) => Detect(t))
         /\ ~Stops(t, pia) => \E e \in Said(Show(to, t, pia)) : TRUE
<1>1. "payload" \in Whats
  BY DEF Whats
<1>2. CASE Stops(t, pia)
  BY <1>2, SaidNothing DEF Show
<1>3. CASE ~Stops(t, pia)
  <2>1. Plain \subseteq W /\ Redact(t) \in Seq(W)
    BY <1>3 DEF Permits
  <2>2. Prepared(t) \in Seq(W)
    BY <2>1, WrapType DEF Prepared
  <2>3. 0 \in Nat /\ (Detect(Prepared(t)) => Detect(t))
    BY StaysHarmless
  <2>4. /\ Emit(to, "payload", Prepared(t)) \in Seq(Emits(W))
        /\ \E e \in Said(Emit(to, "payload", Prepared(t))) : TRUE
        /\ \A e \in Said(Emit(to, "payload", Prepared(t))) :
              e.what = "payload" /\ e.to = to /\ e.text = Prepared(t)
    BY <1>1, <2>2, EmitType
  <2>5. Show(to, t, pia) = Emit(to, "payload", Prepared(t))
    BY <1>3 DEF Show
  <2> QED
    BY <2>3, <2>4, <2>5
<1> QED
  BY <1>2, <1>3

-------------------------------------------------------------------------------
(* Scripts: what is left of a handler before it stores a run, before it      *)
(* prints the receipt, and after that.                                       *)

AtEnd(a, c)           == a \o Quit(c)
AtReceipt(a, d, c)    == a \o (Receipt \o AtEnd(d, c))
AtKeep(a, k, b, d, c) == a \o (<<k>> \o AtReceipt(b, d, c))

\* A list of calls begins with the first of its parts.
LEMMA Leads ==
  ASSUME NEW S, NEW a \in Seq(S), NEW r \in Seq(S), r # << >>
  PROVE  /\ a \o r \in Seq(S) /\ a \o r # << >>
         /\ a = << >> => a \o r = r
         /\ a # << >> =>
               /\ Head(a \o r) = Head(a) /\ Tail(a) \in Seq(S)
               /\ Tail(a \o r) = Tail(a) \o r
<1>1. /\ a \o r \in Seq(S) /\ Len(a \o r) = Len(a) + Len(r)
      /\ Len(a) \in Nat /\ Len(r) \in Nat \ {0}
      /\ \A i \in 1..Len(a) + Len(r) :
            (a \o r)[i] = IF i <= Len(a) THEN a[i] ELSE r[i - Len(a)]
  BY ConcatProperties, EmptySeq, LenProperties
<1>2. a \o r # << >>
  BY <1>1
<1>3. a = << >> => a \o r = r
  BY ConcatEmptySeq
<1>4. ASSUME a # << >>
      PROVE  /\ Head(a \o r) = Head(a) /\ Tail(a) \in Seq(S)
             /\ Tail(a \o r) = Tail(a) \o r
  <2>1. Len(a) \in Nat \ {0}
    BY <1>1, <1>4, EmptySeq
  <2>2. Head(a \o r) = Head(a)
    BY <1>1, <2>1
  <2>3. /\ Tail(a) \in Seq(S) /\ Len(Tail(a)) = Len(a) - 1
        /\ \A i \in 1..Len(a) - 1 : Tail(a)[i] = a[i + 1]
    BY <1>4, HeadTailProperties
  <2>4. /\ Tail(a \o r) \in Seq(S) /\ Len(Tail(a \o r)) = Len(a) + Len(r) - 1
        /\ \A i \in 1..Len(a) + Len(r) - 1 : Tail(a \o r)[i] = (a \o r)[i + 1]
    BY <1>1, <1>2, HeadTailProperties
  <2>5. /\ Tail(a) \o r \in Seq(S)
        /\ Len(Tail(a) \o r) = Len(a) - 1 + Len(r)
        /\ \A i \in 1..Len(a) - 1 + Len(r) :
              (Tail(a) \o r)[i] = IF i <= Len(a) - 1 THEN Tail(a)[i]
                                  ELSE r[i - (Len(a) - 1)]
    BY <2>3, ConcatProperties
  <2>6. \A i \in 1..Len(a) + Len(r) - 1 :
           Tail(a \o r)[i] = (Tail(a) \o r)[i]
    <3> SUFFICES ASSUME NEW i \in 1..Len(a) + Len(r) - 1
                 PROVE  Tail(a \o r)[i] = (Tail(a) \o r)[i]
      OBVIOUS
    <3>1. Tail(a \o r)[i] = (a \o r)[i + 1] /\ i + 1 \in 1..Len(a) + Len(r)
      BY <1>1, <2>4
    <3>2. CASE i <= Len(a) - 1
      BY <1>1, <2>1, <2>3, <2>5, <3>1, <3>2
    <3>3. CASE i > Len(a) - 1
      <4>1. (Tail(a) \o r)[i] = r[i - (Len(a) - 1)]
        BY <1>1, <2>1, <2>5, <3>3
      <4>2. (a \o r)[i + 1] = r[i + 1 - Len(a)]
        BY <1>1, <2>1, <3>1, <3>3
      <4>3. i + 1 - Len(a) = i - (Len(a) - 1)
        BY <2>1
      <4> QED
        BY <3>1, <4>1, <4>2, <4>3
    <3> QED
      BY <2>1, <3>2, <3>3
  <2> QED
    BY <1>1, <2>1, <2>2, <2>3, <2>4, <2>5, <2>6, SeqEqual
<1> QED
  BY <1>1, <1>2, <1>3, <1>4

\* Concatenation of calls is associative.
LEMMA Assoc ==
  ASSUME NEW s \in Seq(Calls), NEW t \in Seq(Calls), NEW u \in Seq(Calls)
  PROVE  (s \o t) \o u = s \o (t \o u)
  BY ConcatAssociative

\* The stages are lists of calls.
LEMMA EndType ==
  ASSUME NEW a \in Seq(Calls), NEW c \in Nat
  PROVE  AtEnd(a, c) \in Seq(Calls) /\ AtEnd(a, c) # << >>
<1> DEFINE q == Quit(c)
<1>1. q \in Seq(Calls) /\ q # << >> /\ AtEnd(a, c) = a \o q
  BY QuitType DEF AtEnd
<1> HIDE DEF q
<1> QED
  BY <1>1, Leads

LEMMA ReceiptEndType ==
  ASSUME NEW a \in Seq(Calls), NEW d \in Seq(Calls), NEW c \in Nat
  PROVE  /\ AtReceipt(a, d, c) \in Seq(Calls) /\ AtReceipt(a, d, c) # << >>
         /\ Receipt \o AtEnd(d, c) \in Seq(Calls)
         /\ Receipt \o AtEnd(d, c) # << >>
         /\ Head(Receipt \o AtEnd(d, c)) = [do |-> "receipt"]
         /\ Tail(Receipt \o AtEnd(d, c)) = AtEnd(d, c)
<1> DEFINE e == AtEnd(d, c)
<1>1. e \in Seq(Calls) /\ e # << >>
  BY EndType
<1> HIDE DEF e
<1>2. << >> \o e = e
  BY <1>1, ConcatEmptySeq
<1>3. /\ Receipt \o e \in Seq(Calls) /\ Receipt \o e # << >>
      /\ Head(Receipt \o e) = [do |-> "receipt"] /\ Tail(Receipt \o e) = e
  <2>1. Receipt \in Seq(Calls) /\ Receipt # << >>
    BY ReceiptType
  <2>2. /\ Receipt \o e \in Seq(Calls) /\ Receipt \o e # << >>
        /\ Head(Receipt \o e) = Head(Receipt)
        /\ Tail(Receipt \o e) = Tail(Receipt) \o e
    BY <1>1, <2>1, Leads
  <2>3. Head(Receipt) = [do |-> "receipt"] /\ Tail(Receipt) = << >>
    BY ReceiptType
  <2> QED
    BY <1>2, <2>2, <2>3
<1> DEFINE r == Receipt \o AtEnd(d, c)
<1>4. AtReceipt(a, d, c) = a \o r
  BY DEF AtReceipt
<1> HIDE DEF r
<1>5. r \in Seq(Calls) /\ r # << >>
  BY <1>3 DEF r, e
<1>6. AtReceipt(a, d, c) \in Seq(Calls) /\ AtReceipt(a, d, c) # << >>
  BY <1>4, <1>5, Leads
<1> QED
  BY <1>3, <1>6 DEF e

LEMMA KeepEndType ==
  ASSUME NEW a \in Seq(Calls), NEW b \in Seq(Calls), NEW d \in Seq(Calls),
         NEW k \in Keeps, NEW c \in Nat
  PROVE  /\ AtKeep(a, k, b, d, c) \in Seq(Calls)
         /\ AtKeep(a, k, b, d, c) # << >>
         /\ <<k>> \o AtReceipt(b, d, c) \in Seq(Calls)
         /\ <<k>> \o AtReceipt(b, d, c) # << >>
         /\ Head(<<k>> \o AtReceipt(b, d, c)) = k
         /\ Tail(<<k>> \o AtReceipt(b, d, c)) = AtReceipt(b, d, c)
<1> DEFINE r == AtReceipt(b, d, c)
<1>1. r \in Seq(Calls) /\ r # << >>
  BY ReceiptEndType
<1> HIDE DEF r
<1>2. << >> \o r = r
  BY <1>1, ConcatEmptySeq
<1>3. /\ <<k>> \o r \in Seq(Calls) /\ <<k>> \o r # << >>
      /\ Head(<<k>> \o r) = k /\ Tail(<<k>> \o r) = r
  BY <1>1, <1>2, KeepType, Leads
<1>4. a \o (<<k>> \o r) \in Seq(Calls) /\ a \o (<<k>> \o r) # << >>
  BY <1>3, Leads
<1> QED
  BY <1>3, <1>4 DEF AtKeep, r

\* How handlers are put together.
LEMMA EndPrefixed ==
  ASSUME NEW u \in Seq(Calls), NEW a \in Seq(Calls), NEW c \in Nat
  PROVE  u \o AtEnd(a, c) = AtEnd(u \o a, c)
<1> DEFINE q == Quit(c)
<1>1. q \in Seq(Calls)
  BY QuitType
<1>2. AtEnd(a, c) = a \o q /\ AtEnd(u \o a, c) = (u \o a) \o q
  BY DEF AtEnd
<1> HIDE DEF q
<1>3. (u \o a) \o q = u \o (a \o q)
  BY <1>1, Assoc, SMTT(60)
<1> QED
  BY <1>2, <1>3

LEMMA KeepPrefixed ==
  ASSUME NEW u \in Seq(Calls), NEW a \in Seq(Calls), NEW b \in Seq(Calls),
         NEW d \in Seq(Calls), NEW k \in Keeps, NEW c \in Nat
  PROVE  u \o AtKeep(a, k, b, d, c) = AtKeep(u \o a, k, b, d, c)
<1> DEFINE r == <<k>> \o AtReceipt(b, d, c)
<1>1. r \in Seq(Calls)
  BY KeepEndType
<1>2. /\ AtKeep(a, k, b, d, c) = a \o r
      /\ AtKeep(u \o a, k, b, d, c) = (u \o a) \o r
  BY DEF AtKeep
<1> HIDE DEF r
<1>3. (u \o a) \o r = u \o (a \o r)
  BY <1>1, Assoc, SMTT(60)
<1> QED
  BY <1>2, <1>3

\* cat and grep store and print the receipt at once.
LEMMA PersistedAtOnce ==
  ASSUME NEW a \in Seq(Calls), NEW d \in Seq(Calls), NEW k \in Keeps,
         NEW c \in Nat
  PROVE  (a \o Persist(k.content, k.stats)) \o AtEnd(d, c)
            = AtKeep(a, k, << >>, d, c)
<1> DEFINE e == AtEnd(d, c)
<1>1. e \in Seq(Calls)
  BY EndType
<1>2. Persist(k.content, k.stats) = <<k>> \o Receipt
  <2>1. k = [do |-> "keep", content |-> k.content, stats |-> k.stats]
    BY DEF Keeps
  <2> QED
    BY <2>1 DEF Persist, Keep
<1> HIDE DEF e
<1>3. /\ <<k>> \in Seq(Calls) /\ Receipt \in Seq(Calls)
      /\ <<k>> \o Receipt \in Seq(Calls) /\ Receipt \o e \in Seq(Calls)
  BY <1>1, KeepType, ReceiptType, ConcatProperties
<1>4. (a \o (<<k>> \o Receipt)) \o e = a \o ((<<k>> \o Receipt) \o e)
  BY <1>1, <1>3, Assoc, SMTT(60)
<1>5. (<<k>> \o Receipt) \o e = <<k>> \o (Receipt \o e)
  BY <1>1, <1>3, Assoc, SMTT(60)
<1>6. << >> \o (Receipt \o e) = Receipt \o e
  BY <1>3, ConcatEmptySeq
<1> QED
  BY <1>2, <1>4, <1>5, <1>6 DEF AtKeep, AtReceipt, e

Around(a, k, j, p, c) ==
    a \o Keep(k.content, k.stats) \o j \o p \o Receipt \o Quit(c)

\* run writes its statistics in between.
LEMMA PersistedAround ==
  ASSUME NEW a \in Seq(Calls), NEW j \in Seq(Calls), NEW p \in Seq(Calls),
         NEW k \in Keeps, NEW c \in Nat
  PROVE  Around(a, k, j, p, c) = AtKeep(a, k, j \o p, << >>, c)
<1> DEFINE q  == Quit(c)
           x  == a \o <<k>>
           y  == x \o j
           z  == y \o p
           jp == j \o p
           rq == Receipt \o q
           v  == jp \o rq
<1>1. Keep(k.content, k.stats) = <<k>>
  <2>1. k = [do |-> "keep", content |-> k.content, stats |-> k.stats]
    BY DEF Keeps
  <2> QED
    BY <2>1 DEF Keep
<1>2. AtEnd(<< >>, c) = q /\ q \in Seq(Calls)
  BY QuitType, ConcatEmptySeq DEF AtEnd
<1>3. /\ <<k>> \in Seq(Calls) /\ Receipt \in Seq(Calls)
      /\ x \in Seq(Calls) /\ jp \in Seq(Calls) /\ rq \in Seq(Calls)
  BY <1>2, KeepType, ReceiptType, ConcatProperties
<1> HIDE DEF q
<1>4. rq = Receipt \o q /\ x = a \o <<k>> /\ jp = j \o p
  OBVIOUS
<1> HIDE DEF x, jp, rq
<1>5. y \in Seq(Calls) /\ v \in Seq(Calls) /\ v = jp \o rq
  BY <1>3, ConcatProperties
<1>6. z = x \o jp
  BY <1>3, <1>4, Assoc, SMTT(60)
<1> HIDE DEF y, v
<1>7. z \in Seq(Calls)
  BY <1>5, ConcatProperties
<1> HIDE DEF z
<1>8. (z \o Receipt) \o q = z \o rq
  BY <1>2, <1>3, <1>4, <1>7, Assoc, SMTT(60)
<1>9. (x \o jp) \o rq = x \o v
  BY <1>3, <1>5, Assoc, SMTT(60)
<1>10. (a \o <<k>>) \o v = a \o (<<k>> \o v)
  BY <1>3, <1>5, Assoc, SMTT(60)
<1>11. (z \o Receipt) \o q = a \o (<<k>> \o v)
  BY <1>4, <1>6, <1>8, <1>9, <1>10
<1>12. AtKeep(a, k, jp, << >>, c) = a \o (<<k>> \o v)
  BY <1>2, <1>4, <1>5 DEF AtKeep, AtReceipt
<1>13. (z \o Receipt) \o q = AtKeep(a, k, jp, << >>, c)
  BY <1>11, <1>12
<1> QED
  BY <1>1, <1>13 DEF Around, x, y, z, jp, q

-------------------------------------------------------------------------------
(* Accounts: what has to be said of a process that ends with the status c    *)
(* once it has said E.                                                       *)

Tells(E, max) ==
    /\ Has(E, "stats") /\ Has(E, "payload")
    /\ (\E e \in E : e.what = "payload" /\ Detect(e.text)) /\ max > Overhead =>
          \E e \in E : e.what = "warning" /\ "warning" \in Range(e.text)

\* The texts r are stored, and nothing but the redacted is different.
Same(content, r) ==
    \A i \in 1..2 :
       /\ Len(content[i]) = Len(r[i])
       /\ \A k \in DOMAIN r[i] :
             r[i][k] \notin {"key", "home", "crlf"}
                 => content[i][k] = r[i][k]

\* What cmd stored of a run that read r, f of its writes having failed.
Honest(cmd, k, r, E, c, f) ==
    /\ (cmd = "cat" => k.stats.code # 1) => Same(k.content, r)
    /\ f = 0 => Has(E, "stats")
    /\ f = 0 /\ k.content[1] # << >> =>
          \E e \in E : e.what = "payload" /\ e.to = "stdout"
    /\ f = 0 /\ k.content[2] # << >> =>
          \E e \in E : e.what = "payload" /\ e.to = "stderr"
    /\ c # 1 => k.stats.code = c \/ (k.stats.code = None /\ c = 0)

\* A handler is about to store what it read and say so.
Delivers(s, W, r) ==
    \E a, b, d \in Seq(Emits(W)), k \in Keeps, c \in Nat :
       /\ s = AtKeep(a, k, b, d, c)
       /\ c # 1 => Tells(Said(a) \cup Said(b) \cup Said(d), request.max)
       /\ Honest(request.cmd, k, r, Said(a) \cup Said(b) \cup Said(d), c, 0)
       /\ request.cmd # "run" => Has(Said(a), "stats")

\* A handler is about to say why it withholds what it read.
Withholds(s, W) ==
    \E a \in Seq(Emits(W)) : s = AtEnd(a, 1) /\ Has(Said(a), "warning")

\* A handler is about to fail, or to deliver.
Opens(s, W, r) ==
    (\E a \in Seq(Emits(W)) : s = AtEnd(a, 1)) \/ Delivers(s, W, r)

\* What is stored of a text.
LEMMA KeptType ==
  ASSUME NEW t \in Text
  PROVE  /\ Sanitize(t) \in Kept /\ Sanitize(Redact(t)) \in Kept
         /\ << >> \in Kept
         /\ Same(<<Sanitize(t), << >> >>, <<t, << >> >>)
<1>1. << >> \in Kept /\ Len(<< >>) = 0
  BY DEF Kept
<1>2. /\ Sanitize(t) \in Kept /\ Len(Sanitize(t)) = Len(t)
      /\ \A i \in 1..Len(t) :
            t[i] \notin {"key", "home", "crlf"} => Sanitize(t)[i] = t[i]
  BY SanitizeType
<1>3. Sanitize(Redact(t)) \in Kept
  BY RedactType, SanitizeType
<1>4. DOMAIN t = 1..Len(t) /\ DOMAIN << >> = {}
  BY DEF Text
<1>5. Same(<<Sanitize(t), << >> >>, <<t, << >> >>)
  BY <1>1, <1>2, <1>4 DEF Same
<1> QED
  BY <1>1, <1>2, <1>3, <1>5

\* It is the same when it was redacted before.
LEMMA KeptRedacted ==
  ASSUME NEW t \in Text, NEW u \in Text
  PROVE  /\ Same(<<Sanitize(Redact(t)), << >> >>, <<t, << >> >>)
         /\ Same(<<Sanitize(Redact(t)), Sanitize(Redact(u))>>, <<t, u>>)
<1>1. ASSUME NEW s \in Text
      PROVE  /\ Len(Sanitize(Redact(s))) = Len(s) /\ DOMAIN s = 1..Len(s)
             /\ \A i \in DOMAIN s :
                   s[i] \notin {"key", "home", "crlf"} =>
                      Sanitize(Redact(s))[i] = s[i]
  <2>1. /\ Redact(s) \in Text /\ Len(Redact(s)) = Len(s)
        /\ \A i \in 1..Len(s) : Redact(s)[i]
              = IF s[i] \in {"key", "home"} THEN "mask" ELSE s[i]
    BY RedactType
  <2>2. /\ Len(Sanitize(Redact(s))) = Len(Redact(s))
        /\ \A i \in 1..Len(Redact(s)) :
              Redact(s)[i] \notin {"key", "home", "crlf"} =>
                 Sanitize(Redact(s))[i] = Redact(s)[i]
    BY <2>1, SanitizeType
  <2>3. DOMAIN s = 1..Len(s)
    BY DEF Text
  <2> QED
    BY <2>1, <2>2, <2>3
<1>2. DOMAIN << >> = {} /\ Len(<< >>) = 0
  OBVIOUS
<1> QED
  BY <1>1, <1>2 DEF Same

\* What was shown in full or in part is told of.
LEMMA TellsAll ==
  ASSUME NEW W, NEW pia, Permits(W, pia), NEW warned \in BOOLEAN,
         NEW stats \in Statistics, request.max \in Nat,
         NEW a \in Seq(Emits(W)), NEW E, Has(Said(a), "payload"),
         \A e \in Said(a) : e.what = "payload" /\ Detect(e.text) => warned,
         Said(a) \cup Said(Warn(warned)) \cup Said(PrintStats(stats))
            \subseteq E,
         \A e \in E : e.what = "payload" => e \in Said(a)
  PROVE  Tells(E, request.max)
<1>1. Has(E, "stats") /\ Has(E, "payload")
  BY PrintStatsType DEF Has
<1>2. ASSUME \E e \in E : e.what = "payload" /\ Detect(e.text),
             request.max > Overhead
      PROVE  \E e \in E : e.what = "warning" /\ "warning" \in Range(e.text)
  <2>1. warned
    BY <1>2
  <2> QED
    BY <1>2, <2>1, WarnType
<1> QED
  BY <1>1, <1>2 DEF Tells

\* cat tells of what it blocks, and stores none of it.
LEMMA CatBlockedOpens ==
  ASSUME NEW W, Permits(W, request.pia), request \in Requests, NEW t \in Text,
         NEW r, request.cmd = "cat"
  PROVE  Delivers(CatBlocked(t), W, r)
<1> DEFINE stats == StatsOf(1, Detect(Redact(t)))
           k == [do |-> "keep", content |-> << << >>, << >> >>,
                 stats |-> stats]
           a == Status \o PrintStats(stats)
<1>1. stats \in Statistics /\ stats.code = 1
  <2>1. Detect(Redact(t)) \in BOOLEAN /\ 1 \in Nat \cup {None}
    BY DEF Detect
  <2> QED
    BY <2>1, StatsType
<1>2. k \in Keeps
  BY <1>1, KeptType DEF Keeps, Kept
<1> HIDE DEF stats
<1>3. W \subseteq Words
  BY DEF Permits
<1>4. /\ a \in Seq(Emits(W)) /\ Has(Said(a), "stats")
  BY <1>1, StatusType, PrintStatsType, SaidConcat DEF Has
<1>5. << >> \in Seq(Emits(W)) /\ << >> \in Seq(Calls)
  BY SaidNothing
<1>6. a \in Seq(Calls)
  BY <1>3, <1>4, EmitsAreCalls
<1>7. /\ k.content = << << >>, << >> >> /\ k.stats = stats
      /\ Quit(1) = AtEnd(<< >>, 1)
  BY QuitType, ConcatEmptySeq DEF AtEnd
<1>8. CatBlocked(t) = (a \o Persist(k.content, k.stats)) \o Quit(1)
  BY <1>7 DEF CatBlocked, stats
<1> HIDE DEF k, a
<1>9. CatBlocked(t) = AtKeep(a, k, << >>, << >>, 1)
  <2>1. (a \o Persist(k.content, k.stats)) \o AtEnd(<< >>, 1)
           = AtKeep(a, k, << >>, << >>, 1)
    BY <1>2, <1>5, <1>6, PersistedAtOnce
  <2> QED
    BY <1>7, <1>8, <2>1
<1> DEFINE E == Said(a) \cup Said(<< >>) \cup Said(<< >>)
<1>10. Honest(request.cmd, k, r, E, 1, 0)
  BY <1>1, <1>4, <1>7 DEF Honest, Has
<1> QED
  BY <1>2, <1>4, <1>5, <1>9, <1>10 DEF Delivers

\* cat shows what it stores.
LEMMA CatAnswerOpens ==
  ASSUME NEW W, Permits(W, request.pia), request \in Requests, NEW t \in Text,
         ~Stops(t, request.pia), request.cmd = "cat"
  PROVE  Delivers(CatAnswer(t), W, <<t, << >> >>)
<1> DEFINE u == IF request.action = "Redact" /\ Mentions(request.path)
                THEN Redact(t) ELSE t
           limited == Redact(Truncate(u, request.max))
           warned == Detect(limited)
           stats == StatsOf(0, warned)
           content == <<Sanitize(t), << >> >>
           k == [do |-> "keep", content |-> content, stats |-> stats]
           w == Warn(warned)
           s == Show("stdout", limited, request.pia)
           p == PrintStats(stats)
           x == w \o s
           a == x \o p
<1>1. request.max \in Nat /\ W \subseteq Words
  BY CommandsKnown DEF Permits
<1>2. u \in Text /\ (Detect(u) <=> Detect(t))
  BY RedactType, DetectRedacted
<1>3. Truncate(u, request.max) \in Text
  <2>1. Plain \subseteq Words
    BY DEF Plain
  <2> QED
    BY <1>1, <1>2, <2>1, TruncateType DEF Text
<1>4. limited \in Text
  BY <1>3, RedactType
<1>5. ~Stops(limited, request.pia)
  <2>1. CASE request.pia = "Block"
    <3>1. ~Detect(u)
      BY <1>2, <2>1, DetectRedacted DEF Stops
    <3>2. ~Detect(Truncate(u, request.max))
      BY <1>1, <1>2, <3>1, StaysHarmless
    <3> QED
      BY <1>3, <1>4, <3>2, DetectRedacted DEF Stops
  <2> QED
    BY <2>1 DEF Stops
<1>6. stats \in Statistics /\ stats.code = 0 /\ warned \in BOOLEAN
  <2>1. warned \in BOOLEAN /\ 0 \in Nat \cup {None}
    BY DEF Detect
  <2> QED
    BY <2>1, StatsType
<1>7. /\ CatAnswer(t) = (a \o Persist(k.content, k.stats)) \o Quit(0)
      /\ k.content = content /\ k.stats = stats
  BY DEF CatAnswer
<1>8. /\ k \in Keeps /\ Same(k.content, <<t, << >> >>)
      /\ k.content[2] = << >>
  BY <1>6, KeptType DEF Keeps
<1> HIDE DEF u, limited
<1>9. /\ w \in Seq(Emits(W)) /\ s \in Seq(Emits(W)) /\ p \in Seq(Emits(W))
      /\ Has(Said(p), "stats") /\ ~Has(Said(p), "payload")
      /\ ~Has(Said(w), "payload")
  BY <1>1, <1>4, <1>6, WarnType, ShowType, PrintStatsType DEF Sinks
<1>10. /\ \A e \in Said(s) : e.what = "payload" /\ e.to = "stdout"
             /\ (Detect(e.text) => warned)
       /\ \E e \in Said(s) : TRUE
  BY <1>4, <1>5, ShowType DEF Sinks
<1>11. Tells(Said(w) \cup Said(s) \cup Said(p), request.max)
  BY <1>1, <1>6, <1>9, <1>10, TellsAll DEF Has
<1> HIDE DEF stats, content, k, warned, w, s, p
<1>12. a \in Seq(Emits(W)) /\ Said(a) = Said(w) \cup Said(s) \cup Said(p)
  <2>1. x \in Seq(Emits(W)) /\ Said(x) = Said(w) \cup Said(s)
    BY <1>9, SaidConcat
  <2> HIDE DEF x
  <2>2. a \in Seq(Emits(W)) /\ Said(a) = Said(x) \cup Said(p)
    BY <1>9, <2>1, SaidConcat
  <2> QED
    BY <2>1, <2>2
<1> HIDE DEF a
<1>13. << >> \in Seq(Emits(W)) /\ Said(<< >>) = {} /\ << >> \in Seq(Calls)
  BY SaidNothing
<1>14. a \in Seq(Calls) /\ Quit(0) = AtEnd(<< >>, 0)
  BY <1>1, <1>12, EmitsAreCalls, QuitType, ConcatEmptySeq DEF AtEnd
<1>15. CatAnswer(t) = AtKeep(a, k, << >>, << >>, 0)
  <2>1. (a \o Persist(k.content, k.stats)) \o AtEnd(<< >>, 0)
           = AtKeep(a, k, << >>, << >>, 0)
    BY <1>8, <1>13, <1>14, PersistedAtOnce
  <2> QED
    BY <1>7, <1>14, <2>1
<1>16. Said(a) \cup Said(<< >>) \cup Said(<< >>) = Said(a)
  BY <1>13
<1>17. Honest(request.cmd, k, <<t, << >> >>, Said(a), 0, 0)
  BY <1>6, <1>7, <1>8, <1>9, <1>10, <1>12 DEF Honest, Has
<1>18. Has(Said(a), "stats")
  BY <1>9, <1>12 DEF Has
<1> QED
  BY <1>8, <1>11, <1>12, <1>13, <1>15, <1>16, <1>17, <1>18 DEF Delivers

\* cat does one or the other.
LEMMA CatOpens ==
  ASSUME NEW W, Permits(W, request.pia), request \in Requests, NEW t \in Text,
         request.cmd = "cat"
  PROVE  Delivers(Cat(t), W, <<t, << >> >>)
  BY CatBlockedOpens, CatAnswerOpens DEF Cat

\* grep says all before it stores, and stores before it fails as partial; what
\* it withholds it has warned of.
LEMMA GrepOpens ==
  ASSUME NEW W, Permits(W, request.pia), request \in Requests, NEW t \in Text,
         NEW partial \in BOOLEAN, NEW names \in Names
  PROVE  \/ Delivers(Grep(t, partial, names), W, <<t, << >> >>)
         \/ Withholds(Grep(t, partial, names), W)
<1> DEFINE limited == Redact(Truncate(Redact(t), MaxLines))
           warned == Detect(limited)
           code == IF partial THEN 2 ELSE 0
           stats == StatsOf(code, warned)
           content == <<Sanitize(Redact(t)), << >> >>
           k == [do |-> "keep", content |-> content, stats |-> stats]
           w == Warn(warned)
           g == IF partial THEN ListGaps(names) ELSE << >>
           s == Show("stdout", limited, request.pia)
           p == PrintStats(stats)
           d == IF partial THEN Complaint ELSE << >>
           x == w \o g
           y == x \o s
           a == y \o p
<1>1. request.max \in Nat /\ W \subseteq Words
  BY CommandsKnown DEF Permits
<1>2. limited \in Text
  <2>1. Plain \subseteq Words /\ MaxLines \in Nat /\ Redact(t) \in Seq(Words)
    BY RedactType, InputsKnown DEF Plain, Text
  <2>2. Truncate(Redact(t), MaxLines) \in Text
    BY <2>1, TruncateType DEF Text
  <2> QED
    BY <2>2, RedactType
<1>3. /\ stats \in Statistics /\ stats.code = code /\ warned \in BOOLEAN
      /\ code \in Nat
  <2>1. warned \in BOOLEAN /\ code \in Nat
    BY DEF Detect
  <2> QED
    BY <2>1, StatsType
<1>4. /\ Grep(t, partial, names)
            = y \o (IF Stops(limited, request.pia) THEN Quit(1)
                    ELSE p \o Persist(k.content, k.stats)
                           \o (IF partial THEN Failure(2) ELSE Quit(0)))
      /\ k.content = content /\ k.stats = stats
  BY DEF Grep
<1>5. /\ k \in Keeps /\ Same(k.content, <<t, << >> >>)
      /\ k.content[2] = << >>
  BY <1>3, KeptType, KeptRedacted DEF Keeps
<1> HIDE DEF limited
<1>6. /\ w \in Seq(Emits(W)) /\ s \in Seq(Emits(W)) /\ p \in Seq(Emits(W))
      /\ Has(Said(p), "stats") /\ ~Has(Said(p), "payload")
      /\ ~Has(Said(w), "payload")
      /\ \A e \in Said(s) : e.what = "payload" /\ e.to = "stdout"
            /\ (Detect(e.text) => warned)
      /\ ~Stops(limited, request.pia) => \E e \in Said(s) : TRUE
      /\ Stops(limited, request.pia) => Has(Said(w), "warning")
  <2>1. Stops(limited, request.pia) => warned
    BY <1>2, DetectRedacted DEF Stops
  <2> QED
    BY <1>1, <1>2, <1>3, <2>1, WarnType, ShowType, PrintStatsType DEF Sinks
<1>7. << >> \in Seq(Emits(W)) /\ Said(<< >>) = {} /\ << >> \in Seq(Calls)
  BY SaidNothing
<1>8. g \in Seq(Emits(W)) /\ ~Has(Said(g), "payload")
  BY <1>7, ListGapsType DEF Has
<1>9. /\ d \in Seq(Emits(W)) /\ \A e \in Said(d) : e.what = "error"
      /\ (IF partial THEN Failure(2) ELSE Quit(0)) = AtEnd(d, code)
  BY <1>7, ComplaintType, QuitType, ConcatEmptySeq DEF AtEnd
<1> HIDE DEF stats, content, k, warned, w, g, s, p, d, code
<1>10. x \in Seq(Emits(W)) /\ Said(x) = Said(w) \cup Said(g)
  BY <1>6, <1>8, SaidConcat
<1> HIDE DEF x
<1>11. y \in Seq(Emits(W)) /\ Said(y) = Said(x) \cup Said(s)
  BY <1>6, <1>10, SaidConcat
<1> HIDE DEF y
<1>12. CASE Stops(limited, request.pia)
  <2>1. Grep(t, partial, names) = AtEnd(y, 1)
    BY <1>4, <1>12 DEF AtEnd
  <2>2. Has(Said(y), "warning")
    BY <1>6, <1>10, <1>11, <1>12 DEF Has
  <2> QED
    BY <1>11, <2>1, <2>2 DEF Withholds
<1>13. CASE ~Stops(limited, request.pia)
  <2>1. a \in Seq(Emits(W)) /\ Said(a) = Said(y) \cup Said(p) /\ a = y \o p
    BY <1>6, <1>11, SaidConcat
  <2> HIDE DEF a
  <2>2. /\ a \in Seq(Calls) /\ y \in Seq(Calls) /\ p \in Seq(Calls)
        /\ d \in Seq(Calls)
    BY <1>1, <1>6, <1>9, <1>11, <2>1, EmitsAreCalls
  <2>3. p \o Persist(k.content, k.stats) \o AtEnd(d, code)
           = AtKeep(p, k, << >>, d, code)
    BY <1>3, <1>5, <2>2, PersistedAtOnce
  <2>4. y \o AtKeep(p, k, << >>, d, code) = AtKeep(a, k, << >>, d, code)
    <3>1. \A b \in Seq(Calls) :
             y \o AtKeep(p, k, b, d, code) = AtKeep(y \o p, k, b, d, code)
      BY <1>3, <1>5, <2>2, KeepPrefixed
    <3> QED
      BY <1>7, <2>1, <3>1
  <2>5. Grep(t, partial, names) = AtKeep(a, k, << >>, d, code)
    BY <1>4, <1>9, <1>13, <2>3, <2>4
  <2> DEFINE E == Said(a) \cup Said(<< >>) \cup Said(d)
  <2>6. E = Said(w) \cup Said(g) \cup Said(s) \cup Said(p) \cup Said(d)
    BY <1>7, <1>10, <1>11, <2>1
  <2> HIDE DEF E
  <2>7. ~Has(Said(d), "payload")
    BY <1>9 DEF Has
  <2>8. Tells(E, request.max)
    <3>1. Has(Said(s), "payload")
      BY <1>6, <1>13 DEF Has
    <3>2. \A e \in E : e.what = "payload" => e \in Said(s)
      BY <1>6, <1>8, <2>6, <2>7 DEF Has
    <3>3. Said(s) \cup Said(w) \cup Said(p) \subseteq E
      BY <2>6
    <3> QED
      BY <1>1, <1>3, <1>6, <3>1, <3>2, <3>3, TellsAll DEF w, p
  <2>9. Honest(request.cmd, k, <<t, << >> >>, E, code, 0)
    <3>1. Has(E, "stats") /\ \E e \in E : e.what = "payload" /\ e.to = "stdout"
      BY <1>6, <1>13, <2>6 DEF Has
    <3> QED
      BY <1>3, <1>4, <1>5, <3>1 DEF Honest
  <2>10. Has(Said(a), "stats")
    BY <1>6, <2>1 DEF Has
  <2> QED
    BY <1>3, <1>5, <1>7, <1>9, <2>1, <2>5, <2>8, <2>9, <2>10 DEF Delivers, E
<1> QED
  BY <1>12, <1>13

\* run stores between its warning and its statistics.
LEMMA RunOpens ==
  ASSUME NEW W, Permits(W, request.pia), request \in Requests,
         NEW out \in Text, NEW err \in Text, NEW code \in Nat \cup {None},
         request.cmd = "run"
  PROVE  Opens(Run(out, err, code), W, <<out, err>>)
<1> DEFINE o == Truncate(Redact(out), request.max)
           e == Truncate(Redact(err), request.max)
           warned == Detect(Redact(out)) \/ Detect(Redact(err))
           stats == StatsOf(code, warned)
           content == <<Sanitize(Redact(out)), Sanitize(Redact(err))>>
           k == [do |-> "keep", content |-> content, stats |-> stats]
           so == Show("stdout", o, request.pia)
           se == Show("stderr", e, request.pia)
           s == so \o se
           w == Warn(warned)
           j == IF request.json THEN WriteJson(stats) ELSE << >>
           p == PrintStats(stats)
           jp == j \o p
           a == s \o w
           c == ExitCode(code)
           stops == Stops(o, request.pia) \/ Stops(e, request.pia)
<1>1. request.max \in Nat /\ W \subseteq Words
  BY CommandsKnown DEF Permits
<1>2. ASSUME NEW t \in Text
      PROVE  /\ Truncate(Redact(t), request.max) \in Text
             /\ Detect(Truncate(Redact(t), request.max)) => Detect(Redact(t))
  <2>1. Plain \subseteq Words /\ Redact(t) \in Text
    BY RedactType DEF Plain
  <2> QED
    BY <1>1, <2>1, TruncateType, StaysHarmless DEF Text
<1>3. o \in Text /\ e \in Text /\ (Detect(o) \/ Detect(e) => warned)
  BY <1>2
<1>4. /\ stats \in Statistics /\ stats.code = code /\ warned \in BOOLEAN
      /\ stats.warned = warned
  <2>1. warned \in BOOLEAN
    BY DEF Detect
  <2> QED
    BY <2>1, StatsType
<1>5. c \in Nat /\ (code = c \/ (code = None /\ c = 0))
  BY NoneAssumption DEF ExitCode
<1>6. /\ Run(out, err, code)
            = s \o (IF stops THEN Quit(1)
                    ELSE w \o Keep(k.content, k.stats) \o j \o p
                           \o Receipt \o Quit(c))
      /\ k.content = content /\ k.stats = stats
  <2>1. Warn(stats.warned) = w
    BY <1>4
  <2>2. k.content = content /\ k.stats = stats
    OBVIOUS
  <2>3. Run(out, err, code)
           = s \o (IF stops THEN Quit(1)
                   ELSE Warn(stats.warned) \o Keep(content, stats) \o j \o p
                          \o Receipt \o Quit(c))
    BY DEF Run
  <2> QED
    BY <2>1, <2>2, <2>3
<1>7. k \in Keeps /\ Same(k.content, <<out, err>>)
  BY <1>4, KeptType, KeptRedacted DEF Keeps
<1> HIDE DEF o, e
<1>8. /\ so \in Seq(Emits(W)) /\ se \in Seq(Emits(W))
      /\ \A x \in Said(so) : x.what = "payload" /\ x.to = "stdout"
            /\ (Detect(x.text) => warned)
      /\ \A x \in Said(se) : x.what = "payload" /\ x.to = "stderr"
            /\ (Detect(x.text) => warned)
      /\ ~stops => (\E x \in Said(so) : TRUE) /\ (\E x \in Said(se) : TRUE)
  <2>1. "stdout" \in Sinks /\ "stderr" \in Sinks
    BY DEF Sinks
  <2> HIDE DEF warned
  <2> QED
    BY <1>3, <2>1, ShowType
<1>9. << >> \in Seq(Emits(W)) /\ Said(<< >>) = {} /\ << >> \in Seq(Calls)
  BY SaidNothing
<1> HIDE DEF stats
<1>10. /\ w \in Seq(Emits(W)) /\ ~Has(Said(w), "payload")
       /\ p \in Seq(Emits(W)) /\ Has(Said(p), "stats")
       /\ ~Has(Said(p), "payload")
       /\ j \in Seq(Emits(W)) /\ ~Has(Said(j), "payload")
  BY <1>1, <1>4, <1>9, WarnType, PrintStatsType DEF Has
<1> HIDE DEF content, k, warned, so, se, w, j, p, c, stops
<1>11. s \in Seq(Emits(W)) /\ Said(s) = Said(so) \cup Said(se)
  BY <1>8, SaidConcat
<1> HIDE DEF s
<1>12. CASE stops
  <2>1. Run(out, err, code) = AtEnd(s, 1)
    BY <1>6, <1>12 DEF AtEnd
  <2> QED
    BY <1>11, <2>1 DEF Opens
<1>13. CASE ~stops
  <2>1. a \in Seq(Emits(W)) /\ Said(a) = Said(s) \cup Said(w) /\ a = s \o w
    BY <1>10, <1>11, SaidConcat
  <2>2. jp \in Seq(Emits(W)) /\ Said(jp) = Said(j) \cup Said(p) /\ jp = j \o p
    BY <1>10, SaidConcat
  <2> HIDE DEF a, jp
  <2>3. /\ s \in Seq(Calls) /\ w \in Seq(Calls) /\ j \in Seq(Calls)
        /\ p \in Seq(Calls) /\ jp \in Seq(Calls)
    BY <1>1, <1>10, <1>11, <2>2, EmitsAreCalls
  <2>4. w \o Keep(k.content, k.stats) \o j \o p \o Receipt \o Quit(c)
           = AtKeep(w, k, jp, << >>, c)
    <3>1. Around(w, k, j, p, c) = AtKeep(w, k, j \o p, << >>, c)
      BY <1>5, <1>7, <2>3, PersistedAround
    <3> QED
      BY <2>2, <3>1 DEF Around
  <2>5. s \o AtKeep(w, k, jp, << >>, c) = AtKeep(a, k, jp, << >>, c)
    <3>1. \A d \in Seq(Calls) :
             s \o AtKeep(w, k, jp, d, c) = AtKeep(s \o w, k, jp, d, c)
      BY <1>5, <1>7, <2>3, KeepPrefixed
    <3> QED
      BY <1>9, <2>1, <3>1
  <2>6. Run(out, err, code) = AtKeep(a, k, jp, << >>, c)
    BY <1>6, <1>13, <2>4, <2>5
  <2> DEFINE E == Said(a) \cup Said(jp) \cup Said(<< >>)
  <2>7. E = Said(so) \cup Said(se) \cup Said(w) \cup Said(j) \cup Said(p)
    BY <1>9, <1>11, <2>1, <2>2
  <2> HIDE DEF E
  <2>8. Tells(E, request.max)
    <3>1. Has(Said(s), "payload")
      BY <1>8, <1>11, <1>13 DEF Has
    <3>2. \A x \in E : x.what = "payload" => x \in Said(s)
      BY <1>10, <1>11, <2>7 DEF Has
    <3>3. Said(s) \cup Said(w) \cup Said(p) \subseteq E
      BY <1>11, <2>7
    <3>4. \A x \in Said(s) : x.what = "payload" /\ Detect(x.text) => warned
      BY <1>8, <1>11
    <3> QED
      BY <1>1, <1>4, <1>11, <3>1, <3>2, <3>3, <3>4, TellsAll DEF w, p
  <2>9. Honest(request.cmd, k, <<out, err>>, E, c, 0)
    <3>1. /\ Has(E, "stats")
          /\ \E x \in E : x.what = "payload" /\ x.to = "stdout"
          /\ \E x \in E : x.what = "payload" /\ x.to = "stderr"
      BY <1>8, <1>10, <1>13, <2>7 DEF Has
    <3> QED
      BY <1>4, <1>5, <1>6, <1>7, <3>1 DEF Honest
  <2> QED
    BY <1>5, <1>7, <1>9, <2>1, <2>2, <2>6, <2>8, <2>9 DEF Opens, Delivers, E
<1> QED
  BY <1>12, <1>13

-------------------------------------------------------------------------------
(* Answers.                                                                  *)

\* Redaction leaves what has been redacted alone.
LEMMA RedactClean ==
  ASSUME NEW t \in Seq(Clean)
  PROVE  t \in Text /\ Redact(t) = t
<1>1. t \in Text /\ \A i \in 1..Len(t) : t[i] \notin {"key", "home"}
  BY DEF Text, Clean
<1>2. /\ Redact(t) \in Text /\ Len(Redact(t)) = Len(t)
      /\ \A i \in 1..Len(t) : Redact(t)[i] = t[i]
  BY <1>1, RedactType
<1> QED
  BY <1>1, <1>2, SeqEqual DEF Text

\* The answer to retrieve and search: a notice or two, and what was asked for.
LEMMA BodyType ==
  ASSUME NEW t \in Seq(Clean)
  PROVE  \E p \in Seq(Clean) :
            /\ Len(p) \in 1..2 /\ Body(t) = p \o t
            /\ Body(t) \in Seq(Clean) /\ Len(Body(t)) = Len(p) + Len(t)
<1> DEFINE ws == IF Detect(t) THEN <<"warnings">> ELSE << >>
           p == <<"status">> \o ws
<1>1. "status" \in Clean /\ "warnings" \in Clean
  BY DEF Clean, Words, Notices
<1>2. <<"status">> \in Seq(Clean) /\ Len(<<"status">>) = 1
  BY <1>1
<1>3. ws \in Seq(Clean) /\ (Len(ws) = 0 \/ Len(ws) = 1)
  BY <1>1
<1>4. Body(t) = p \o t
  BY DEF Body
<1> HIDE DEF ws
<1>5. p \in Seq(Clean) /\ Len(p) = 1 + Len(ws)
  BY <1>2, <1>3, ConcatProperties
<1> HIDE DEF p
<1>6. p \o t \in Seq(Clean) /\ Len(p \o t) = Len(p) + Len(t)
  BY <1>5, ConcatProperties
<1>7. Len(p) \in 1..2
  <2>1. Len(p) = 1 + Len(ws) /\ (Len(ws) = 0 \/ Len(ws) = 1)
    BY <1>3, <1>5
  <2>2. CASE Len(ws) = 0
    BY <2>1, <2>2
  <2>3. CASE Len(ws) = 1
    BY <2>1, <2>3
  <2> QED
    BY <2>1, <2>2, <2>3
<1> QED
  BY <1>4, <1>5, <1>6, <1>7

\* A rendered text keeps to its budget and is whole when that allows it.
LEMMA ExternalFits ==
  ASSUME NEW t \in Text, NEW max \in Nat
  PROVE  /\ Len(External(t, max)) <= max
         /\ t \in Seq(Clean) /\ Len(t) \in Nat \ {0}
               /\ Len(t) + Overhead <= max
            => External(t, max) = (Header \o t) \o Footer
<1>1. /\ Header \in Seq(Words) /\ Footer \in Seq(Words)
      /\ Marker \in Seq(Words)
  BY NoticesPlain DEF Words
<1>2. Overhead \in Nat
  BY <1>1, LenProperties DEF Overhead
<1>3. PayloadBudget(max) \in Nat
  BY <1>2 DEF PayloadBudget
<1>4. Redact(t) \in Seq(Words)
  BY RedactType DEF Text
<1>5. FitToBudget(Redact(t), PayloadBudget(max)) \in Seq(Words)
  BY <1>1, <1>3, <1>4, FitsBudget
<1>6. Len(External(t, max)) <= max
  BY <1>1, <1>5, EnvelopeFits DEF External
<1>7. ASSUME t \in Seq(Clean), Len(t) \in Nat \ {0},
             Len(t) + Overhead <= max
      PROVE  External(t, max) = (Header \o t) \o Footer
  <2>1. Redact(t) = t
    BY <1>7, RedactClean
  <2>2. max > Overhead /\ Len(t) <= max - Overhead
    BY <1>2, <1>7
  <2>3. FitToBudget(t, max - Overhead) = t
    BY <2>2 DEF FitToBudget
  <2>4. PayloadBudget(max) = max - Overhead
    BY <1>2, <2>2 DEF PayloadBudget
  <2>5. ~(max <= Overhead)
    BY <1>2, <2>2
  <2> QED
    BY <2>1, <2>3, <2>4, <2>5 DEF External, WrapBounded, Wrap
<1> QED
  BY <1>6, <1>7

\* What stands between the envelope and the notices.
LEMMA Middle ==
  ASSUME NEW h \in Text, NEW p \in Text, NEW t \in Text, NEW f \in Text
  PROVE  LET w == (h \o (p \o t)) \o f
         IN  SubSeq(w, Len(h) + Len(p) + 1, Len(w) - Len(f)) = t
<1> DEFINE u == p \o t
           v == h \o u
           w == v \o f
           m == Len(h) + Len(p)
<1>1. /\ u \in Seq(Words) /\ Len(u) = Len(p) + Len(t)
      /\ \A i \in 1..Len(p) + Len(t) :
            u[i] = IF i <= Len(p) THEN p[i] ELSE t[i - Len(p)]
  BY ConcatProperties DEF Text
<1>2. /\ Len(h) \in Nat /\ Len(p) \in Nat /\ Len(t) \in Nat /\ Len(f) \in Nat
      /\ \A i \in 1..Len(t) : t[i] \in Words
  BY LenProperties DEF Text
<1> HIDE DEF u
<1>3. /\ v \in Seq(Words) /\ Len(v) = m + Len(t)
      /\ \A i \in 1..Len(h) + Len(u) :
            v[i] = IF i <= Len(h) THEN h[i] ELSE u[i - Len(h)]
  <2>1. /\ v \in Seq(Words) /\ Len(v) = Len(h) + Len(u)
        /\ \A i \in 1..Len(h) + Len(u) :
              v[i] = IF i <= Len(h) THEN h[i] ELSE u[i - Len(h)]
    <3>1. h \in Seq(Words) /\ u \in Seq(Words)
      BY <1>1 DEF Text
    <3> HIDE DEF m
    <3> QED
      BY <3>1, ConcatProperties
  <2> QED
    BY <1>1, <1>2, <2>1
<1> HIDE DEF v
<1>4. /\ Len(w) = m + Len(t) + Len(f)
      /\ \A i \in 1..Len(v) + Len(f) :
            w[i] = IF i <= Len(v) THEN v[i] ELSE f[i - Len(v)]
  BY <1>3, <1>2, ConcatProperties DEF Text
<1> HIDE DEF w
<1>5. ASSUME NEW i \in 1..Len(t)
      PROVE  w[m + i] = t[i]
  <2>1. m + i \in 1..Len(v) + Len(f) /\ m + i <= Len(v)
    BY <1>2, <1>3
  <2>2. w[m + i] = v[m + i]
    BY <1>4, <2>1
  <2>3. m + i \in 1..Len(h) + Len(u) /\ ~(m + i <= Len(h))
    BY <1>1, <1>2
  <2>4. v[m + i] = u[m + i - Len(h)]
    BY <1>3, <2>3
  <2>5. m + i - Len(h) = Len(p) + i /\ Len(p) + i \in 1..Len(p) + Len(t)
        /\ ~(Len(p) + i <= Len(p)) /\ Len(p) + i - Len(p) = i
    BY <1>2
  <2>6. u[Len(p) + i] = t[i]
    BY <1>1, <2>5
  <2> QED
    BY <2>2, <2>4, <2>5, <2>6
<1>6. Len(w) - Len(f) = m + Len(t) /\ m \in Nat
  BY <1>2, <1>4
<1> DEFINE s == SubSeq(w, m + 1, m + Len(t))
<1> HIDE DEF m
<1>7. \A j \in m + 1..m + Len(t) : w[j] \in Words
  <2> SUFFICES ASSUME NEW j \in m + 1..m + Len(t) PROVE w[j] \in Words
    OBVIOUS
  <2>1. j - m \in 1..Len(t) /\ m + (j - m) = j
    BY <1>2, <1>6
  <2> QED
    BY <1>2, <1>5, <2>1
<1>8. /\ s \in Seq(Words)
      /\ Len(s) = IF m + 1 <= m + Len(t) THEN m + Len(t) - (m + 1) + 1 ELSE 0
      /\ \A j \in 1..m + Len(t) - (m + 1) + 1 : s[j] = w[m + 1 + j - 1]
  BY <1>2, <1>6, <1>7, SubSeqProperties
<1>9. Len(s) = Len(t) /\ \A j \in 1..Len(t) : s[j] = t[j]
  <2>1. Len(s) = Len(t) /\ m + Len(t) - (m + 1) + 1 = Len(t)
    BY <1>2, <1>6, <1>8
  <2>2. \A j \in 1..Len(t) : s[j] = w[m + j]
    BY <1>2, <1>6, <1>8, <2>1
  <2> QED
    BY <1>5, <2>1, <2>2
<1>10. s = t
  BY <1>8, <1>9, SeqEqual DEF Text
<1> QED
  BY <1>6, <1>10 DEF u, v, w, m

-------------------------------------------------------------------------------
(* The inductive invariant, for the words W a process may write.             *)

Asking == request.cmd \in {"retrieve", "search"}

\* What must be so of a process that will end with the status c when it has
\* said E.
Settled(E, c) ==
    /\ c # 1 => /\ Tells(E, request.max)
                /\ stored.kept \/ (receipt # None /\ Has(E, "receipt"))
    /\ stored.kept => Honest(request.cmd, stored, raw, E, c, faults)

Due(E, c) ==
    /\ Producing => Settled(E, c)
    /\ Asking => \A e \in E : e.what = "error" \/ Fits(e)

\* What is left to do ends the process.
EndStage(W) ==
    \E a \in Seq(Emits(W)), c \in Nat :
       todo = AtEnd(a, c) /\ Due(Range(shown) \cup Said(a), c)

\* The store has answered.
ReceiptStage(W) ==
    /\ Producing /\ receipt \in Reasons /\ (receipt = "stored" => stored.kept)
    /\ \E a, d \in Seq(Emits(W)), c \in Nat :
          /\ todo = AtReceipt(a, d, c)
          /\ c # 1 =>
                Tells(Range(shown) \cup Said(a) \cup Said(d), request.max)
          /\ stored.kept =>
                Honest(request.cmd, stored, raw,
                       Range(shown) \cup Said(a) \cup Said(d), c,
                       faults)

\* The store has not been asked.
KeepStage(W) ==
    /\ Producing /\ receipt = None /\ stored = NotStored
    /\ \E a, b, d \in Seq(Emits(W)), k \in Keeps, c \in Nat :
          /\ todo = AtKeep(a, k, b, d, c)
          /\ c # 1 =>
                Tells(Range(shown) \cup Said(a) \cup Said(b) \cup Said(d),
                      request.max)
          /\ Honest(request.cmd, k, raw,
                    Range(shown) \cup Said(a) \cup Said(b) \cup Said(d), c,
                    faults)
          /\ request.cmd # "run" =>
                Has(Range(shown), "stats") \/ Has(Said(a), "stats")

Stages(W) ==
    \/ /\ pc \in {"start", "read"} /\ Producing
       /\ exit = None /\ todo = << >> /\ shown = << >> /\ receipt = None
       /\ stored = NotStored
    \/ /\ pc = "busy" /\ exit = None
       /\ EndStage(W) \/ ReceiptStage(W) \/ KeepStage(W)
    \/ /\ pc = "exited" /\ exit \in Nat /\ todo = << >>
       /\ Due(Range(shown), exit)

StoredRuns == [kept : {TRUE}, content : Kept \X Kept, stats : Statistics]

Types ==
    /\ request \in Requests \cup Questions
    /\ raw \in Text \X Text
    /\ receipt \in Reasons \cup {None}
    /\ stored = NotStored \/ stored \in StoredRuns
    /\ faults \in 0..MaxFaults

GateInv(W) ==
    /\ Types
    /\ shown \in Seq(Entries(W))
    /\ Stages(W)
    /\ Producing /\ stored.kept /\ request.cmd # "run" =>
          Has(Range(shown), "stats")

-------------------------------------------------------------------------------
(* How the steps keep it.                                                    *)

\* The first write of a list is one of what the list says.
LEMMA FirstSaid ==
  ASSUME NEW W, NEW a \in Seq(Emits(W)), a # << >>
  PROVE  /\ Tail(a) \in Seq(Emits(W)) /\ Head(a) \in Emits(W)
         /\ Head(a).do = "emit" /\ Entry(Head(a)) \in Entries(W)
         /\ Entry(Head(a)).what = Head(a).what
         /\ Said(a) = {Entry(Head(a))} \cup Said(Tail(a))
<1>1. Tail(a) \in Seq(Emits(W)) /\ Head(a) \in Emits(W)
  BY HeadTailProperties
<1>2. /\ Head(a).do = "emit" /\ Entry(Head(a)) \in Entries(W)
      /\ Entry(Head(a)).what = Head(a).what
  BY <1>1 DEF Emits, Entries, Entry, Within
<1>3. a = <<Head(a)>> \o Tail(a)
  <2>1. /\ Len(a) \in Nat \ {0} /\ Len(Tail(a)) = Len(a) - 1
        /\ \A i \in 1..Len(Tail(a)) : Tail(a)[i] = a[i + 1]
    BY EmptySeq, HeadTailProperties
  <2>2. /\ <<Head(a)>> \in Seq(Emits(W)) /\ Len(<<Head(a)>>) = 1
        /\ <<Head(a)>>[1] = a[1]
    BY <1>1
  <2> DEFINE u == <<Head(a)>>
             v == Tail(a)
  <2> HIDE DEF u, v
  <2>3. /\ u \o v \in Seq(Emits(W)) /\ Len(u \o v) = Len(u) + Len(v)
        /\ \A i \in 1..Len(u) + Len(v) :
              (u \o v)[i] = IF i <= Len(u) THEN u[i] ELSE v[i - Len(u)]
    BY <1>1, <2>2, ConcatProperties DEF u, v
  <2>4. Len(u) = 1 /\ u[1] = a[1] /\ Len(v) = Len(a) - 1
        /\ \A i \in 1..Len(a) - 1 : v[i] = a[i + 1]
    BY <2>1, <2>2 DEF u, v
  <2>5. \A i \in 1..Len(a) : (u \o v)[i] = a[i]
    BY <2>1, <2>3, <2>4
  <2>6. Len(u) + Len(v) = Len(a)
    <3>1. Len(u) = 1 /\ Len(v) = Len(a) - 1 /\ Len(a) \in Nat
      BY <2>1, <2>4
    <3> QED
      BY <3>1
  <2>7. /\ u \o v \in Seq(Emits(W)) /\ a \in Seq(Emits(W))
        /\ Len(u \o v) = Len(a) /\ \A i \in 1..Len(a) : (u \o v)[i] = a[i]
    BY <2>3, <2>5, <2>6
  <2>8. u \o v = a
    BY <2>7, SeqEqual
  <2> QED
    BY <2>8 DEF u, v
<1>4. Range(<<Head(a)>>) = {Head(a)}
  <2> DEFINE h == Head(a)
  <2>1. <<h>> \in Seq({h}) /\ Len(<<h>>) = 1 /\ <<h>>[1] = h
    OBVIOUS
  <2> HIDE DEF h
  <2>2. Range(<<h>>) = {<<h>>[i] : i \in 1..Len(<<h>>)}
    BY <2>1, RangeEquality
  <2>3. Range(<<h>>) = {h}
    BY <2>1, <2>2
  <2> QED
    BY <2>3 DEF h
<1>5. Range(<<Head(a)>> \o Tail(a)) = Range(<<Head(a)>>) \cup Range(Tail(a))
  <2>1. <<Head(a)>> \in Seq(Emits(W))
    BY <1>1
  <2> QED
    BY <1>1, <2>1, RangeConcatenation, ZenonT(40)
<1>6. Range(a) = {Head(a)} \cup Range(Tail(a))
  BY <1>3, <1>4, <1>5
<1> QED
  BY <1>1, <1>2, <1>6 DEF Said

\* What is shown grows by what is written.
LEMMA MoreShown ==
  ASSUME NEW W, NEW s \in Seq(Entries(W)), NEW e \in Entries(W)
  PROVE  /\ Append(s, e) \in Seq(Entries(W))
         /\ Range(Append(s, e)) = Range(s) \cup {e}
<1>1. /\ Append(s, e) \in Seq(Entries(W)) /\ Len(Append(s, e)) = Len(s) + 1
      /\ \A i \in 1..Len(s) : Append(s, e)[i] = s[i]
      /\ Append(s, e)[Len(s) + 1] = e
  BY AppendProperties
<1>2. Len(s) \in Nat
  BY LenProperties
<1>3. /\ Range(s) = {s[i] : i \in 1..Len(s)}
      /\ Range(Append(s, e)) = {Append(s, e)[i] : i \in 1..Len(s) + 1}
  BY <1>1, RangeEquality
<1> QED
  BY <1>1, <1>2, <1>3

\* What is at the head of a script.
LEMMA EndHead ==
  ASSUME NEW W, W \subseteq Words, NEW a \in Seq(Emits(W)), NEW c \in Nat
  PROVE  /\ a = << >> => Head(AtEnd(a, c)) = [do |-> "exit", code |-> c]
         /\ a # << >> => /\ Head(AtEnd(a, c)) = Head(a)
                         /\ Tail(AtEnd(a, c)) = AtEnd(Tail(a), c)
         /\ AtEnd(a, c) # << >>
<1> DEFINE q == Quit(c)
<1>1. /\ a \in Seq(Calls) /\ q \in Seq(Calls) /\ q # << >>
      /\ Head(q) = [do |-> "exit", code |-> c]
  BY EmitsAreCalls, QuitType
<1>2. AtEnd(a, c) = a \o q /\ AtEnd(Tail(a), c) = Tail(a) \o q
  BY DEF AtEnd
<1> HIDE DEF q
<1>3. /\ a \o q # << >>
      /\ a = << >> => a \o q = q
      /\ a # << >> => Head(a \o q) = Head(a) /\ Tail(a \o q) = Tail(a) \o q
  BY <1>1, Leads
<1> QED
  BY <1>1, <1>2, <1>3

LEMMA ReceiptHead ==
  ASSUME NEW W, W \subseteq Words, NEW a \in Seq(Emits(W)), a # << >>,
         NEW d \in Seq(Emits(W)), NEW c \in Nat
  PROVE  /\ Head(AtReceipt(a, d, c)) = Head(a)
         /\ Tail(AtReceipt(a, d, c)) = AtReceipt(Tail(a), d, c)
<1> DEFINE q == Receipt \o AtEnd(d, c)
<1>1. a \in Seq(Calls) /\ d \in Seq(Calls)
  BY EmitsAreCalls
<1>2. q \in Seq(Calls) /\ q # << >>
  BY <1>1, ReceiptEndType
<1>3. AtReceipt(a, d, c) = a \o q /\ AtReceipt(Tail(a), d, c) = Tail(a) \o q
  BY DEF AtReceipt
<1> HIDE DEF q
<1>4. Head(a \o q) = Head(a) /\ Tail(a \o q) = Tail(a) \o q
  BY <1>1, <1>2, Leads
<1> QED
  BY <1>3, <1>4

LEMMA ReceiptNext ==
  ASSUME NEW W, W \subseteq Words, NEW d \in Seq(Emits(W)), NEW c \in Nat
  PROVE  /\ Head(AtReceipt(<< >>, d, c)) = [do |-> "receipt"]
         /\ Tail(AtReceipt(<< >>, d, c)) = AtEnd(d, c)
<1> DEFINE q == Receipt \o AtEnd(d, c)
<1>1. d \in Seq(Calls)
  BY EmitsAreCalls
<1>2. << >> \in Seq(Calls)
  OBVIOUS
<1>3. /\ q \in Seq(Calls)
      /\ Head(q) = [do |-> "receipt"] /\ Tail(q) = AtEnd(d, c)
  BY <1>1, <1>2, ReceiptEndType
<1>4. AtReceipt(<< >>, d, c) = << >> \o q
  BY DEF AtReceipt
<1> HIDE DEF q
<1>5. << >> \o q = q
  BY <1>3, EmptySeq, ConcatEmptySeq
<1> QED
  BY <1>3, <1>4, <1>5

LEMMA KeepHead ==
  ASSUME NEW W, W \subseteq Words, NEW a \in Seq(Emits(W)), a # << >>,
         NEW b \in Seq(Emits(W)), NEW d \in Seq(Emits(W)), NEW k \in Keeps,
         NEW c \in Nat
  PROVE  /\ Head(AtKeep(a, k, b, d, c)) = Head(a)
         /\ Tail(AtKeep(a, k, b, d, c)) = AtKeep(Tail(a), k, b, d, c)
<1> DEFINE q == <<k>> \o AtReceipt(b, d, c)
<1>1. a \in Seq(Calls) /\ b \in Seq(Calls) /\ d \in Seq(Calls)
  BY EmitsAreCalls
<1>2. /\ q \in Seq(Calls) /\ q # << >>
      /\ Head(q) = k /\ Tail(q) = AtReceipt(b, d, c)
  BY <1>1, KeepEndType, SMTT(30)
<1>3. /\ AtKeep(a, k, b, d, c) = a \o q
      /\ AtKeep(Tail(a), k, b, d, c) = Tail(a) \o q
  BY DEF AtKeep
<1> HIDE DEF q
<1>4. Head(a \o q) = Head(a) /\ Tail(a \o q) = Tail(a) \o q
  BY <1>1, <1>2, Leads
<1> QED
  BY <1>3, <1>4

LEMMA KeepNext ==
  ASSUME NEW W, W \subseteq Words, NEW b \in Seq(Emits(W)),
         NEW d \in Seq(Emits(W)), NEW k \in Keeps, NEW c \in Nat
  PROVE  /\ Head(AtKeep(<< >>, k, b, d, c)) = k
         /\ Tail(AtKeep(<< >>, k, b, d, c)) = AtReceipt(b, d, c)
<1> DEFINE q == <<k>> \o AtReceipt(b, d, c)
<1>1. b \in Seq(Calls) /\ d \in Seq(Calls)
  BY EmitsAreCalls
<1>2. << >> \in Seq(Calls)
  OBVIOUS
<1>3. q \in Seq(Calls) /\ Head(q) = k /\ Tail(q) = AtReceipt(b, d, c)
  BY <1>1, <1>2, KeepEndType
<1>4. AtKeep(<< >>, k, b, d, c) = << >> \o q
  BY DEF AtKeep
<1> HIDE DEF q
<1>5. << >> \o q = q
  BY <1>3, EmptySeq, ConcatEmptySeq
<1> QED
  BY <1>3, <1>4, <1>5

\* What is said counts the same without the line of an error.
LEMMA ButForErrors ==
  ASSUME NEW E, NEW F, F \subseteq E, \A e \in E \ F : e.what = "error",
         NEW max, NEW k, NEW r, NEW c, NEW f \in Nat, NEW g \in Nat, f <= g
  PROVE  /\ Tells(E, max) => Tells(F, max)
         /\ Honest(request.cmd, k, r, E, c, f)
               => Honest(request.cmd, k, r, F, c, g)
         /\ \A w : w # "error" /\ Has(E, w) => Has(F, w)
<1>1. \A e \in E : e.what # "error" => e \in F
  OBVIOUS
<1>2. \A w : w # "error" /\ Has(E, w) => Has(F, w)
  BY <1>1 DEF Has
<1>3. Tells(E, max) => Tells(F, max)
  BY <1>1, <1>2 DEF Tells
<1>4. g = 0 => f = 0
  OBVIOUS
<1>5. Honest(request.cmd, k, r, E, c, f) => Honest(request.cmd, k, r, F, c, g)
  BY <1>1, <1>2, <1>4 DEF Honest
<1> QED
  BY <1>2, <1>3, <1>5

\* A write that was made, or the line of an error that was not, leaves what
\* counts of all that is said.
LEMMA Accounted ==
  ASSUME NEW W, NEW a \in Seq(Emits(W)), a # << >>, NEW s \in Seq(Entries(W)),
         NEW t, \/ t = Append(s, Entry(Head(a)))
                \/ t = s /\ Head(a).what = "error",
         NEW D
  PROVE  /\ t \in Seq(Entries(W)) /\ Range(s) \subseteq Range(t)
         /\ Range(t) \cup Said(Tail(a)) \cup D
               \subseteq Range(s) \cup Said(a) \cup D
         /\ \A e \in (Range(s) \cup Said(a) \cup D)
                        \ (Range(t) \cup Said(Tail(a)) \cup D) :
               e.what = "error"
<1>1. /\ Entry(Head(a)) \in Entries(W)
      /\ Entry(Head(a)).what = Head(a).what
      /\ Said(a) = {Entry(Head(a))} \cup Said(Tail(a))
  BY FirstSaid
<1>2. /\ Append(s, Entry(Head(a))) \in Seq(Entries(W))
      /\ Range(Append(s, Entry(Head(a)))) = Range(s) \cup {Entry(Head(a))}
  BY <1>1, MoreShown
<1>3. CASE t = Append(s, Entry(Head(a)))
  BY <1>1, <1>2, <1>3
<1>4. CASE t = s /\ Head(a).what = "error"
  BY <1>1, <1>4
<1> QED
  BY <1>3, <1>4

\* A write that succeeds keeps the invariant; so does one of emit_error that
\* fails.
LEMMA Moves ==
  ASSUME NEW W, W \subseteq Words, GateInv(W), Busy("emit"),
         UNCHANGED <<request, pc, raw, receipt, stored, exit>>,
         todo' = Tail(todo), faults' \in 0..MaxFaults, faults <= faults',
         \/ shown' = Append(shown, Entry(Head(todo)))
         \/ shown' = shown /\ Head(todo).what = "error"
  PROVE  GateInv(W)'
<1>1. pc = "busy" /\ Head(todo).do = "emit"
  BY DEF Busy, Pending
<1>2. Types /\ shown \in Seq(Entries(W)) /\ Stages(W)
  BY DEF GateInv
<1>3. Types'
  BY <1>2 DEF Types
<1>4. faults \in Nat /\ faults' \in Nat
  BY <1>2, InputsKnown DEF Types
<1>5. /\ Producing' <=> Producing
      /\ Asking' <=> Asking
      /\ \A e : Fits(e)' <=> Fits(e)
  BY DEF Producing, Asking, Fits
<1>6. /\ exit = None
      /\ EndStage(W) \/ ReceiptStage(W) \/ KeepStage(W)
  BY <1>1, <1>2 DEF Stages
<1>7. ASSUME NEW a \in Seq(Emits(W)), a # << >>, Head(todo) = Head(a), NEW D
      PROVE  /\ shown' \in Seq(Entries(W))
             /\ Range(shown) \subseteq Range(shown')
             /\ Range(shown') \cup Said(Tail(a)) \cup D
                   \subseteq Range(shown) \cup Said(a) \cup D
             /\ \A e \in (Range(shown) \cup Said(a) \cup D)
                            \ (Range(shown') \cup Said(Tail(a)) \cup D) :
                   e.what = "error"
  BY <1>2, <1>7, Accounted
<1>8. CASE EndStage(W)
  <2>1. PICK a \in Seq(Emits(W)), c \in Nat :
           todo = AtEnd(a, c) /\ Due(Range(shown) \cup Said(a), c)
    BY <1>8 DEF EndStage
  <2>2. a # << >> /\ Head(todo) = Head(a) /\ todo' = AtEnd(Tail(a), c)
    <3>1. /\ a = << >> => Head(todo) = [do |-> "exit", code |-> c]
          /\ a # << >> => Head(todo) = Head(a) /\ Tail(todo) = AtEnd(Tail(a), c)
      BY <2>1, EndHead
    <3>2. a # << >>
      BY <1>1, <3>1
    <3> QED
      BY <3>1, <3>2
  <2>3. Tail(a) \in Seq(Emits(W))
    BY <2>2, FirstSaid
  <2> DEFINE E == Range(shown) \cup Said(a)
             F == Range(shown') \cup Said(Tail(a))
  <2>4. /\ shown' \in Seq(Entries(W)) /\ Range(shown) \subseteq Range(shown')
        /\ F \subseteq E /\ \A e \in E \ F : e.what = "error"
    <3>1. E \cup {} = E /\ F \cup {} = F
      OBVIOUS
    <3> QED
      BY <1>7, <2>2, <3>1
  <2>5. Due(E, c)
    BY <2>1
  <2> HIDE DEF E, F
  <2>6. /\ Tells(E, request.max) => Tells(F, request.max)
        /\ Honest(request.cmd, stored, raw, E, c, faults)
              => Honest(request.cmd, stored, raw, F, c, faults')
        /\ Has(E, "receipt") => Has(F, "receipt")
    BY <1>4, <2>4, ButForErrors
  <2>7. Settled(E, c) =>
           /\ c # 1 => /\ Tells(F, request.max)
                       /\ stored.kept \/ (receipt # None /\ Has(F, "receipt"))
           /\ stored.kept => Honest(request.cmd, stored, raw, F, c, faults')
    BY <2>6 DEF Settled
  <2>8. /\ Producing =>
           /\ c # 1 => /\ Tells(F, request.max)
                       /\ stored.kept \/ (receipt # None /\ Has(F, "receipt"))
           /\ stored.kept => Honest(request.cmd, stored, raw, F, c, faults')
        /\ Asking => \A e \in F : e.what = "error" \/ Fits(e)
    BY <2>4, <2>5, <2>7 DEF Due
  <2>9. EndStage(W)'
    BY <1>5, <2>2, <2>3, <2>8 DEF EndStage, Due, Settled, F
  <2> QED
    BY <1>1, <1>2, <1>3, <1>5, <1>6, <2>4, <2>9 DEF GateInv, Stages, Has
<1>9. CASE ReceiptStage(W)
  <2>1. PICK a \in Seq(Emits(W)), d \in Seq(Emits(W)), c \in Nat :
          /\ todo = AtReceipt(a, d, c)
          /\ c # 1 =>
                Tells(Range(shown) \cup Said(a) \cup Said(d), request.max)
          /\ stored.kept =>
                Honest(request.cmd, stored, raw,
                       Range(shown) \cup Said(a) \cup Said(d), c,
                       faults)
    BY <1>9 DEF ReceiptStage
  <2>2. a # << >> /\ Head(todo) = Head(a) /\ todo' = AtReceipt(Tail(a), d, c)
    <3>1. a = << >> => Head(todo) = [do |-> "receipt"]
      BY <2>1, ReceiptNext
    <3>2. a # << >>
      BY <1>1, <3>1
    <3>3. Head(todo) = Head(a) /\ Tail(todo) = AtReceipt(Tail(a), d, c)
      BY <2>1, <3>2, ReceiptHead
    <3> QED
      BY <3>2, <3>3
  <2>3. Tail(a) \in Seq(Emits(W))
    BY <2>2, FirstSaid
  <2> DEFINE E == Range(shown) \cup Said(a) \cup Said(d)
             F == Range(shown') \cup Said(Tail(a)) \cup Said(d)
  <2>4. /\ shown' \in Seq(Entries(W)) /\ Range(shown) \subseteq Range(shown')
        /\ F \subseteq E /\ \A e \in E \ F : e.what = "error"
    BY <1>7, <2>2
  <2>5. /\ c # 1 => Tells(E, request.max)
        /\ stored.kept => Honest(request.cmd, stored, raw, E, c, faults)
    BY <2>1
  <2> HIDE DEF E, F
  <2>6. /\ Tells(E, request.max) => Tells(F, request.max)
        /\ Honest(request.cmd, stored, raw, E, c, faults)
              => Honest(request.cmd, stored, raw, F, c, faults')
    BY <1>4, <2>4, ButForErrors
  <2>7. /\ c # 1 => Tells(F, request.max)
        /\ stored.kept => Honest(request.cmd, stored, raw, F, c, faults')
    BY <2>5, <2>6
  <2>8. Producing /\ receipt \in Reasons /\ (receipt = "stored" => stored.kept)
    BY <1>9 DEF ReceiptStage
  <2>9. ReceiptStage(W)'
    BY <1>5, <2>2, <2>3, <2>7, <2>8 DEF ReceiptStage, F
  <2> QED
    BY <1>1, <1>2, <1>3, <1>5, <1>6, <2>4, <2>9 DEF GateInv, Stages, Has
<1>10. CASE KeepStage(W)
  <2>1. PICK a \in Seq(Emits(W)), b \in Seq(Emits(W)), d \in Seq(Emits(W)),
             k \in Keeps, c \in Nat :
          /\ todo = AtKeep(a, k, b, d, c)
          /\ c # 1 =>
                Tells(Range(shown) \cup Said(a) \cup Said(b) \cup Said(d),
                      request.max)
          /\ Honest(request.cmd, k, raw,
                    Range(shown) \cup Said(a) \cup Said(b) \cup Said(d), c,
                    faults)
          /\ request.cmd # "run" =>
                Has(Range(shown), "stats") \/ Has(Said(a), "stats")
    BY <1>10 DEF KeepStage
  <2>2. a # << >> /\ Head(todo) = Head(a) /\ todo' = AtKeep(Tail(a), k, b, d, c)
    <3>1. k.do = "keep"
      BY DEF Keeps
    <3>2. a = << >> => Head(todo) = k
      BY <2>1, KeepNext
    <3>3. a # << >>
      BY <1>1, <3>1, <3>2
    <3>4. Head(todo) = Head(a) /\ Tail(todo) = AtKeep(Tail(a), k, b, d, c)
      BY <2>1, <3>3, KeepHead
    <3> QED
      BY <3>3, <3>4
  <2>3. Tail(a) \in Seq(Emits(W))
    BY <2>2, FirstSaid
  <2> DEFINE D == Said(b) \cup Said(d)
             E == Range(shown) \cup Said(a) \cup D
             F == Range(shown') \cup Said(Tail(a)) \cup D
  <2>4. /\ shown' \in Seq(Entries(W)) /\ Range(shown) \subseteq Range(shown')
        /\ F \subseteq E /\ \A e \in E \ F : e.what = "error"
    BY <1>7, <2>2
  <2>5. /\ E = Range(shown) \cup Said(a) \cup Said(b) \cup Said(d)
        /\ F = Range(shown') \cup Said(Tail(a)) \cup Said(b) \cup Said(d)
    OBVIOUS
  <2>6. /\ c # 1 => Tells(E, request.max)
        /\ Honest(request.cmd, k, raw, E, c, faults)
    BY <2>1, <2>5
  <2>7. request.cmd # "run" => Has(Range(shown') \cup Said(Tail(a)), "stats")
    <3> DEFINE G == Range(shown) \cup Said(a)
               H == Range(shown') \cup Said(Tail(a))
    <3>1. H \subseteq G /\ \A e \in G \ H : e.what = "error"
      <4>1. G \cup {} = G /\ H \cup {} = H
        OBVIOUS
      <4> QED
        BY <1>7, <2>2, <4>1
    <3>2. request.cmd # "run" => Has(G, "stats")
      BY <2>1 DEF Has
    <3> QED
      BY <3>1, <3>2 DEF Has
  <2> HIDE DEF E, F, D
  <2>8. /\ Tells(E, request.max) => Tells(F, request.max)
        /\ Honest(request.cmd, k, raw, E, c, faults)
              => Honest(request.cmd, k, raw, F, c, faults')
    BY <1>4, <2>4, ButForErrors
  <2>9. /\ c # 1 => Tells(F, request.max)
        /\ Honest(request.cmd, k, raw, F, c, faults')
        /\ request.cmd # "run" =>
              Has(Range(shown'), "stats") \/ Has(Said(Tail(a)), "stats")
    BY <2>6, <2>7, <2>8 DEF Has
  <2>10. Producing /\ receipt = None /\ stored = NotStored
    BY <1>10 DEF KeepStage
  <2>11. KeepStage(W)'
    BY <1>5, <2>2, <2>3, <2>5, <2>9, <2>10 DEF KeepStage, NotStored
  <2> QED
    BY <1>1, <1>2, <1>3, <1>5, <1>6, <2>4, <2>11 DEF GateInv, Stages, Has
<1> QED
  BY <1>6, <1>8, <1>9, <1>10

\* What the next call says of the stage.
AsksStore(W) ==
    /\ Producing /\ receipt = None /\ stored = NotStored
    /\ \E b, d \in Seq(Emits(W)), c \in Nat :
          /\ Head(todo) \in Keeps /\ Tail(todo) = AtReceipt(b, d, c)
          /\ c # 1 => Tells(Range(shown) \cup Said(b) \cup Said(d), request.max)
          /\ Honest(request.cmd, Head(todo), raw,
                    Range(shown) \cup Said(b) \cup Said(d), c,
                    faults)
          /\ request.cmd # "run" => Has(Range(shown), "stats")

PrintsReceipt(W) ==
    /\ Producing /\ receipt \in Reasons /\ (receipt = "stored" => stored.kept)
    /\ \E d \in Seq(Emits(W)), c \in Nat :
          /\ Tail(todo) = AtEnd(d, c)
          /\ c # 1 => Tells(Range(shown) \cup Said(d), request.max)
          /\ stored.kept =>
                Honest(request.cmd, stored, raw,
                       Range(shown) \cup Said(d), c, faults)

Exits == Head(todo).code \in Nat /\ Due(Range(shown), Head(todo).code)

Writes(W) ==
    /\ Head(todo) \in Emits(W)
    /\ Asking => \A e \in Range(shown) \cup {Entry(Head(todo))} :
                    e.what = "error" \/ Fits(e)

\* They are what the stages say of the next call.
LEMMA Leading ==
  ASSUME NEW W, W \subseteq Words, GateInv(W), pc = "busy"
  PROVE  /\ exit = None
         /\ Head(todo).do = "keep" => AsksStore(W)
         /\ Head(todo).do = "receipt" => PrintsReceipt(W)
         /\ Head(todo).do = "exit" => Exits
         /\ Head(todo).do = "emit" => Writes(W)
<1>1. exit = None /\ (EndStage(W) \/ ReceiptStage(W) \/ KeepStage(W))
  BY DEF GateInv, Stages
<1>2. Said(<< >>) = {} /\ \A E : E \cup {} = E
  BY SaidNothing
<1>3. ~(Producing /\ Asking)
  BY DEF Producing, Asking
<1>4. ASSUME NEW a \in Seq(Emits(W)), a # << >>, Head(todo) = Head(a)
      PROVE  /\ Head(todo) \in Emits(W) /\ Head(todo).do = "emit"
             /\ Entry(Head(todo)) \in Said(a)
  BY <1>4, FirstSaid
<1>5. CASE EndStage(W)
  <2>1. PICK a \in Seq(Emits(W)), c \in Nat :
           todo = AtEnd(a, c) /\ Due(Range(shown) \cup Said(a), c)
    BY <1>5 DEF EndStage
  <2>2. CASE a = << >>
    <3>1. Head(todo) = [do |-> "exit", code |-> c]
      BY <2>1, <2>2, EndHead
    <3>2. Head(todo).do = "exit" /\ Head(todo).code = c
      BY <3>1
    <3>3. Due(Range(shown), c)
      BY <1>2, <2>1, <2>2
    <3> QED
      BY <1>1, <3>2, <3>3 DEF Exits
  <2>3. CASE a # << >>
    <3>1. Head(todo) = Head(a)
      BY <2>1, <2>3, EndHead
    <3>2. /\ Head(todo) \in Emits(W) /\ Head(todo).do = "emit"
          /\ Entry(Head(todo)) \in Said(a)
      BY <1>4, <2>3, <3>1
    <3>3. Asking => \A e \in Range(shown) \cup {Entry(Head(todo))} :
                       e.what = "error" \/ Fits(e)
      BY <2>1, <3>2 DEF Due
    <3> QED
      BY <1>1, <3>2, <3>3 DEF Writes
  <2> QED
    BY <2>2, <2>3
<1>6. CASE ReceiptStage(W)
  <2>1. PICK a \in Seq(Emits(W)), d \in Seq(Emits(W)), c \in Nat :
          /\ todo = AtReceipt(a, d, c)
          /\ c # 1 =>
                Tells(Range(shown) \cup Said(a) \cup Said(d), request.max)
          /\ stored.kept =>
                Honest(request.cmd, stored, raw,
                       Range(shown) \cup Said(a) \cup Said(d), c,
                       faults)
    BY <1>6 DEF ReceiptStage
  <2>2. Producing /\ receipt \in Reasons /\ (receipt = "stored" => stored.kept)
    BY <1>6 DEF ReceiptStage
  <2>3. CASE a = << >>
    <3>1. Head(todo) = [do |-> "receipt"] /\ Tail(todo) = AtEnd(d, c)
      BY <2>1, <2>3, ReceiptNext
    <3>2. Head(todo).do = "receipt"
      BY <3>1
    <3>3. /\ c # 1 => Tells(Range(shown) \cup Said(d), request.max)
          /\ stored.kept =>
                Honest(request.cmd, stored, raw,
                       Range(shown) \cup Said(d), c, faults)
      BY <1>2, <2>1, <2>3
    <3>4. PrintsReceipt(W)
      BY <2>2, <3>1, <3>3 DEF PrintsReceipt
    <3> QED
      BY <1>1, <3>2, <3>4
  <2>4. CASE a # << >>
    <3>1. Head(todo) = Head(a)
      BY <2>1, <2>4, ReceiptHead
    <3> QED
      BY <1>1, <1>3, <1>4, <2>2, <2>4, <3>1 DEF Writes
  <2> QED
    BY <2>3, <2>4
<1>7. CASE KeepStage(W)
  <2>1. PICK a \in Seq(Emits(W)), b \in Seq(Emits(W)), d \in Seq(Emits(W)),
             k \in Keeps, c \in Nat :
          /\ todo = AtKeep(a, k, b, d, c)
          /\ c # 1 =>
                Tells(Range(shown) \cup Said(a) \cup Said(b) \cup Said(d),
                      request.max)
          /\ Honest(request.cmd, k, raw,
                    Range(shown) \cup Said(a) \cup Said(b) \cup Said(d), c,
                    faults)
          /\ request.cmd # "run" =>
                Has(Range(shown), "stats") \/ Has(Said(a), "stats")
    BY <1>7 DEF KeepStage
  <2>2. Producing /\ receipt = None /\ stored = NotStored
    BY <1>7 DEF KeepStage
  <2>3. CASE a = << >>
    <3>1. Head(todo) = k /\ Tail(todo) = AtReceipt(b, d, c)
      BY <2>1, <2>3, KeepNext
    <3>2. k.do = "keep"
      BY DEF Keeps
    <3>3. Range(shown) \cup Said(a) \cup Said(b) \cup Said(d)
             = Range(shown) \cup Said(b) \cup Said(d)
      BY <1>2, <2>3
    <3>4. request.cmd # "run" => Has(Range(shown), "stats")
      BY <1>2, <2>1, <2>3 DEF Has
    <3>5. AsksStore(W)
      BY <2>1, <2>2, <3>1, <3>3, <3>4 DEF AsksStore
    <3> QED
      BY <1>1, <3>1, <3>2, <3>5
  <2>4. CASE a # << >>
    <3>1. Head(todo) = Head(a)
      BY <2>1, <2>4, KeepHead
    <3> QED
      BY <1>1, <1>3, <1>4, <2>2, <2>4, <3>1 DEF Writes
  <2> QED
    BY <2>3, <2>4
<1> QED
  BY <1>1, <1>5, <1>6, <1>7

\* What is in the store is what was read, at every stage.
LEMMA KeptSame ==
  ASSUME NEW W, GateInv(W), Producing, stored.kept,
         request.cmd = "cat" => stored.stats.code # 1
  PROVE  Same(stored.content, raw)
<1>1. Stages(W)
  BY DEF GateInv
<1>2. stored # NotStored
  BY DEF NotStored
<1>3. ASSUME NEW E, NEW c, NEW f, Honest(request.cmd, stored, raw, E, c, f)
      PROVE  Same(stored.content, raw)
  BY <1>3 DEF Honest
<1>4. CASE EndStage(W)
  BY <1>3, <1>4 DEF EndStage, Due, Settled
<1>5. CASE ReceiptStage(W)
  BY <1>3, <1>5 DEF ReceiptStage
<1>6. CASE Due(Range(shown), exit)
  BY <1>3, <1>6 DEF Due, Settled
<1> QED
  BY <1>1, <1>2, <1>4, <1>5, <1>6 DEF Stages, KeepStage

\* A handler that cannot write gives up.
LEMMA GivesUp ==
  ASSUME NEW W, Permits(W, request.pia), GateInv(W), Busy("emit"),
         UNCHANGED <<request, pc, raw, receipt, stored, exit>>,
         faults < MaxFaults, faults' = faults + 1, todo' = Failure(1),
         \/ shown' = Append(shown, Entry(Head(todo)))
         \/ shown' = shown
  PROVE  GateInv(W)'
<1>1. pc = "busy" /\ Head(todo).do = "emit" /\ W \subseteq Words
  BY DEF Busy, Pending, Permits
<1>2. exit = None /\ Writes(W)
  BY <1>1, Leading
<1>3. Types /\ shown \in Seq(Entries(W))
  BY DEF GateInv
<1>4. faults' \in 0..MaxFaults /\ faults' # 0
  BY <1>3, InputsKnown DEF Types
<1>5. Types'
  BY <1>3, <1>4 DEF Types
<1>6. /\ Producing' <=> Producing
      /\ Asking' <=> Asking
      /\ \A e : Fits(e)' <=> Fits(e)
  BY DEF Producing, Asking, Fits
<1>7. Entry(Head(todo)) \in Entries(W)
  BY <1>2 DEF Writes, Emits, Entries, Entry, Within
<1>8. /\ shown' \in Seq(Entries(W)) /\ Range(shown) \subseteq Range(shown')
      /\ Range(shown') \subseteq Range(shown) \cup {Entry(Head(todo))}
  <2>1. /\ Append(shown, Entry(Head(todo))) \in Seq(Entries(W))
        /\ Range(Append(shown, Entry(Head(todo))))
              = Range(shown) \cup {Entry(Head(todo))}
    BY <1>3, <1>7, MoreShown
  <2>2. CASE shown' = Append(shown, Entry(Head(todo)))
    BY <2>1, <2>2
  <2>3. CASE shown' = shown
    BY <1>3, <2>3
  <2> QED
    BY <2>2, <2>3
<1>9. /\ Complaint \in Seq(Emits(W))
      /\ \A e \in Said(Complaint) : e.what = "error"
      /\ todo' = AtEnd(Complaint, 1)
  BY ComplaintType DEF AtEnd
<1> DEFINE F == Range(shown') \cup Said(Complaint)
<1>10. Asking => \A e \in F : e.what = "error" \/ Fits(e)
  BY <1>2, <1>8, <1>9 DEF Writes
<1>11. Producing /\ stored.kept
                       => Honest(request.cmd, stored, raw, F, 1, faults')
  BY <1>4, KeptSame DEF Honest
<1> HIDE DEF F
<1>12. /\ Producing => /\ 1 # 1 => /\ Tells(F, request.max)
                                   /\ stored.kept
                                        \/ (receipt # None /\ Has(F, "receipt"))
                       /\ stored.kept
                             => Honest(request.cmd, stored, raw, F, 1, faults')
       /\ Asking => \A e \in F : e.what = "error" \/ Fits(e)
  BY <1>10, <1>11
<1>13. EndStage(W)'
  <2>1. 1 \in Nat
    OBVIOUS
  <2> QED
    BY <1>6, <1>9, <1>12, <2>1 DEF EndStage, Due, Settled, F
<1> QED
  BY <1>1, <1>2, <1>5, <1>6, <1>8, <1>13 DEF GateInv, Stages, Has

\* The store is asked once, after what it has to be told of it was said.
LEMMA StoreStep ==
  ASSUME NEW W, W \subseteq Words, GateInv(W), Store
  PROVE  GateInv(W)'
<1>1. /\ pc = "busy" /\ Head(todo).do = "keep"
      /\ UNCHANGED <<request, pc, raw, shown, exit, faults>>
      /\ todo' = Tail(todo) /\ receipt' \in Reasons
      /\ stored' = IF receipt' = "stored"
                   THEN [kept |-> TRUE, content |-> Head(todo).content,
                         stats |-> Head(todo).stats]
                   ELSE stored
  BY DEF Store, Busy, Pending, Reasons
<1>2. exit = None /\ AsksStore(W)
  BY <1>1, Leading
<1>3. Types /\ shown \in Seq(Entries(W))
  BY DEF GateInv
<1>4. PICK b \in Seq(Emits(W)), d \in Seq(Emits(W)), c \in Nat :
          /\ Head(todo) \in Keeps /\ Tail(todo) = AtReceipt(b, d, c)
          /\ c # 1 => Tells(Range(shown) \cup Said(b) \cup Said(d), request.max)
          /\ Honest(request.cmd, Head(todo), raw,
                    Range(shown) \cup Said(b) \cup Said(d), c,
                    faults)
          /\ request.cmd # "run" => Has(Range(shown), "stats")
  BY <1>2 DEF AsksStore
<1>5. Producing /\ stored = NotStored
  BY <1>2 DEF AsksStore
<1>6. Producing'
  BY <1>1, <1>5 DEF Producing
<1>7. /\ receipt' = "stored" => /\ stored'.kept /\ stored' \in StoredRuns
                                /\ stored'.content = Head(todo).content
                                /\ stored'.stats = Head(todo).stats
      /\ receipt' # "stored" => stored' = NotStored /\ ~stored'.kept
  <2>1. CASE receipt' = "stored"
    BY <1>1, <1>4, <2>1 DEF Keeps, StoredRuns
  <2>2. CASE receipt' # "stored"
    BY <1>1, <1>5, <2>2 DEF NotStored
  <2> QED
    BY <2>1, <2>2
<1>8. Types'
  BY <1>1, <1>3, <1>7 DEF Types, NotStored
<1> DEFINE E == Range(shown) \cup Said(b) \cup Said(d)
<1>9. stored'.kept => Honest(request.cmd, stored', raw, E, c, faults)
  BY <1>4, <1>7 DEF Honest
<1>10. ReceiptStage(W)'
  <2>1. /\ receipt' \in Reasons /\ (receipt' = "stored" => stored'.kept)
        /\ todo' = AtReceipt(b, d, c)
        /\ c # 1 => Tells(E, request.max)
        /\ stored'.kept => Honest(request.cmd, stored', raw, E, c, faults)
    BY <1>1, <1>4, <1>7, <1>9
  <2> QED
    BY <1>1, <1>6, <2>1 DEF ReceiptStage
<1> QED
  BY <1>1, <1>2, <1>3, <1>4, <1>8, <1>10 DEF GateInv, Stages

\* What was not stored is told, at the end.
LEMMA ReceiptStep ==
  ASSUME NEW W, Permits(W, request.pia), GateInv(W), PrintReceipt
  PROVE  GateInv(W)'
<1>1. /\ pc = "busy" /\ Head(todo).do = "receipt" /\ W \subseteq Words
      /\ UNCHANGED <<request, pc, raw, shown, receipt, stored, exit, faults>>
  BY DEF PrintReceipt, Busy, Pending, Permits
<1>2. exit = None /\ PrintsReceipt(W)
  BY <1>1, Leading
<1>3. Types /\ shown \in Seq(Entries(W))
  BY DEF GateInv
<1>4. PICK d \in Seq(Emits(W)), c \in Nat :
          /\ Tail(todo) = AtEnd(d, c)
          /\ c # 1 => Tells(Range(shown) \cup Said(d), request.max)
          /\ stored.kept =>
                Honest(request.cmd, stored, raw,
                       Range(shown) \cup Said(d), c, faults)
  BY <1>2 DEF PrintsReceipt
<1>5. Producing /\ receipt \in Reasons /\ (receipt = "stored" => stored.kept)
  BY <1>2 DEF PrintsReceipt
<1> DEFINE u == IF receipt = "stored" THEN << >>
                ELSE Emit("stderr", "receipt", Prepared(<<receipt>>))
<1>6. /\ u \in Seq(Emits(W)) /\ \A e \in Said(u) : e.what = "receipt"
      /\ receipt # "stored" => Has(Said(u), "receipt")
  <2>1. Prepared(<<receipt>>) \in Seq(W)
    <3>1. receipt \in Notices /\ 0 \in Nat
      BY <1>5 DEF Notices
    <3> QED
      BY <3>1, NoticeType
  <2>2. "stderr" \in Sinks /\ "receipt" \in Whats
    BY DEF Sinks, Whats
  <2>3. LET v == Emit("stderr", "receipt", Prepared(<<receipt>>))
        IN  /\ v \in Seq(Emits(W)) /\ \E e \in Said(v) : TRUE
            /\ \A e \in Said(v) : e.what = "receipt"
    BY <2>1, <2>2, EmitType
  <2>4. << >> \in Seq(Emits(W)) /\ Said(<< >>) = {}
    BY SaidNothing
  <2> QED
    BY <2>3, <2>4 DEF Has
<1>7. todo' = u \o AtEnd(d, c)
  BY <1>4 DEF PrintReceipt
<1> HIDE DEF u
<1>8. u \o d \in Seq(Emits(W)) /\ Said(u \o d) = Said(u) \cup Said(d)
  BY <1>6, SaidConcat
<1>9. u \in Seq(Calls) /\ d \in Seq(Calls)
  BY <1>1, <1>6, EmitsAreCalls
<1>10. todo' = AtEnd(u \o d, c)
  BY <1>7, <1>9, EndPrefixed
<1> DEFINE E == Range(shown) \cup Said(d)
           F == Range(shown) \cup Said(u \o d)
<1>11. /\ E \subseteq F /\ \A e \in F \ E : e.what = "receipt"
       /\ receipt # "stored" => Has(F, "receipt")
  BY <1>6, <1>8 DEF Has
<1>12. /\ c # 1 => Tells(E, request.max)
       /\ stored.kept => Honest(request.cmd, stored, raw, E, c, faults)
  BY <1>4
<1> HIDE DEF E, F
<1>13. Tells(E, request.max) => Tells(F, request.max)
  <2>1. (\E e \in F : e.what = "payload" /\ Detect(e.text))
           => \E e \in E : e.what = "payload" /\ Detect(e.text)
    BY <1>11
  <2>2. \A w : Has(E, w) => Has(F, w)
    BY <1>11 DEF Has
  <2> QED
    BY <1>11, <2>1, <2>2 DEF Tells
<1>14. Honest(request.cmd, stored, raw, E, c, faults)
          => Honest(request.cmd, stored, raw, F, c, faults)
  BY <1>11 DEF Honest, Has
<1>15. Settled(F, c)
  <2>1. stored.kept \/ (receipt # None /\ Has(F, "receipt"))
    BY <1>5, <1>11, NoneAssumption
  <2> QED
    BY <1>12, <1>13, <1>14, <2>1 DEF Settled
<1>16. /\ Producing' /\ ~Asking'
       /\ c # 1 => /\ Tells(F, request.max)
                   /\ stored.kept \/ (receipt # None /\ Has(F, "receipt"))
       /\ stored.kept => Honest(request.cmd, stored, raw, F, c, faults)
  BY <1>1, <1>5, <1>15 DEF Producing, Asking, Settled
<1>17. F = Range(shown') \cup Said(u \o d)
  BY <1>1 DEF F
<1>18. EndStage(W)'
  BY <1>1, <1>8, <1>10, <1>16, <1>17 DEF EndStage, Due, Settled
<1>19. Types' /\ (Producing' <=> Producing)
  BY <1>1, <1>3 DEF Types, Producing
<1> QED
  BY <1>1, <1>2, <1>3, <1>18, <1>19 DEF GateInv, Stages

\* A process exits when it has said what was due.
LEMMA ExitStep ==
  ASSUME NEW W, W \subseteq Words, GateInv(W), Exit
  PROVE  GateInv(W)'
<1>1. /\ pc = "busy" /\ Head(todo).do = "exit"
      /\ UNCHANGED <<request, raw, shown, receipt, stored, faults>>
      /\ pc' = "exited" /\ exit' = Head(todo).code /\ todo' = << >>
  BY DEF Exit, Busy, Pending
<1>2. Exits
  BY <1>1, Leading
<1>3. Types /\ shown \in Seq(Entries(W))
  BY DEF GateInv
<1>4. Types' /\ (Producing' <=> Producing)
  BY <1>1, <1>3 DEF Types, Producing
<1>5. \A G, x : Due(G, x)' <=> Due(G, x)
  BY <1>1 DEF Due, Settled, Producing, Asking, Fits
<1>6. exit' \in Nat /\ Due(Range(shown), exit')
  BY <1>1, <1>2 DEF Exits
<1>7. Stages(W)'
  <2>1. Due(Range(shown), exit)'
    BY <1>1, <1>5, <1>6
  <2> QED
    BY <1>1, <1>6, <2>1 DEF Stages
<1> QED
  BY <1>1, <1>3, <1>4, <1>7 DEF GateInv

\* A handler begins.
LEMMA OpensStep ==
  ASSUME NEW W, Permits(W, request.pia), GateInv(W), pc \in {"start", "read"},
         pc' = "busy", UNCHANGED <<request, shown, receipt, stored, exit>>,
         raw' \in Text \X Text, faults' \in 0..MaxFaults,
         Opens(todo', W, raw')
  PROVE  GateInv(W)'
<1>1. Types /\ shown \in Seq(Entries(W)) /\ Stages(W)
  BY DEF GateInv
<1>2. /\ Producing /\ exit = None /\ shown = << >> /\ receipt = None
      /\ stored = NotStored
  BY <1>1 DEF Stages
<1>3. ~stored.kept
  BY <1>2 DEF NotStored
<1>4. Types' /\ Producing' /\ ~Asking'
  BY <1>1, <1>2 DEF Types, Producing, Asking, NotStored
<1>5. Range(shown') = {}
  BY <1>2 DEF Range
<1>6. faults' \in Nat
  BY InputsKnown
<1>7. CASE \E a \in Seq(Emits(W)) : todo' = AtEnd(a, 1)
  <2>1. PICK a \in Seq(Emits(W)) : todo' = AtEnd(a, 1)
    BY <1>7
  <2>2. 1 \in Nat
    OBVIOUS
  <2>3. EndStage(W)'
    BY <1>3, <1>4, <2>1, <2>2 DEF EndStage, Due, Settled
  <2> QED
    BY <1>1, <1>2, <1>3, <1>4, <2>3 DEF GateInv, Stages
<1>8. CASE \E a, b, d \in Seq(Emits(W)), k \in Keeps, c \in Nat :
              /\ todo' = AtKeep(a, k, b, d, c)
              /\ c # 1 => Tells(Said(a) \cup Said(b) \cup Said(d), request.max)
              /\ Honest(request.cmd, k, raw',
                        Said(a) \cup Said(b) \cup Said(d), c, 0)
              /\ request.cmd # "run" => Has(Said(a), "stats")
  <2>1. PICK a \in Seq(Emits(W)), b \in Seq(Emits(W)), d \in Seq(Emits(W)),
             k \in Keeps, c \in Nat :
              /\ todo' = AtKeep(a, k, b, d, c)
              /\ c # 1 => Tells(Said(a) \cup Said(b) \cup Said(d), request.max)
              /\ Honest(request.cmd, k, raw',
                        Said(a) \cup Said(b) \cup Said(d), c, 0)
              /\ request.cmd # "run" => Has(Said(a), "stats")
    BY <1>8
  <2> DEFINE E == Said(a) \cup Said(b) \cup Said(d)
  <2>2. Range(shown') \cup Said(a) \cup Said(b) \cup Said(d) = E
    BY <1>5
  <2>3. Honest(request.cmd, k, raw', E, c, faults')
    <3>1. Honest(request.cmd, k, raw', E, c, 0)
      BY <2>1
    <3> HIDE DEF E
    <3> QED
      BY <3>1 DEF Honest
  <2>4. KeepStage(W)'
    BY <1>2, <1>4, <2>1, <2>2, <2>3 DEF KeepStage, NotStored
  <2> QED
    BY <1>1, <1>2, <1>3, <1>4, <2>4 DEF GateInv, Stages
<1> QED
  BY <1>7, <1>8 DEF Opens, Delivers

\* A refusal says so and ends.
LEMMA RefusalOpens ==
  ASSUME NEW W, Permits(W, request.pia), NEW r
  PROVE  /\ Opens(Failure(1), W, r) /\ Opens(Status \o Failure(1), W, r)
         /\ Opens(Status \o Quit(1), W, r)
<1>1. /\ Complaint \in Seq(Emits(W)) /\ Failure(1) = AtEnd(Complaint, 1)
  BY ComplaintType DEF AtEnd
<1>2. Status \in Seq(Emits(W)) /\ Status \o Quit(1) = AtEnd(Status, 1)
  BY StatusType DEF AtEnd
<1>3. W \subseteq Words
  BY DEF Permits
<1>4. Status \in Seq(Calls) /\ Complaint \in Seq(Calls) /\ 1 \in Nat
  BY <1>1, <1>2, <1>3, EmitsAreCalls
<1>5. Status \o Failure(1) = AtEnd(Status \o Complaint, 1)
  BY <1>1, <1>4, EndPrefixed
<1>6. Status \o Complaint \in Seq(Emits(W))
  BY <1>1, <1>2, SaidConcat
<1> QED
  BY <1>1, <1>2, <1>5, <1>6 DEF Opens

\* A handler resolves its path, reads, and begins or gives up.
LEMMA StartSteps ==
  ASSUME NEW W, Permits(W, request.pia), GateInv(W),
         ResolvePath \/ CheckArguments \/ ReadInput \/ ReadFails
  PROVE  GateInv(W)'
<1>1. Types /\ shown \in Seq(Entries(W)) /\ Stages(W)
  BY DEF GateInv
<1>2. /\ pc \in {"start", "read"}
      /\ UNCHANGED <<request, shown, receipt, stored, exit>>
  BY DEF ResolvePath, CheckArguments, ReadInput, ReadFails
<1>3. /\ Producing /\ exit = None /\ shown = << >> /\ receipt = None
      /\ stored = NotStored /\ todo = << >>
  BY <1>1, <1>2 DEF Stages
<1>4. ASSUME pc' = "read", UNCHANGED <<todo, raw, faults>>
      PROVE  GateInv(W)'
  <2>1. Types' /\ Producing' /\ ~stored.kept
    BY <1>1, <1>2, <1>3, <1>4 DEF Types, Producing, NotStored
  <2> QED
    BY <1>1, <1>2, <1>3, <1>4, <2>1 DEF GateInv, Stages, NotStored
<1>5. ASSUME pc' = "busy", raw' \in Text \X Text, faults' \in 0..MaxFaults,
             Opens(todo', W, raw')
      PROVE  GateInv(W)'
  BY <1>2, <1>5, OpensStep
<1>6. raw \in Text \X Text /\ faults \in 0..MaxFaults
  BY <1>1 DEF Types
<1>7. request \in Requests
  BY <1>1, <1>3, CommandsKnown DEF Types, Producing
<1>8. CASE ResolvePath
  <2> DEFINE v == Resolve(request.path, request.action)
  <2>1. UNCHANGED <<raw, faults>>
    BY <1>8 DEF ResolvePath
  <2>2. CASE pc' = "read" /\ UNCHANGED todo
    BY <1>4, <2>1, <2>2
  <2>3. CASE Call(Refusal(v))
    <3> HIDE DEF v
    <3>1. Opens(Failure(1), W, raw) /\ Opens(Status \o Failure(1), W, raw)
      BY RefusalOpens
    <3>2. Opens(Refusal(v), W, raw)
      BY <3>1 DEF Refusal
    <3> QED
      BY <1>5, <1>6, <2>1, <2>3, <3>2 DEF Call
  <2> QED
    BY <1>8, <2>2, <2>3 DEF ResolvePath
<1>9. CASE CheckArguments
  <2>1. UNCHANGED <<raw, faults>>
    BY <1>9 DEF CheckArguments
  <2>2. CASE pc' = "read" /\ UNCHANGED todo
    BY <1>4, <2>1, <2>2
  <2>3. CASE Call(Status \o Quit(1))
    <3>1. Opens(Status \o Quit(1), W, raw)
      BY RefusalOpens
    <3> QED
      BY <1>5, <1>6, <2>1, <2>3, <3>1 DEF Call
  <2> QED
    BY <1>9, <2>2, <2>3 DEF CheckArguments
<1>10. CASE ReadInput
  <2>1. ASSUME NEW t \in Texts \cup ErrTexts
        PROVE  t \in Text
    BY InputsKnown DEF Text, Words
  <2>2. << >> \in Text
    BY DEF Text
  <2>3. PICK t \in Texts :
          \/ request.cmd = "cat" /\ raw' = <<t, << >> >> /\ Call(Cat(t))
          \/ /\ request.cmd = "grep" /\ raw' = <<t, << >> >>
             /\ \E partial \in BOOLEAN, names \in Names :
                   Call(Grep(t, partial, names))
          \/ /\ request.cmd = "run"
             /\ \E e \in ErrTexts, code \in Statuses :
                   raw' = <<t, e>> /\ Call(Run(t, e, code))
    BY <1>10 DEF ReadInput
  <2>4. t \in Text /\ UNCHANGED faults
    BY <1>10, <2>1 DEF ReadInput
  <2>5. CASE request.cmd = "cat" /\ raw' = <<t, << >> >> /\ Call(Cat(t))
    <3>1. Opens(Cat(t), W, <<t, << >> >>)
      BY <1>7, <2>4, <2>5, CatOpens DEF Opens
    <3> QED
      BY <1>5, <1>6, <2>2, <2>4, <2>5, <3>1 DEF Call
  <2>6. CASE /\ request.cmd = "grep" /\ raw' = <<t, << >> >>
             /\ \E partial \in BOOLEAN, names \in Names :
                   Call(Grep(t, partial, names))
    <3>1. PICK partial \in BOOLEAN, names \in Names :
             Call(Grep(t, partial, names))
      BY <2>6
    <3>2. Opens(Grep(t, partial, names), W, <<t, << >> >>)
      BY <1>7, <2>4, GrepOpens DEF Opens, Withholds
    <3> QED
      BY <1>5, <1>6, <2>2, <2>4, <2>6, <3>1, <3>2 DEF Call
  <2>7. CASE /\ request.cmd = "run"
             /\ \E e \in ErrTexts, code \in Statuses :
                   raw' = <<t, e>> /\ Call(Run(t, e, code))
    <3>1. PICK e \in ErrTexts, code \in Statuses :
             raw' = <<t, e>> /\ Call(Run(t, e, code))
      BY <2>7
    <3>2. e \in Text /\ code \in Nat \cup {None}
      BY <2>1, InputsKnown
    <3>3. Opens(Run(t, e, code), W, <<t, e>>)
      BY <1>7, <2>4, <2>7, <3>2, RunOpens
    <3> QED
      BY <1>5, <1>6, <2>4, <3>1, <3>2, <3>3 DEF Call
  <2> QED
    BY <2>3, <2>5, <2>6, <2>7
<1>11. CASE ReadFails
  <2>1. Opens(Failure(1), W, raw)
    BY RefusalOpens
  <2>2. faults' \in 0..MaxFaults /\ UNCHANGED raw
    BY <1>6, <1>11, InputsKnown DEF ReadFails
  <2> QED
    BY <1>5, <1>6, <1>11, <2>1, <2>2 DEF ReadFails, Call
<1> QED
  BY <1>8, <1>9, <1>10, <1>11

\* What is searched for is in the line that is shown of it.
LEMMA MatchLinesType ==
  ASSUME NEW t \in Seq(Clean), NEW literal
  PROVE  /\ MatchLines(t, literal) \in Seq(Clean)
         /\ literal \in Range(t) =>
               /\ literal \in Range(MatchLines(t, literal))
               /\ Len(MatchLines(t, literal)) <= MaxMatchLine
<1>1. CASE literal \notin Range(t)
  BY <1>1 DEF MatchLines
<1>2. CASE literal \in Range(t)
  <2> DEFINE l == <<literal>>
             m == BoundedMatchLine(t, l, MaxMatchLine)
  <2>1. /\ l \in Seq({literal}) /\ Len(l) = 1 /\ l[1] = literal /\ l # << >>
    OBVIOUS
  <2>2. l \in SubSeqs(t)
    <3>1. PICK i \in 1..Len(t) : t[i] = literal
      <4>1. Range(t) = {t[i] : i \in 1..Len(t)}
        BY RangeEquality
      <4> QED
        BY <1>2, <4>1
    <3>2. Len(t) \in Nat /\ i - 1 \in 0..Len(t) /\ i \in 0..Len(t)
      BY LenProperties
    <3>3. SubSeq(t, (i - 1) + 1, i) = l
      <4>1. (i - 1) + 1 = i /\ i \in Int /\ \A k \in i..i : t[k] \in Clean
        <5>1. t[i] \in Clean
          BY ElementOfSeq
        <5> QED
          BY <5>1
      <4>2. /\ SubSeq(t, i, i) \in Seq(Clean)
            /\ Len(SubSeq(t, i, i)) = IF i <= i THEN i - i + 1 ELSE 0
            /\ \A k \in 1..i - i + 1 : SubSeq(t, i, i)[k] = t[i + k - 1]
        BY <4>1, SubSeqProperties
      <4>3. Len(SubSeq(t, i, i)) = 1 /\ SubSeq(t, i, i)[1] = literal
        BY <3>1, <3>2, <4>2
      <4>4. l \in Seq(Clean)
        BY <3>1, ElementOfSeq
      <4>5. \A k \in 1..Len(l) : SubSeq(t, i, i)[k] = l[k]
        BY <2>1, <4>3
      <4>6. SubSeq(t, i, i) = l
        BY <2>1, <4>2, <4>3, <4>4, <4>5, SeqEqual
      <4> QED
        BY <4>1, <4>6
    <3>4. \E x, y \in 0..Len(t) : l = SubSeq(t, x + 1, y)
      BY <3>2, <3>3
    <3> QED
      BY <3>4 DEF SubSeqs
  <2>3. Marker \in Seq(Clean) /\ MaxMatchLine \in Nat
    <3>1. Marker \in Seq(Clean)
      BY NoticesPlain DEF Clean, Words
    <3> QED
      BY <3>1, InputsKnown
  <2>4. Len(l) + Len(Marker) < MaxMatchLine
    BY <2>1, <2>3, LenProperties, InputsKnown
  <2>5. MatchLines(t, literal) = m
    BY <1>2 DEF MatchLines
  <2>6. Range(l) = {literal}
    <3> HIDE DEF l
    <3>1. Range(l) = {l[i] : i \in 1..Len(l)}
      BY <2>1, RangeEquality
    <3> QED
      BY <2>1, <3>1
  <2> HIDE DEF l
  <2>7. /\ m \in Seq(Clean) /\ Len(m) <= MaxMatchLine
        /\ Len(l) + Len(Marker) < MaxMatchLine => Range(l) \subseteq Range(m)
    BY <2>1, <2>2, <2>3, MatchLineFits
  <2> QED
    BY <2>4, <2>5, <2>6, <2>7
<1> QED
  BY <1>1, <1>2

\* How a body is answered with.
LEMMA AnswerScript ==
  ASSUME NEW W, Permits(W, request'.pia), request'.max \in Nat,
         NEW body \in Seq(Clean)
  PROVE  \E a \in Seq(Emits(W)), c \in Nat :
            /\ Answer(body) = AtEnd(a, c)
            /\ \A e \in Said(a) :
                  \/ e.what = "error"
                  \/ e.what = "status" /\ Len(e.text) <= request'.max
                  \/ /\ e.what = "payload"
                     /\ e.text = External(body, request'.max)
<1>1. W \subseteq Words /\ Plain \subseteq W
  BY DEF Permits
<1>2. /\ {"stdout", "stderr"} \subseteq Sinks
      /\ {"status", "payload"} \subseteq Whats
  BY DEF Sinks, Whats
<1>3. body \in Text
  BY RedactClean
<1>4. CASE Stops(body, request'.pia)
  <2> DEFINE t == External(<<"status">>, request'.max)
             s == Emit("stdout", "status", t)
  <2>1. t \in Seq(W) /\ Len(t) <= request'.max
    <3>1. "status" \in Notices
      BY DEF Notices
    <3>2. <<"status">> \in Text /\ t \in Seq(W)
      BY <3>1, NoticeType
    <3> QED
      BY <3>2, ExternalFits
  <2> HIDE DEF t
  <2>2. /\ s \in Seq(Emits(W))
        /\ \A e \in Said(s) : e.what = "status" /\ e.text = t
    BY <1>2, <2>1, EmitType
  <2>3. /\ Complaint \in Seq(Emits(W))
        /\ \A e \in Said(Complaint) : e.what = "error"
        /\ Failure(1) = AtEnd(Complaint, 1)
    BY ComplaintType DEF AtEnd
  <2>4. Answer(body) = s \o Failure(1)
    BY <1>4 DEF Answer, t
  <2> HIDE DEF s
  <2>5. /\ s \o Complaint \in Seq(Emits(W))
        /\ Said(s \o Complaint) = Said(s) \cup Said(Complaint)
    BY <2>2, <2>3, SaidConcat
  <2>6. s \in Seq(Calls) /\ Complaint \in Seq(Calls) /\ 1 \in Nat
    BY <1>1, <2>2, <2>3, EmitsAreCalls
  <2>7. Answer(body) = AtEnd(s \o Complaint, 1)
    BY <2>3, <2>4, <2>6, EndPrefixed
  <2>8. \A e \in Said(s \o Complaint) :
           \/ e.what = "error"
           \/ e.what = "status" /\ Len(e.text) <= request'.max
    BY <2>1, <2>2, <2>3, <2>5
  <2> QED
    BY <2>5, <2>6, <2>7, <2>8
<1>5. CASE ~Stops(body, request'.pia)
  <2> DEFINE t == External(body, request'.max)
             s == Emit("stdout", "payload", t)
  <2>1. t \in Seq(W)
    <3>1. Redact(body) \in Seq(W)
      BY <1>3, <1>5 DEF Permits
    <3> QED
      BY <1>1, <1>3, <3>1, ExternalType
  <2>2. Answer(body) = AtEnd(s, 0)
    BY <1>5 DEF Answer, AtEnd
  <2> HIDE DEF t
  <2>3. /\ s \in Seq(Emits(W))
        /\ \A e \in Said(s) : e.what = "payload" /\ e.text = t
    BY <1>2, <2>1, EmitType
  <2>4. 0 \in Nat
    OBVIOUS
  <2> QED
    BY <2>2, <2>3, <2>4 DEF t
<1> QED
  BY <1>4, <1>5

\* A text rendered with its notices keeps to the budget, has the text in the
\* middle when there is room, and its words.
LEMMA RenderedBody ==
  ASSUME NEW t \in Seq(Clean), NEW max \in Nat
  PROVE  LET x == External(Body(t), max)
         IN  /\ Len(x) <= max
             /\ Len(t) + 2 + Overhead <= max =>
                   /\ \E n \in 1..2 :
                         SubSeq(x, Len(Header) + n + 1, Len(x) - Len(Footer))
                            = t
                   /\ Range(t) \subseteq Range(x)
<1> DEFINE x == External(Body(t), max)
<1>1. PICK p \in Seq(Clean) :
         /\ Len(p) \in 1..2 /\ Body(t) = p \o t
         /\ Body(t) \in Seq(Clean) /\ Len(Body(t)) = Len(p) + Len(t)
  BY BodyType
<1>2. Body(t) \in Text /\ p \in Text /\ t \in Text
  BY <1>1, RedactClean
<1>3. Header \in Text /\ Footer \in Text
  BY NoticesPlain DEF Text, Words
<1>4. Overhead \in Nat /\ Len(t) \in Nat
  BY <1>2, <1>3, LenProperties DEF Overhead, Text
<1>5. Len(x) <= max
  BY <1>2, ExternalFits
<1>6. ASSUME Len(t) + 2 + Overhead <= max
      PROVE  /\ \E n \in 1..2 :
                   SubSeq(x, Len(Header) + n + 1, Len(x) - Len(Footer)) = t
             /\ Range(t) \subseteq Range(x)
  <2>1. Len(Body(t)) \in Nat \ {0} /\ Len(Body(t)) + Overhead <= max
    <3> DEFINE m == Len(p)
               n == Len(t)
    <3>1. m \in 1..2 /\ n \in Nat /\ n + 2 + Overhead <= max
          /\ Len(Body(t)) = m + n
      BY <1>1, <1>4, <1>6
    <3> HIDE DEF m, n
    <3> QED
      BY <1>4, <3>1
  <2>2. x = (Header \o Body(t)) \o Footer
    BY <1>1, <1>2, <2>1, ExternalFits
  <2>3. x = (Header \o (p \o t)) \o Footer
    BY <1>1, <2>2
  <2> HIDE DEF x
  <2>4. SubSeq(x, Len(Header) + Len(p) + 1, Len(x) - Len(Footer)) = t
    BY <1>2, <1>3, <2>3, Middle
  <2>5. Range(t) \subseteq Range(x)
    <3>1. /\ p \in Seq(Words) /\ t \in Seq(Words)
          /\ Header \in Seq(Words) /\ Footer \in Seq(Words)
      BY <1>2, <1>3 DEF Text
    <3> DEFINE u == p \o t
               v == Header \o u
    <3>2. u \in Seq(Words) /\ Range(u) = Range(p) \cup Range(t)
      BY <3>1, ConcatProperties, RangeConcatenation
    <3>3. x = v \o Footer
      BY <2>3
    <3> HIDE DEF u
    <3>4. v \in Seq(Words) /\ Range(v) = Range(Header) \cup Range(u)
      BY <3>1, <3>2, ConcatProperties, RangeConcatenation
    <3> HIDE DEF v
    <3>5. Range(x) = Range(v) \cup Range(Footer)
      BY <3>1, <3>3, <3>4, RangeConcatenation
    <3> QED
      BY <3>2, <3>4, <3>5
  <2> QED
    BY <1>1, <2>4, <2>5
<1> QED
  BY <1>5, <1>6

\* A command that asks of the store begins with nothing said.
LEMMA AskedStep ==
  ASSUME NEW W, Types, NEW q \in Questions, Begin(q),
         stored' \in {stored, NotStored},
         NEW a \in Seq(Emits(W)), NEW c \in Nat,
         Call(AtEnd(a, c)),
         q.cmd \in {"retrieve", "search"} =>
            \A e \in Said(a) : e.what = "error" \/ Fits(e)'
  PROVE  GateInv(W)'
<1>1. /\ request' = q /\ shown' = << >> /\ exit' = None /\ receipt' = None
      /\ raw' = << << >>, << >> >> /\ faults' = 0
      /\ pc' = "busy" /\ todo' = AtEnd(a, c)
  BY DEF Begin, Call
<1>2. q.cmd \in {"retrieve", "search", "report", "store"}
  BY CommandsKnown
<1>3. ~Producing' /\ (Asking' <=> q.cmd \in {"retrieve", "search"})
  BY <1>1, <1>2 DEF Producing, Asking
<1>4. Types'
  <2>1. << >> \in Text /\ 0 \in 0..MaxFaults
    BY InputsKnown DEF Text
  <2>2. stored' = NotStored \/ stored' \in StoredRuns
    BY DEF Types
  <2> QED
    BY <1>1, <2>1, <2>2 DEF Types, NotStored
<1>5. shown' \in Seq(Entries(W)) /\ Range(shown') = {}
  BY <1>1 DEF Range
<1>6. EndStage(W)'
  BY <1>1, <1>3, <1>5 DEF EndStage, Due
<1> QED
  BY <1>1, <1>3, <1>4, <1>5, <1>6 DEF GateInv, Stages

\* retrieve, search, report and store.
LEMMA AskSteps ==
  ASSUME NEW W, NEW q \in Questions, Permits(W, q.pia), Types,
         Ask(q) \/ StoreCommand(q)
  PROVE  GateInv(W)'
<1>1. Begin(q) /\ request' = q /\ stored' \in {stored, NotStored}
  BY DEF Ask, StoreCommand, Begin
<1>2. Permits(W, request'.pia) /\ W \subseteq Words
  BY <1>1 DEF Permits
<1>3. ASSUME NEW a \in Seq(Emits(W)), NEW c \in Nat, Call(AtEnd(a, c)),
             q.cmd \in {"retrieve", "search"} =>
                \A e \in Said(a) : e.what = "error" \/ Fits(e)'
      PROVE  GateInv(W)'
  BY <1>1, <1>3, AskedStep
<1>4. ASSUME Call(Failure(1))
      PROVE  GateInv(W)'
  <2>1. /\ Complaint \in Seq(Emits(W))
        /\ \A e \in Said(Complaint) : e.what = "error"
        /\ Failure(1) = AtEnd(Complaint, 1) /\ 1 \in Nat
    BY ComplaintType DEF AtEnd
  <2> QED
    BY <1>3, <1>4, <2>1
<1>5. CASE StoreCommand(q)
  <2>1. q.cmd = "store"
    BY <1>5 DEF StoreCommand
  <2>2. CASE Call(Status \o Quit(0))
    <3>1. Status \in Seq(Emits(W)) /\ Status \o Quit(0) = AtEnd(Status, 0)
      BY StatusType DEF AtEnd
    <3>2. 0 \in Nat
      OBVIOUS
    <3> QED
      BY <1>3, <2>1, <2>2, <3>1, <3>2
  <2> QED
    BY <1>4, <1>5, <2>2 DEF StoreCommand
<1>6. ASSUME Ask(q), stored.kept
      PROVE  stored \in StoredRuns /\ UNCHANGED stored
  BY <1>6 DEF Types, NotStored, Ask
<1>7. ASSUME Ask(q), q.cmd = "report", NEW status \in Lookups,
             NEW legacy \in BOOLEAN, Call(Report(status, legacy))
      PROVE  GateInv(W)'
  <2>1. "stdout" \in Sinks /\ {"stats", "legacy"} \subseteq Whats /\ 0 \in Nat
    BY DEF Sinks, Whats
  <2>2. CASE status = "active"
    <3>1. stored.kept
      BY <2>2 DEF Lookups
    <3>2. stored.stats \in Statistics
      BY <1>6, <1>7, <3>1 DEF StoredRuns
    <3> DEFINE s == Emit("stdout", "stats", Prepared(StatsText(stored.stats)))
    <3>3. Prepared(StatsText(stored.stats)) \in Seq(Clean)
      BY <3>2, StatsTextType
    <3>4. s \in Seq(Emits(W))
      <4>1. "stats" \in Lists
        BY DEF Lists
      <4> QED
        BY <2>1, <3>3, <4>1, ListType
    <3>5. Report(status, legacy) = AtEnd(s, 0)
      BY <2>2 DEF Report, AtEnd
    <3> QED
      BY <1>3, <1>7, <2>1, <3>4, <3>5
  <2>3. CASE status = "not_found" /\ legacy
    <3> DEFINE s == Emit("stdout", "legacy", Prepared(<<"stats">>))
    <3>1. Prepared(<<"stats">>) \in Seq(W)
      <4>1. "stats" \in Notices
        BY DEF Notices
      <4> QED
        BY <2>1, <4>1, NoticeType
    <3>2. s \in Seq(Emits(W))
      BY <2>1, <3>1, EmitType
    <3>3. Report(status, legacy) = AtEnd(s, 0)
      BY <2>3 DEF Report, AtEnd
    <3> QED
      BY <1>3, <1>7, <2>1, <3>2, <3>3
  <2>4. CASE ~(status = "active") /\ ~(status = "not_found" /\ legacy)
    BY <1>4, <1>7, <2>4 DEF Report
  <2> QED
    BY <2>2, <2>3, <2>4
<1>8. ASSUME Ask(q), stored.kept, q.cmd \in {"retrieve", "search"}
      PROVE  /\ request'.max \in Nat /\ q.stream \in 1..2
             /\ stored.content[q.stream] \in Seq(Clean)
             /\ stored'.content = stored.content
  <2>1. q.max \in Nat /\ q.stream \in 1..2
    BY <1>8, CommandsKnown
  <2>2. stored.content \in Kept \X Kept
    BY <1>6, <1>8 DEF StoredRuns
  <2>3. stored.content[1] \in Seq(Clean) /\ stored.content[2] \in Seq(Clean)
    BY <2>2 DEF Kept, Clean
  <2> QED
    BY <1>1, <1>6, <1>8, <2>1, <2>3
<1>9. ASSUME Ask(q), q.cmd = "retrieve", stored.kept, Call(Retrieve(q.stream))
      PROVE  GateInv(W)'
  <2> DEFINE t == stored.content[q.stream]
             x == External(Body(t), q.max)
  <2>1. /\ q.max \in Nat /\ q.stream \in 1..2 /\ t \in Seq(Clean)
        /\ stored'.content = stored.content
    BY <1>1, <1>8, <1>9
  <2>2. t = stored'.content[q.stream]
    BY <2>1
  <2>3. Call(Answer(Body(t)))
    BY <1>9 DEF Retrieve
  <2> HIDE DEF t
  <2>4. Body(t) \in Seq(Clean)
    BY <2>1, BodyType
  <2>5. PICK a \in Seq(Emits(W)), c \in Nat :
            /\ Answer(Body(t)) = AtEnd(a, c)
            /\ \A e \in Said(a) :
                  \/ e.what = "error"
                  \/ e.what = "status" /\ Len(e.text) <= request'.max
                  \/ /\ e.what = "payload"
                     /\ e.text = External(Body(t), request'.max)
    BY <1>1, <1>2, <2>1, <2>4, AnswerScript
  <2>6. /\ Len(x) <= q.max
        /\ Len(t) + 2 + Overhead <= q.max =>
              \E n \in 1..2 :
                 SubSeq(x, Len(Header) + n + 1, Len(x) - Len(Footer)) = t
    BY <2>1, RenderedBody
  <2> HIDE DEF x
  <2>7. ASSUME NEW e \in Said(a), e.what # "error"
        PROVE  Fits(e)'
    <3>1. CASE e.what = "status"
      BY <1>1, <2>5, <2>7, <3>1 DEF Fits
    <3>2. CASE e.what = "payload"
      <4>1. e.text = x
        BY <1>1, <2>5, <3>2 DEF x
      <4> QED
        BY <1>1, <1>9, <2>2, <2>6, <3>2, <4>1 DEF Fits
    <3> QED
      BY <2>5, <2>7, <3>1, <3>2
  <2>8. Call(AtEnd(a, c))
    BY <2>3, <2>5
  <2> QED
    BY <1>3, <2>7, <2>8
<1>10. ASSUME Ask(q), q.cmd = "search", stored.kept,
              Call(Search(q.stream, q.literal))
       PROVE  GateInv(W)'
  <2> DEFINE t == stored.content[q.stream]
             m == MatchLines(t, q.literal)
             x == External(Body(m), q.max)
  <2>1. /\ q.max \in Nat /\ q.stream \in 1..2 /\ t \in Seq(Clean)
        /\ stored'.content = stored.content
    BY <1>1, <1>8, <1>10
  <2>2. t = stored'.content[q.stream]
    BY <2>1
  <2>3. Call(Answer(Body(m)))
    BY <1>10 DEF Search
  <2> HIDE DEF t
  <2>4. /\ m \in Seq(Clean)
        /\ q.literal \in Range(t) =>
              q.literal \in Range(m) /\ Len(m) <= MaxMatchLine
    BY <2>1, MatchLinesType
  <2> HIDE DEF m
  <2>5. Body(m) \in Seq(Clean)
    BY <2>4, BodyType
  <2>6. PICK a \in Seq(Emits(W)), c \in Nat :
            /\ Answer(Body(m)) = AtEnd(a, c)
            /\ \A e \in Said(a) :
                  \/ e.what = "error"
                  \/ e.what = "status" /\ Len(e.text) <= request'.max
                  \/ /\ e.what = "payload"
                     /\ e.text = External(Body(m), request'.max)
    BY <1>1, <1>2, <2>1, <2>5, AnswerScript
  <2>7. /\ Len(x) <= q.max
        /\ Len(m) + 2 + Overhead <= q.max => Range(m) \subseteq Range(x)
    BY <2>1, <2>4, RenderedBody
  <2>8. ASSUME q.literal \in Range(t), MaxMatchLine + 2 + Overhead <= q.max
        PROVE  q.literal \in Range(x)
    <3>1. Overhead \in Nat
      <4>1. Header \in Seq(Words) /\ Footer \in Seq(Words)
        BY NoticesPlain DEF Words
      <4> QED
        BY <4>1, LenProperties DEF Overhead
    <3>2. Len(m) \in Nat /\ Len(m) <= MaxMatchLine
      BY <2>4, <2>8, LenProperties
    <3> DEFINE n == Len(m)
    <3> HIDE DEF n
    <3>3. Len(m) + 2 + Overhead <= q.max
      BY <2>1, <2>8, <3>1, <3>2, InputsKnown
    <3> QED
      BY <2>4, <2>7, <2>8, <3>3
  <2> HIDE DEF x
  <2>9. ASSUME NEW e \in Said(a), e.what # "error"
        PROVE  Fits(e)'
    <3>1. CASE e.what = "status"
      BY <1>1, <2>6, <2>9, <3>1 DEF Fits
    <3>2. CASE e.what = "payload"
      <4>1. e.text = x
        BY <1>1, <2>6, <3>2 DEF x
      <4> QED
        BY <1>1, <1>10, <2>2, <2>7, <2>8, <3>2, <4>1 DEF Fits
    <3> QED
      BY <2>6, <2>9, <3>1, <3>2
  <2>10. Call(AtEnd(a, c))
    BY <2>3, <2>6
  <2> QED
    BY <1>3, <2>9, <2>10
<1> QED
  BY <1>4, <1>5, <1>7, <1>9, <1>10 DEF Ask

\* Nothing is said or stored at first.
LEMMA GateInit ==
  ASSUME NEW W, Init
  PROVE  GateInv(W)
<1>1. << >> \in Text /\ 0 \in 0..MaxFaults /\ << >> \in Seq(Entries(W))
  BY InputsKnown DEF Text
<1>2. Types
  BY <1>1 DEF Init, Types
<1>3. Producing /\ ~stored.kept
  BY CommandsKnown DEF Init, Producing, NotStored
<1> QED
  BY <1>1, <1>2, <1>3 DEF Init, GateInv, Stages

\* A process keeps to the words its own policy permits it, whatever the process
\* before it was permitted.
LEMMA GateStep ==
  ASSUME NEW W, Permits(W, request'.pia), GateInv(Clean),
         request' = request => GateInv(W), [Next]_vars
  PROVE  GateInv(W)'
<1>1. CASE UNCHANGED vars
  <2>1. /\ UNCHANGED <<request, pc, raw, todo, shown>>
        /\ UNCHANGED <<receipt, stored, exit, faults>>
    BY <1>1 DEF vars
  <2>2. GateInv(W)
    BY <2>1
  <2>3. /\ Producing' <=> Producing
        /\ Asking' <=> Asking
        /\ \A e : Fits(e)' <=> Fits(e)
    BY <2>1 DEF Producing, Asking, Fits
  <2>4. Types' <=> Types
    BY <2>1 DEF Types, NotStored
  <2>5. EndStage(W)' <=> EndStage(W)
    BY <2>1, <2>3 DEF EndStage, Due, Settled
  <2>6. ReceiptStage(W)' <=> ReceiptStage(W)
    BY <2>1, <2>3 DEF ReceiptStage
  <2>7. ASSUME KeepStage(W)
        PROVE  KeepStage(W)'
    <3>1. PICK a \in Seq(Emits(W)), b \in Seq(Emits(W)), d \in Seq(Emits(W)),
               k \in Keeps, c \in Nat :
            /\ todo = AtKeep(a, k, b, d, c)
            /\ c # 1 =>
                  Tells(Range(shown) \cup Said(a) \cup Said(b) \cup Said(d),
                        request.max)
            /\ Honest(request.cmd, k, raw,
                      Range(shown) \cup Said(a) \cup Said(b) \cup Said(d), c,
                      faults)
            /\ request.cmd # "run" =>
                  Has(Range(shown), "stats") \/ Has(Said(a), "stats")
      BY <2>7 DEF KeepStage
    <3>2. Producing /\ receipt = None /\ stored = NotStored
      BY <2>7 DEF KeepStage
    <3> QED
      BY <2>1, <2>3, <3>1, <3>2 DEF KeepStage, NotStored
  <2>8. Stages(W) => Stages(W)'
    BY <2>1, <2>3, <2>5, <2>6, <2>7 DEF Stages, Due, Settled, NotStored
  <2> QED
    BY <2>1, <2>2, <2>3, <2>4, <2>8 DEF GateInv
<1>2. ASSUME NEW q \in Questions, Ask(q) \/ StoreCommand(q)
      PROVE  GateInv(W)'
  <2>1. Types /\ request' = q
    BY <1>2 DEF GateInv, Ask, StoreCommand, Begin
  <2> QED
    BY <1>2, <2>1, AskSteps
<1>3. ASSUME ResolvePath \/ CheckArguments \/ ReadInput \/ ReadFails
                \/ Write \/ WriteFails \/ Store \/ PrintReceipt \/ Exit
      PROVE  GateInv(W)'
  <2>1. request' = request
    BY <1>3 DEF ResolvePath, CheckArguments, ReadInput, ReadFails, Write,
       WriteFails, Store, PrintReceipt, Exit
  <2>2. GateInv(W) /\ Permits(W, request.pia) /\ W \subseteq Words
    BY <2>1 DEF Permits
  <2>3. CASE ResolvePath \/ CheckArguments \/ ReadInput \/ ReadFails
    BY <2>2, <2>3, StartSteps
  <2>4. CASE Write
    <3>1. faults \in 0..MaxFaults /\ faults <= faults /\ UNCHANGED faults
      BY <2>2, <2>4, InputsKnown DEF GateInv, Types, Write
    <3> QED
      BY <2>2, <2>4, <3>1, Moves DEF Write, Pending
  <2>5. CASE WriteFails
    <3>1. /\ faults \in Nat /\ faults < MaxFaults /\ faults' = faults + 1
      BY <2>2, <2>5, InputsKnown DEF GateInv, Types, WriteFails
    <3>2. faults' \in 0..MaxFaults /\ faults <= faults'
      BY <3>1, InputsKnown
    <3>3. CASE Head(todo).what = "error"
      BY <2>2, <2>5, <3>2, <3>3, Moves DEF WriteFails, Pending
    <3>4. CASE Head(todo).what # "error"
      BY <2>2, <2>5, <3>1, <3>4, GivesUp DEF WriteFails, Pending
    <3> QED
      BY <3>3, <3>4
  <2>6. CASE Store
    BY <2>2, <2>6, StoreStep
  <2>7. CASE PrintReceipt
    BY <2>2, <2>7, ReceiptStep
  <2>8. CASE Exit
    BY <2>2, <2>8, ExitStep
  <2> QED
    BY <1>3, <2>3, <2>4, <2>5, <2>6, <2>7, <2>8
<1> QED
  BY <1>1, <1>2, <1>3 DEF Next

\* The invariant holds of every process, whatever its policy.
LEMMA GateInductive == Spec => []GateInv(Clean)
<1>1. Init => GateInv(Clean)
  BY GateInit
<1>2. GateInv(Clean) /\ [Next]_vars => GateInv(Clean)'
  BY PermitsClean, GateStep
<1> QED
  BY <1>1, <1>2, PTL DEF Spec

\* Under Block a process writes no word of an injection.
Guarded == request.pia = "Block" => GateInv(Clean \ {"inj"})

\* It holds under Block with the injections taken out.
LEMMA GuardedInductive == Spec => []Guarded
<1>1. Init => Guarded
  BY GateInit DEF Guarded
<1>2. GateInv(Clean) /\ Guarded /\ [Next]_vars => Guarded'
  <2> SUFFICES ASSUME GateInv(Clean), Guarded, [Next]_vars,
                      request'.pia = "Block"
               PROVE  GateInv(Clean \ {"inj"})'
    BY DEF Guarded
  <2>1. Permits(Clean \ {"inj"}, request'.pia)
    BY PermitsPolicy
  <2>2. request' = request => GateInv(Clean \ {"inj"})
    BY DEF Guarded
  <2> QED
    BY <2>1, <2>2, GateStep
<1> QED
  BY <1>1, <1>2, GateInductive, PTL DEF Spec

-------------------------------------------------------------------------------
(* What follows.                                                             *)

\* Every variable keeps its type, and a process runs until it exits.
THEOREM GateTypes == Spec => []TypeOK
<1>1. GateInv(Clean) => TypeOK
  <2> SUFFICES ASSUME GateInv(Clean)
               PROVE  TypeOK
    OBVIOUS
  <2>1. Types /\ shown \in Seq(Entries(Clean)) /\ Stages(Clean)
    BY DEF GateInv
  <2>2. \A e \in Range(shown) : e.to \in {"stdout", "stderr", "file"}
    <3>1. Range(shown) \subseteq Entries(Clean)
      BY <2>1, RangeOfSeq
    <3> QED
      BY <3>1 DEF Entries, Sinks
  <2>3. Clean \subseteq Words
    BY DEF Clean
  <2>4. pc = "busy" => todo # << >>
    <3>1. EndStage(Clean) => todo # << >>
      <4> SUFFICES ASSUME NEW a \in Seq(Emits(Clean)), NEW c \in Nat
                   PROVE  AtEnd(a, c) # << >>
        BY DEF EndStage
      <4> QED
        BY <2>3, EndHead
    <3>2. ReceiptStage(Clean) => todo # << >>
      <4> SUFFICES ASSUME NEW a \in Seq(Emits(Clean)),
                          NEW d \in Seq(Emits(Clean)), NEW c \in Nat
                   PROVE  AtReceipt(a, d, c) # << >>
        BY DEF ReceiptStage
      <4>1. a \in Seq(Calls) /\ d \in Seq(Calls)
        BY <2>3, EmitsAreCalls
      <4> QED
        BY <4>1, ReceiptEndType
    <3>3. KeepStage(Clean) => todo # << >>
      <4> SUFFICES ASSUME NEW a \in Seq(Emits(Clean)),
                          NEW b \in Seq(Emits(Clean)),
                          NEW d \in Seq(Emits(Clean)),
                          NEW k \in Keeps, NEW c \in Nat
                   PROVE  AtKeep(a, k, b, d, c) # << >>
        BY DEF KeepStage
      <4>1. a \in Seq(Calls) /\ b \in Seq(Calls) /\ d \in Seq(Calls)
        BY <2>3, EmitsAreCalls
      <4> DEFINE q == <<k>> \o AtReceipt(b, d, c)
      <4>2. /\ q \in Seq(Calls) /\ q # << >>
            /\ Head(q) = k /\ Tail(q) = AtReceipt(b, d, c)
        BY <4>1, KeepEndType, SMTT(30)
      <4>3. AtKeep(a, k, b, d, c) = a \o q
        BY DEF AtKeep
      <4> HIDE DEF q
      <4>4. a \o q # << >>
        BY <4>1, <4>2, Leads
      <4> QED
        BY <4>3, <4>4
    <3> QED
      BY <2>1, <3>1, <3>2, <3>3 DEF Stages
  <2>5. /\ pc \in {"start", "read", "busy", "exited"}
        /\ pc = "exited" <=> exit # None
        /\ pc # "busy" => todo = << >>
    BY <2>1, NoneAssumption DEF Stages
  <2> QED
    BY <2>1, <2>2, <2>4, <2>5 DEF TypeOK, Types
<1> QED
  BY <1>1, GateInductive, PTL

\* No secret and no private path reaches stdout, stderr, the JSON file or the
\* store: redaction comes before everything that leaves the process.
THEOREM SecretsStay == Spec => []NothingSecretLeaves
<1>1. GateInv(Clean) => NothingSecretLeaves
  <2> SUFFICES ASSUME GateInv(Clean)
               PROVE  NothingSecretLeaves
    OBVIOUS
  <2>1. Types /\ Range(shown) \subseteq Entries(Clean)
    BY RangeOfSeq DEF GateInv
  <2>2. ASSUME NEW e \in Range(shown)
        PROVE  {"key", "home"} \cap Range(e.text) = {}
    <3>1. e.text \in Seq(Clean)
      BY <2>1 DEF Entries
    <3>2. Range(e.text) \subseteq Clean
      BY <3>1, RangeOfSeq
    <3> QED
      BY <3>2 DEF Clean
  <2>3. ASSUME stored.kept, NEW i \in 1..2
        PROVE  {"key", "home", "crlf"} \cap Range(stored.content[i]) = {}
    <3>1. stored \in StoredRuns
      BY <2>1, <2>3 DEF Types, NotStored
    <3>2. stored.content[i] \in Kept
      <4>1. stored.content \in Kept \X Kept
        BY <3>1 DEF StoredRuns
      <4> QED
        BY <4>1
    <3>3. Range(stored.content[i]) \subseteq Words \ {"key", "home", "crlf"}
      BY <3>2, RangeOfSeq DEF Kept
    <3> QED
      BY <3>3
  <2> QED
    BY <2>2, <2>3 DEF NothingSecretLeaves
<1> QED
  BY <1>1, GateInductive, PTL

\* Whatever the texts, the names and the command lines are, nothing that is
\* shown under Block has an injection but the list of a partial search and the
\* command line in the statistics, which are printed under Warn.
THEOREM PolicyIsKept == Spec => []PolicyHolds
<1>1. Guarded => PolicyHolds
  <2> SUFFICES ASSUME Guarded, request.pia = "Block", NEW e \in Range(shown),
                      e.what \notin {"gaps", "stats", "json"}
               PROVE  ~Detect(e.text)
    BY DEF PolicyHolds
  <2>1. Range(shown) \subseteq Entries(Clean \ {"inj"})
    BY RangeOfSeq DEF Guarded, GateInv
  <2>2. e.text \in Seq(Clean \ {"inj"})
    BY <2>1 DEF Entries, Within, Lists
  <2>3. Range(e.text) \subseteq Clean \ {"inj"}
    BY <2>2, RangeOfSeq
  <2> QED
    BY <2>3 DEF Detect
<1> QED
  BY <1>1, GuardedInductive, PTL

\* What a blocked command withheld is not in the store: a stream that is kept
\* was shown.
THEOREM BlockedIsNotKept == Spec => []BlockedLeavesNothing
<1>1. GateInv(Clean) => BlockedLeavesNothing
  <2> SUFFICES ASSUME GateInv(Clean), Producing, exit # None, faults = 0,
                      stored.kept
               PROVE  /\ stored.content[1] # << >> =>
                            \E e \in Written("payload") : e.to = "stdout"
                      /\ stored.content[2] # << >> =>
                            \E e \in Written("payload") : e.to = "stderr"
    BY DEF BlockedLeavesNothing
  <2>1. Due(Range(shown), exit)
    BY DEF GateInv, Stages
  <2>2. Honest(request.cmd, stored, raw, Range(shown), exit, faults)
    BY <2>1 DEF Due, Settled
  <2> QED
    BY <2>2 DEF Honest, Written
<1> QED
  BY <1>1, GateInductive, PTL

\* The store holds what was read, token for token, but for what is redacted.
THEOREM KeptWhole == Spec => []KeptInFull
<1>1. GateInv(Clean) => KeptInFull
  BY KeptSame DEF KeptInFull, Same
<1> QED
  BY <1>1, GateInductive, PTL

\* An exit status other than that of a failure means that the answer was shown,
\* with a warning where one was due, and that it was told whether it is stored.
THEOREM SuccessTells == Spec => []SuccessIsTold
<1>1. GateInv(Clean) => SuccessIsTold
  <2> SUFFICES ASSUME GateInv(Clean), Producing, exit \in {0, 2, 3}
               PROVE  SuccessIsTold
    BY DEF SuccessIsTold
  <2>1. exit # None /\ exit # 1
    BY NoneAssumption
  <2>2. Due(Range(shown), exit)
    BY <2>1 DEF GateInv, Stages
  <2>3. /\ Tells(Range(shown), request.max)
        /\ stored.kept \/ (receipt # None /\ Has(Range(shown), "receipt"))
        /\ stored.kept => Honest(request.cmd, stored, raw,
                                 Range(shown), exit, faults)
    BY <2>1, <2>2 DEF Due, Settled
  <2>4. \A w : Has(Range(shown), w) => Written(w) # {}
    BY DEF Has, Written
  <2>5. (\E e \in Written("payload") : Detect(e.text))
              /\ request.max > Overhead
           => \E e \in Written("warning") : "warning" \in Range(e.text)
    BY <2>3 DEF Tells, Written
  <2>6. stored.kept => stored.stats.code = exit
                          \/ (stored.stats.code = None /\ exit = 0)
    BY <2>1, <2>3 DEF Honest
  <2>7. Written("stats") # {} /\ Written("payload") # {}
    BY <2>3, <2>4 DEF Tells
  <2>8. stored.kept \/ (receipt # None /\ Written("receipt") # {})
    BY <2>3, <2>4
  <2> QED
    BY <2>5, <2>6, <2>7, <2>8 DEF SuccessIsTold
<1> QED
  BY <1>1, GateInductive, PTL

\* A stored run has been named on stderr, or could not be.
THEOREM StoredTells == Spec => []StoredIsNamed
<1>1. GateInv(Clean) => StoredIsNamed
  <2> SUFFICES ASSUME GateInv(Clean), Producing, stored.kept,
                      exit # None \/ request.cmd # "run"
               PROVE  \/ Written("stats") # {}
                      \/ request.cmd = "run" /\ faults > 0
    BY DEF StoredIsNamed
  <2>1. Has(Range(shown), "stats") => Written("stats") # {}
    BY DEF Has, Written
  <2>2. CASE request.cmd # "run"
    BY <2>1, <2>2 DEF GateInv
  <2>3. CASE request.cmd = "run" /\ exit # None
    <3>1. Due(Range(shown), exit)
      BY <2>3 DEF GateInv, Stages
    <3>2. Honest(request.cmd, stored, raw, Range(shown), exit, faults)
      BY <3>1 DEF Due, Settled
    <3>3. faults = 0 \/ faults > 0
      BY InputsKnown DEF GateInv, Types
    <3> QED
      BY <2>1, <2>3, <3>2, <3>3 DEF Honest
  <2> QED
    BY <2>2, <2>3
<1> QED
  BY <1>1, GateInductive, PTL

\* Answers of retrieve and search keep to max characters and give what was
\* asked for where that has room.
THEOREM AnswersHaveRoom == Spec => []AnswersFit
<1>1. GateInv(Clean) => AnswersFit
  <2> SUFFICES ASSUME GateInv(Clean), Asking,
                      NEW e \in Range(shown) \ Written("error")
               PROVE  Fits(e)
    BY DEF AnswersFit, Asking
  <2>1. e \in Range(shown) /\ e.what # "error" /\ ~Producing
    BY DEF Written, Producing, Asking
  <2>2. CASE Due(Range(shown), exit)
    BY <2>1, <2>2 DEF Due
  <2>3. CASE EndStage(Clean)
    <3>1. PICK a \in Seq(Emits(Clean)), c \in Nat :
             Due(Range(shown) \cup Said(a), c)
      BY <2>3 DEF EndStage
    <3> QED
      BY <2>1, <3>1 DEF Due
  <2>4. Due(Range(shown), exit) \/ EndStage(Clean)
    BY <2>1 DEF GateInv, Stages, ReceiptStage, KeepStage
  <2> QED
    BY <2>2, <2>3, <2>4
<1> QED
  BY <1>1, GateInductive, PTL

-------------------------------------------------------------------------------
(* Paths.                                                                    *)

\* A set of numbers has a least one.
LEMMA Least ==
  ASSUME NEW T \in SUBSET Nat, T # {}
  PROVE  \E m \in T : \A n \in T : m <= n
<1>1. PICK x \in T : \A y \in T : ~(<<y, x>> \in OpToRel(<, Nat))
  BY NatLessThanWellFounded, WFMin, Zenon
<1>2. \A y \in T : ~(y < x)
  BY <1>1 DEF OpToRel
<1> QED
  BY <1>2

\* A path can be walked name by name.
IsWalk(h, S, start, step, path) ==
    /\ h \in [0..Len(path) -> S] /\ h[0] = start
    /\ \A n \in 1..Len(path) : h[n] = step[<<h[n - 1], path[n]>>]

LEMMA Walk ==
  ASSUME NEW S, NEW N, NEW start \in S, NEW step \in [S \X N -> S],
         NEW path \in Seq(N)
  PROVE  \E h : IsWalk(h, S, start, step, path)
<1> DEFINE Walked(h, k) ==
             /\ h \in [0..k -> S] /\ h[0] = start
             /\ \A n \in 1..k : h[n] = step[<<h[n - 1], path[n]>>]
           T == {k \in 0..Len(path) : ~\E h : Walked(h, k)}
<1>1. Len(path) \in Nat /\ \A n \in 1..Len(path) : path[n] \in N
  BY LenProperties
<1>2. T = {}
  <2> SUFFICES ASSUME T # {}
               PROVE  FALSE
    OBVIOUS
  <2>1. T \in SUBSET Nat
    BY <1>1
  <2>2. PICK m \in T : \A n \in T : m <= n
    BY <2>1, Least
  <2>3. m \in 0..Len(path) /\ ~\E h : Walked(h, m)
    OBVIOUS
  <2>4. m # 0
    <3>1. Walked([i \in 0..0 |-> start], 0)
      OBVIOUS
    <3> QED
      BY <2>3, <3>1
  <2>5. m - 1 \in 0..Len(path) /\ ~(m <= m - 1)
    BY <1>1, <2>3, <2>4
  <2>6. m - 1 \notin T
    BY <2>2, <2>5
  <2>7. PICK h : Walked(h, m - 1)
    BY <2>5, <2>6
  <2> DEFINE g == [i \in 0..m |-> IF i = m THEN step[<<h[m - 1], path[m]>>]
                                 ELSE h[i]]
  <2>8. h[m - 1] \in S /\ path[m] \in N
    BY <1>1, <2>3, <2>4, <2>7
  <2>9. step[<<h[m - 1], path[m]>>] \in S
    BY <2>8
  <2>10. \A i \in 0..m : i # m => i \in 0..m - 1 /\ h[i] \in S
    BY <1>1, <2>3, <2>7
  <2>11. g \in [0..m -> S] /\ g[0] = start
    BY <1>1, <2>3, <2>4, <2>7, <2>9, <2>10
  <2>12. ASSUME NEW n \in 1..m
         PROVE  g[n] = step[<<g[n - 1], path[n]>>]
    <3>1. n \in 0..m /\ n - 1 \in 0..m /\ n - 1 # m
      BY <1>1, <2>3
    <3>2. g[n - 1] = h[n - 1]
      BY <3>1
    <3>3. CASE n = m
      BY <3>1, <3>2, <3>3
    <3>4. CASE n # m
      <4>1. n \in 1..m - 1
        BY <1>1, <2>3, <3>4
      <4> QED
        BY <2>7, <3>1, <3>2, <3>4, <4>1
    <3> QED
      BY <3>3, <3>4
  <2>13. Walked(g, m)
    BY <2>11, <2>12
  <2> HIDE DEF Walked, g
  <2> QED
    BY <2>3, <2>13
<1>3. Len(path) \in 0..Len(path)
  BY <1>1
<1> QED
  BY <1>2, <1>3 DEF IsWalk

\* Where a walk may be.
Places == DOMAIN Nodes \cup {Missing}

\* canonicalize stays in the file system.
LEMMA DescendType ==
  ASSUME NEW at \in Places, NEW name
  PROVE  Descend(at, name) \in Places
<1>1. /\ << >> \in DOMAIN Nodes
      /\ \A p \in DOMAIN Links : Links[p] \in Places
      /\ \A p \in DOMAIN Nodes : p # << >> => Front(p) \in DOMAIN Nodes
  BY FileSystemAssumption DEF Places
<1> DEFINE child == Append(at, name)
<1>2. Missing \in Places /\ DOMAIN Nodes \subseteq Places
  BY DEF Places
<1>3. Descend(at, name)
         = IF at \notin DOMAIN Nodes \/ Nodes[at] # "dir" THEN Missing
           ELSE IF name = ".." THEN IF at = << >> THEN at ELSE Front(at)
           ELSE IF child \in DOMAIN Links THEN Links[child]
           ELSE IF child \in DOMAIN Nodes THEN child
           ELSE Missing
  BY DEF Descend
<1> HIDE DEF child
<1> QED
  BY <1>1, <1>2, <1>3

\* canonicalize is the walk of its path.
LEMMA CanonicalIs ==
  ASSUME NEW p \in Seq(STRING), NEW h, h = [n \in 0..Len(p) |-> h[n]],
         h[0] = << >>,
         \A n \in 1..Len(p) : h[n] = Descend(h[n - 1], p[n])
  PROVE  Canonical(p) = h[Len(p)]
<1> DEFINE Walks(w) == [n \in 0..Len(p) |-> IF n = 0 THEN << >>
                                           ELSE Descend(w[n - 1], p[n])]
           w0 == CHOOSE w : w = Walks(w)
           T == {n \in 0..Len(p) : w0[n] # h[n]}
<1>1. Canonical(p) = w0[Len(p)]
  BY DEF Canonical
<1>2. Len(p) \in Nat
  BY LenProperties
<1>3. \A n \in 0..Len(p) :
         h[n] = IF n = 0 THEN << >> ELSE Descend(h[n - 1], p[n])
  BY <1>2
<1>4. h = Walks(h)
  BY <1>3
<1>5. w0 = Walks(w0)
  BY <1>4
<1>6. \A n \in 0..Len(p) :
         w0[n] = IF n = 0 THEN << >> ELSE Descend(w0[n - 1], p[n])
  BY <1>5
<1> HIDE DEF w0
<1>7. T = {}
  <2> SUFFICES ASSUME T # {}
               PROVE  FALSE
    OBVIOUS
  <2>1. T \in SUBSET Nat
    BY <1>2
  <2>2. PICK m \in T : \A n \in T : m <= n
    BY <2>1, Least
  <2>3. m \in 0..Len(p) /\ w0[m] # h[m]
    OBVIOUS
  <2>4. m # 0
    BY <1>3, <1>6, <2>3
  <2>5. m - 1 \in 0..Len(p) /\ ~(m <= m - 1)
    BY <1>2, <2>3, <2>4
  <2>6. w0[m - 1] = h[m - 1]
    BY <2>2, <2>5
  <2> QED
    BY <1>3, <1>6, <2>3, <2>4, <2>6
<1>8. Len(p) \in 0..Len(p)
  BY <1>2
<1> QED
  BY <1>1, <1>7, <1>8

\* One name of the lexical reference.
Pushes(at, name) ==
    IF name # ".." THEN Append(at, name)
    ELSE IF at = << >> THEN << >> ELSE Front(at)

\* It leaves a path.
LEMMA PushesType ==
  ASSUME NEW at \in Seq(STRING), NEW name \in STRING
  PROVE  Pushes(at, name) \in Seq(STRING)
<1>1. at # << >> => Front(at) \in Seq(STRING)
  <2> SUFFICES ASSUME at # << >>
               PROVE  Front(at) \in Seq(STRING)
    OBVIOUS
  <2>1. Len(at) \in Nat /\ Len(at) # 0
    BY EmptySeq, LenProperties
  <2>2. 1 \in 1..Len(at) + 1 /\ Len(at) - 1 \in 0..Len(at)
    BY <2>1
  <2> QED
    BY <2>1, <2>2, SubSeqProperties DEF Front
<1>2. Append(at, name) \in Seq(STRING)
  BY AppendProperties
<1> QED
  BY <1>1, <1>2, EmptySeq DEF Pushes

\* The lexical reference is the walk of its path.
LEMMA LexicalIs ==
  ASSUME NEW p \in Seq(STRING), NEW h, h = [n \in 0..Len(p) |-> h[n]],
         h[0] = << >>,
         \A n \in 1..Len(p) : h[n] = Pushes(h[n - 1], p[n])
  PROVE  Lexical(p) = h[Len(p)]
<1> DEFINE Walks(w) == [n \in 0..Len(p) |->
                          IF n = 0 THEN << >>
                          ELSE IF p[n] # ".." THEN Append(w[n - 1], p[n])
                          ELSE IF w[n - 1] = << >> THEN << >>
                          ELSE Front(w[n - 1])]
           w0 == CHOOSE w : w = Walks(w)
           T == {n \in 0..Len(p) : w0[n] # h[n]}
<1>1. Lexical(p) = w0[Len(p)]
  BY DEF Lexical
<1>2. Len(p) \in Nat
  BY LenProperties
<1>3. \A n \in 0..Len(p) :
         h[n] = IF n = 0 THEN << >> ELSE Pushes(h[n - 1], p[n])
  BY <1>2
<1>4. \A w : Walks(w) = [n \in 0..Len(p) |->
                          IF n = 0 THEN << >> ELSE Pushes(w[n - 1], p[n])]
  BY DEF Pushes
<1> HIDE DEF Walks
<1>5. h = Walks(h)
  BY <1>3, <1>4
<1>6. w0 = Walks(w0)
  BY <1>5
<1> HIDE DEF w0
<1>7. \A n \in 0..Len(p) :
         w0[n] = IF n = 0 THEN << >> ELSE Pushes(w0[n - 1], p[n])
  BY <1>4, <1>6
<1>8. T = {}
  <2> SUFFICES ASSUME T # {}
               PROVE  FALSE
    OBVIOUS
  <2>1. T \in SUBSET Nat
    BY <1>2
  <2>2. PICK m \in T : \A n \in T : m <= n
    BY <2>1, Least
  <2>3. m \in 0..Len(p) /\ w0[m] # h[m]
    OBVIOUS
  <2>4. m # 0
    BY <1>3, <1>7, <2>3
  <2>5. m - 1 \in 0..Len(p) /\ ~(m <= m - 1)
    BY <1>2, <2>3, <2>4
  <2>6. w0[m - 1] = h[m - 1]
    BY <2>2, <2>5
  <2> QED
    BY <1>3, <1>7, <2>3, <2>4, <2>6
<1>9. Len(p) \in 0..Len(p)
  BY <1>2
<1> QED
  BY <1>1, <1>8, <1>9

\* What canonicalize passes on its way are the prefixes, canonicalized.
LEMMA Descended ==
  ASSUME NEW p \in Seq(STRING)
  PROVE  \E h \in [0..Len(p) -> Places] :
            /\ h[0] = << >>
            /\ \A n \in 1..Len(p) : h[n] = Descend(h[n - 1], p[n])
            /\ \A i \in 0..Len(p) : Canonical(SubSeq(p, 1, i)) = h[i]
<1> DEFINE step == [x \in Places \X STRING |-> Descend(x[1], x[2])]
<1>1. step \in [Places \X STRING -> Places]
  BY DescendType
<1>2. << >> \in Places
  BY FileSystemAssumption DEF Places
<1>3. Len(p) \in Nat /\ \A n \in 1..Len(p) : p[n] \in STRING
  BY LenProperties
<1>4. \A at \in Places, name \in STRING :
         step[<<at, name>>] = Descend(at, name)
  OBVIOUS
<1> HIDE DEF step
<1>5. PICK h \in [0..Len(p) -> Places] :
         /\ h[0] = << >>
         /\ \A n \in 1..Len(p) : h[n] = step[<<h[n - 1], p[n]>>]
  <2>1. \E h : IsWalk(h, Places, << >>, step, p)
    BY <1>1, <1>2, Walk
  <2> QED
    BY <2>1 DEF IsWalk
<1>6. ASSUME NEW n \in 1..Len(p)
      PROVE  h[n] = Descend(h[n - 1], p[n])
  <2>1. n - 1 \in 0..Len(p)
    BY <1>3
  <2>2. h[n - 1] \in Places
    BY <2>1
  <2> QED
    BY <1>3, <1>4, <1>5, <2>2
<1>7. ASSUME NEW i \in 0..Len(p)
      PROVE  Canonical(SubSeq(p, 1, i)) = h[i]
  <2> DEFINE q == SubSeq(p, 1, i)
             g == [n \in 0..i |-> h[n]]
  <2>1. /\ q \in Seq(STRING) /\ Len(q) = i
        /\ \A n \in 1..i : q[n] = p[n]
    <3>1. 1 \in 1..Len(p) + 1
      BY <1>3
    <3>2. /\ q \in Seq(STRING)
          /\ Len(q) = IF 1 <= i THEN i - 1 + 1 ELSE 0
          /\ \A n \in 1..i - 1 + 1 : q[n] = p[1 + n - 1]
      BY <1>3, <3>1, SubSeqProperties
    <3>3. i \in Nat /\ i - 1 + 1 = i
      BY <1>3
    <3>4. Len(q) = i
      BY <3>2, <3>3
    <3> HIDE DEF q
    <3> QED
      BY <3>2, <3>3, <3>4
  <2>2. \A n \in 0..i : g[n] = h[n]
    OBVIOUS
  <2>3. \A n \in 1..i : g[n] = Descend(g[n - 1], q[n])
    <3> SUFFICES ASSUME NEW n \in 1..i
                 PROVE  g[n] = Descend(g[n - 1], q[n])
      OBVIOUS
    <3>1. n \in 1..Len(p) /\ n \in 0..i /\ n - 1 \in 0..i
      BY <1>3
    <3>2. g[n] = h[n] /\ g[n - 1] = h[n - 1] /\ q[n] = p[n]
      BY <2>1, <2>2, <3>1
    <3> QED
      BY <1>6, <3>1, <3>2
  <2>4. g[0] = << >>
    BY <1>3, <1>5
  <2>5. g = [n \in 0..Len(q) |-> g[n]]
    BY <2>1
  <2> HIDE DEF g, q
  <2>6. Canonical(q) = g[Len(q)]
    BY <2>1, <2>3, <2>4, <2>5, CanonicalIs
  <2> QED
    BY <1>3, <2>1, <2>2, <2>6 DEF q
<1> QED
  BY <1>5, <1>6, <1>7

\* A path without links is canonically what it is lexically.
LEMMA NoLinkIsLexical ==
  ASSUME NEW p \in Seq(STRING), ~ContainsLink(p), Canonical(p) # Missing
  PROVE  Canonical(p) = Lexical(p)
<1>1. Len(p) \in Nat /\ DOMAIN p = 1..Len(p)
      /\ \A n \in 1..Len(p) : p[n] \in STRING
  BY LenProperties
<1>2. PICK h \in [0..Len(p) -> Places] :
         /\ h[0] = << >>
         /\ \A n \in 1..Len(p) : h[n] = Descend(h[n - 1], p[n])
         /\ \A i \in 0..Len(p) : Canonical(SubSeq(p, 1, i)) = h[i]
  BY Descended
<1>3. h[Len(p)] = Canonical(p)
  <2>1. h = [n \in 0..Len(p) |-> h[n]]
    BY <1>2
  <2> QED
    BY <1>2, <2>1, CanonicalIs
<1> DEFINE step == [x \in Seq(STRING) \X STRING |-> Pushes(x[1], x[2])]
<1>4. PICK l \in [0..Len(p) -> Seq(STRING)] :
         /\ l[0] = << >>
         /\ \A n \in 1..Len(p) : l[n] = Pushes(l[n - 1], p[n])
  <2>1. step \in [Seq(STRING) \X STRING -> Seq(STRING)]
    BY PushesType
  <2>2. \A at \in Seq(STRING), name \in STRING :
           step[<<at, name>>] = Pushes(at, name)
    OBVIOUS
  <2> HIDE DEF step
  <2>3. \E l : IsWalk(l, Seq(STRING), << >>, step, p)
    BY <2>1, EmptySeq, Walk
  <2>4. PICK l : /\ l \in [0..Len(p) -> Seq(STRING)] /\ l[0] = << >>
                 /\ \A n \in 1..Len(p) : l[n] = step[<<l[n - 1], p[n]>>]
    BY <2>3 DEF IsWalk
  <2>5. ASSUME NEW n \in 1..Len(p)
        PROVE  l[n] = Pushes(l[n - 1], p[n])
    <3>1. n - 1 \in 0..Len(p)
      BY <1>1
    <3>2. l[n - 1] \in Seq(STRING)
      BY <2>4, <3>1
    <3> QED
      BY <1>1, <2>2, <2>4, <3>2
  <2> QED
    BY <2>4, <2>5
<1>5. Lexical(p) = l[Len(p)]
  <2>1. l = [n \in 0..Len(p) |-> l[n]]
    BY <1>4
  <2> QED
    BY <1>4, <2>1, LexicalIs
<1>6. ASSUME NEW m \in 0..Len(p), h[m] = Missing
      PROVE  FALSE
  <2> DEFINE T == {j \in 0..Len(p) : m <= j /\ h[j] # Missing}
  <2>1. Len(p) \in T
    BY <1>1, <1>3
  <2>2. T \in SUBSET Nat
    BY <1>1
  <2>3. PICK j \in T : \A n \in T : j <= n
    BY <2>1, <2>2, Least
  <2>4. j \in 0..Len(p) /\ m <= j /\ h[j] # Missing
    OBVIOUS
  <2>5. j \in 1..Len(p) /\ j - 1 \in 0..Len(p) /\ m <= j - 1
        /\ ~(j <= j - 1)
    BY <1>1, <1>6, <2>4
  <2>6. h[j - 1] = Missing
    BY <2>3, <2>5
  <2>7. h[j] = Descend(Missing, p[j])
    BY <1>2, <2>5, <2>6
  <2> QED
    BY <2>4, <2>7, FileSystemAssumption DEF Descend
<1> DEFINE T == {i \in 0..Len(p) : h[i] # l[i]}
<1>7. T = {}
  <2> SUFFICES ASSUME T # {}
               PROVE  FALSE
    OBVIOUS
  <2>1. T \in SUBSET Nat
    BY <1>1
  <2>2. PICK m \in T : \A n \in T : m <= n
    BY <2>1, Least
  <2>3. m \in 0..Len(p) /\ h[m] # l[m]
    OBVIOUS
  <2>4. m # 0
    BY <1>2, <1>4, <2>3
  <2>5. m \in 1..Len(p) /\ m - 1 \in 0..Len(p) /\ ~(m <= m - 1)
    BY <1>1, <2>3, <2>4
  <2>6. h[m - 1] = l[m - 1]
    BY <2>2, <2>5
  <2>7. Append(h[m - 1], p[m]) \notin DOMAIN Links
    BY <1>1, <1>2, <2>5 DEF ContainsLink
  <2>8. h[m] # Missing
    BY <1>6, <2>3
  <2>9. h[m] = Descend(h[m - 1], p[m]) /\ l[m] = Pushes(h[m - 1], p[m])
    BY <1>2, <1>4, <2>5, <2>6
  <2> DEFINE at == h[m - 1]
             child == Append(at, p[m])
  <2>10. Descend(at, p[m])
           = IF at \notin DOMAIN Nodes \/ Nodes[at] # "dir" THEN Missing
             ELSE IF p[m] = ".." THEN IF at = << >> THEN at ELSE Front(at)
             ELSE IF child \in DOMAIN Links THEN Links[child]
             ELSE IF child \in DOMAIN Nodes THEN child
             ELSE Missing
    BY DEF Descend
  <2>11. Pushes(at, p[m]) = IF p[m] # ".." THEN child
                            ELSE IF at = << >> THEN << >> ELSE Front(at)
    BY DEF Pushes
  <2> HIDE DEF child
  <2>12. Descend(at, p[m]) = Pushes(at, p[m])
    BY <2>7, <2>8, <2>9, <2>10, <2>11 DEF child
  <2> QED
    BY <2>3, <2>9, <2>12
<1>8. Len(p) \in 0..Len(p)
  BY <1>1
<1> QED
  BY <1>3, <1>5, <1>7, <1>8

\* A path of nodes, spelled without "..", is canonical.
LEMMA PlainPath ==
  ASSUME NEW p \in Seq(STRING), ".." \notin Range(p),
         {SubSeq(p, 1, i) : i \in DOMAIN p} \subseteq DOMAIN Nodes
  PROVE  /\ p \in DOMAIN Nodes /\ Canonical(p) = p /\ Lexical(p) = p
         /\ ~ContainsLink(p)
<1>1. Len(p) \in Nat /\ DOMAIN p = 1..Len(p)
  BY LenProperties
<1> DEFINE q(i) == SubSeq(p, 1, i)
<1>2. ASSUME NEW i \in 0..Len(p)
      PROVE  /\ q(i) \in Seq(STRING) /\ Len(q(i)) = i
             /\ \A n \in 1..i : q(i)[n] = p[n]
  <2>1. 1 \in 1..Len(p) + 1
    BY <1>1
  <2>2. /\ q(i) \in Seq(STRING)
        /\ Len(q(i)) = IF 1 <= i THEN i - 1 + 1 ELSE 0
        /\ \A n \in 1..i - 1 + 1 : q(i)[n] = p[1 + n - 1]
    BY <1>1, <2>1, SubSeqProperties
  <2>3. i \in Nat /\ i - 1 + 1 = i
    BY <1>1
  <2> HIDE DEF q
  <2>4. Len(q(i)) = i
    BY <2>2, <2>3
  <2> QED
    BY <2>2, <2>3, <2>4
<1>3. q(0) = << >>
  BY <1>1, <1>2, EmptySeq
<1>4. q(Len(p)) = p
  BY <1>1, <1>2, SeqEqual
<1>5. \A i \in 0..Len(p) : q(i) \in DOMAIN Nodes
  <2>1. \A i \in 1..Len(p) : q(i) \in DOMAIN Nodes
    BY <1>1
  <2>2. << >> \in DOMAIN Nodes
    BY FileSystemAssumption
  <2> HIDE DEF q
  <2> QED
    BY <1>1, <1>3, <2>1, <2>2
<1> HIDE DEF q
<1>6. ASSUME NEW n \in 1..Len(p)
      PROVE  /\ q(n) = Append(q(n - 1), p[n]) /\ p[n] # ".."
             /\ Nodes[q(n - 1)] = "dir" /\ n - 1 \in 0..Len(p)
  <2>1. n \in 0..Len(p) /\ n - 1 \in 0..Len(p) /\ p[n] \in STRING
    BY <1>1
  <2> DEFINE u == q(n - 1)
             v == q(n)
  <2>2. /\ u \in Seq(STRING) /\ Len(u) = n - 1
        /\ \A i \in 1..n - 1 : u[i] = p[i]
    BY <1>2, <2>1
  <2>3. /\ v \in Seq(STRING) /\ Len(v) = n
        /\ \A i \in 1..n : v[i] = p[i]
    BY <1>2, <2>1
  <2> HIDE DEF u, v
  <2>4. /\ Append(u, p[n]) \in Seq(STRING) /\ Len(Append(u, p[n])) = n
        /\ \A i \in 1..n : Append(u, p[n])[i] = p[i]
    BY <1>1, <2>1, <2>2, AppendProperties
  <2>5. v = Append(u, p[n])
    BY <2>3, <2>4, SeqEqual
  <2>6. v # << >> /\ Front(v) = u
    <3>1. v # << >>
      BY <1>1, <2>3
    <3>2. 1 \in 1..Len(v) + 1 /\ n - 1 \in 0..Len(v)
      BY <1>1, <2>3
    <3> DEFINE f == SubSeq(v, 1, n - 1)
    <3>3. /\ f \in Seq(STRING)
          /\ Len(f) = IF 1 <= n - 1 THEN n - 1 - 1 + 1 ELSE 0
          /\ \A i \in 1..n - 1 - 1 + 1 : f[i] = v[1 + i - 1]
      BY <2>3, <3>2, SubSeqProperties
    <3>4. Front(v) = f
      BY <2>3 DEF Front
    <3> HIDE DEF f
    <3>5. Len(f) = n - 1 /\ \A i \in 1..n - 1 : f[i] = u[i]
      BY <1>1, <2>2, <2>3, <3>3
    <3>6. f = u
      BY <2>2, <3>3, <3>5, SeqEqual
    <3> QED
      BY <3>1, <3>4, <3>6
  <2>7. v \in DOMAIN Nodes
    BY <1>5, <2>1 DEF v
  <2>8. Nodes[u] = "dir"
    BY <2>6, <2>7, FileSystemAssumption
  <2>9. p[n] # ".."
    BY <1>1, RangeEquality
  <2> QED
    BY <2>1, <2>5, <2>8, <2>9 DEF u, v
<1> DEFINE h == [i \in 0..Len(p) |-> q(i)]
<1>7. \A i \in 0..Len(p) : h[i] = q(i)
  OBVIOUS
<1>8. h[0] = << >> /\ h[Len(p)] = p /\ h = [i \in 0..Len(p) |-> h[i]]
  BY <1>1, <1>3, <1>4
<1> HIDE DEF h
<1>9. ASSUME NEW n \in 1..Len(p)
      PROVE  /\ h[n] = Descend(h[n - 1], p[n])
             /\ h[n] = Pushes(h[n - 1], p[n])
             /\ h[n] = Append(h[n - 1], p[n]) /\ h[n] \in DOMAIN Nodes
  <2>1. /\ n \in 0..Len(p) /\ n - 1 \in 0..Len(p)
        /\ h[n] = q(n) /\ h[n - 1] = q(n - 1)
    BY <1>1, <1>7
  <2> DEFINE u == h[n - 1]
             v == Append(u, p[n])
  <2>2. v = h[n] /\ v \in DOMAIN Nodes /\ v \notin DOMAIN Links
    <3>1. v = h[n]
      BY <1>6, <2>1
    <3>2. h[n] \in DOMAIN Nodes
      BY <1>5, <2>1
    <3>3. DOMAIN Nodes \cap DOMAIN Links = {}
      BY FileSystemAssumption
    <3> HIDE DEF v
    <3> QED
      BY <3>1, <3>2, <3>3
  <2>3. u \in DOMAIN Nodes /\ Nodes[u] = "dir" /\ p[n] # ".."
    BY <1>5, <1>6, <2>1
  <2>4. Descend(u, p[n]) = v
    BY <2>2, <2>3 DEF Descend
  <2>5. Pushes(u, p[n]) = v
    BY <2>3 DEF Pushes
  <2> QED
    BY <2>2, <2>4, <2>5
<1>10. Canonical(p) = p /\ Lexical(p) = p
  BY <1>8, <1>9, CanonicalIs, LexicalIs
<1>11. ~ContainsLink(p)
  <2> SUFFICES ASSUME NEW n \in 1..Len(p)
               PROVE  Append(Canonical(q(n - 1)), p[n]) \notin DOMAIN Links
    BY <1>1 DEF ContainsLink, q
  <2>1. n - 1 \in 0..Len(p) /\ h[n - 1] = q(n - 1)
    BY <1>1, <1>7
  <2>2. Canonical(q(n - 1)) = q(n - 1)
    <3> DEFINE r == q(n - 1)
               g == [i \in 0..n - 1 |-> h[i]]
    <3>1. /\ r \in Seq(STRING) /\ Len(r) = n - 1
          /\ \A i \in 1..n - 1 : r[i] = p[i]
      BY <1>2, <2>1
    <3>2. \A i \in 0..n - 1 : g[i] = h[i]
      OBVIOUS
    <3>3. g[0] = << >> /\ g[n - 1] = r
      BY <1>1, <1>8, <2>1, <3>2
    <3>4. g = [i \in 0..Len(r) |-> g[i]]
      BY <3>1
    <3> HIDE DEF g, r
    <3>5. \A i \in 1..Len(r) : g[i] = Descend(g[i - 1], r[i])
      <4> SUFFICES ASSUME NEW i \in 1..n - 1
                   PROVE  g[i] = Descend(g[i - 1], r[i])
        BY <3>1
      <4>1. i \in 1..Len(p) /\ i \in 0..n - 1 /\ i - 1 \in 0..n - 1
        BY <1>1
      <4> QED
        BY <1>9, <3>1, <3>2, <4>1
    <3>6. Canonical(r) = g[Len(r)]
      BY <3>1, <3>3, <3>4, <3>5, CanonicalIs
    <3> QED
      BY <3>1, <3>3, <3>6 DEF r
  <2>3. Append(q(n - 1), p[n]) \in DOMAIN Nodes
    BY <1>9, <2>1
  <2> QED
    BY <2>2, <2>3, FileSystemAssumption
<1>12. p \in DOMAIN Nodes
  BY <1>1, <1>4, <1>5
<1> QED
  BY <1>10, <1>11, <1>12

-------------------------------------------------------------------------------
(* What is read.                                                             *)

Reading == request.cmd \in {"cat", "grep"}

\* The verdict under which cat or grep goes on to read.
Readable ==
    LET verdict == Resolve(request.path, request.action)
    IN  verdict = "file" \/ (verdict = "dir" /\ request.cmd = "grep")

Clear ==
    request.action = "Block" =>
        /\ ~Matches(request.path.names)
        /\ ~Matches(Lexical(Candidate(request.path)))

\* A candidate is a path.
LEMMA CandidateType ==
  ASSUME request \in Requests
  PROVE  Candidate(request.path) \in Seq(STRING)
<1>1. request.path.names \in Seq(STRING) /\ Root \in Seq(STRING)
  BY CommandsKnown, FileSystemAssumption
<1>2. Root \o request.path.names \in Seq(STRING)
  BY <1>1, ConcatProperties
<1> QED
  BY <1>1, <1>2 DEF Candidate, From

\* What is readable is what the spelling names, in the workspace and allowed.
LEMMA ReadableIsSpelled ==
  ASSUME request \in Requests, Readable
  PROVE  LET path == Candidate(request.path) IN
         /\ Canonical(path) = Lexical(path) /\ IsPrefix(Root, Lexical(path))
         /\ Lexical(path) \in DOMAIN Nodes /\ Clear
<1> DEFINE path == Candidate(request.path)
           target == Canonical(path)
<1>1. path \in Seq(STRING)
  BY CandidateType
<1>2. Resolve(request.path, request.action)
        = IF request.action = "Block" /\ Matches(request.path.names)
          THEN "denied"
          ELSE IF target = Missing THEN "not_found"
          ELSE IF ~IsPrefix(Root, target) THEN "outside"
          ELSE IF request.action = "Block" /\ Matches(target) THEN "denied"
          ELSE IF ContainsLink(path) THEN "link"
          ELSE Nodes[target]
  BY DEF Resolve
<1>3. target \in Places
  <2>1. PICK h \in [0..Len(path) -> Places] :
           /\ h[0] = << >>
           /\ \A n \in 1..Len(path) : h[n] = Descend(h[n - 1], path[n])
    BY <1>1, Descended
  <2>2. h = [n \in 0..Len(path) |-> h[n]] /\ Len(path) \in 0..Len(path)
    BY <1>1, <2>1, LenProperties
  <2>3. Canonical(path) = h[Len(path)]
    BY <1>1, <2>1, <2>2, CanonicalIs
  <2> QED
    BY <2>1, <2>2, <2>3
<1>4. Clear <=> (request.action = "Block" =>
                    ~Matches(request.path.names) /\ ~Matches(Lexical(path)))
  BY DEF Clear
<1> HIDE DEF path, target
<1>5. /\ request.action = "Block" =>
            ~Matches(request.path.names) /\ ~Matches(target)
      /\ target # Missing /\ IsPrefix(Root, target) /\ ~ContainsLink(path)
  BY <1>2 DEF Readable
<1>6. target = Lexical(path)
  BY <1>1, <1>5, NoLinkIsLexical DEF target
<1>7. target \in DOMAIN Nodes
  BY <1>3, <1>5 DEF Places
<1> QED
  BY <1>4, <1>5, <1>6, <1>7 DEF target, path

\* What is so spelled, without "..", gets the kind of its node as a verdict.
LEMMA SpelledIsReadable ==
  ASSUME request \in Requests, ".." \notin Range(Candidate(request.path)),
         IsPrefix(Root, Candidate(request.path)), Clear,
         {SubSeq(Candidate(request.path), 1, i) :
             i \in DOMAIN Candidate(request.path)} \subseteq DOMAIN Nodes
  PROVE  /\ Resolve(request.path, request.action)
                = Nodes[Candidate(request.path)]
         /\ Nodes[Candidate(request.path)] \in {"file", "dir", "other"}
<1> DEFINE path == Candidate(request.path)
<1>1. path \in Seq(STRING)
  BY CandidateType
<1>2. /\ path \in DOMAIN Nodes /\ Canonical(path) = path
      /\ Lexical(path) = path /\ ~ContainsLink(path)
  BY <1>1, PlainPath
<1>3. path # Missing /\ Nodes[path] \in {"file", "dir", "other"}
  BY <1>2, FileSystemAssumption
<1>4. Resolve(request.path, request.action)
        = IF request.action = "Block" /\ Matches(request.path.names)
          THEN "denied"
          ELSE IF Canonical(path) = Missing THEN "not_found"
          ELSE IF ~IsPrefix(Root, Canonical(path)) THEN "outside"
          ELSE IF request.action = "Block" /\ Matches(Canonical(path))
               THEN "denied"
          ELSE IF ContainsLink(path) THEN "link"
          ELSE Nodes[Canonical(path)]
  BY DEF Resolve
<1>5. request.action = "Block" =>
         ~Matches(request.path.names) /\ ~Matches(path)
  BY <1>2 DEF Clear
<1>6. IsPrefix(Root, path)
  OBVIOUS
<1> HIDE DEF path
<1>7. Resolve(request.path, request.action) = Nodes[path]
  BY <1>2, <1>3, <1>4, <1>5, <1>6
<1> QED
  BY <1>3, <1>7 DEF path

\* A script that says more than that it fails.
Speaks(s) ==
    /\ s # << >> /\ Head(s).do = "emit"
    /\ \E c \in Range(s) : c.do = "emit" /\ c.what \in {"stats", "warning"}

Refusals == {Failure(1), Status \o Failure(1)}

\* A handler that has read speaks.
LEMMA SpeaksFirst ==
  ASSUME NEW W, W \subseteq Words, NEW a \in Seq(Emits(W)),
         NEW r \in Seq(Calls), r # << >>,
         Has(Said(a), "stats") \/ Has(Said(a), "warning")
  PROVE  Speaks(a \o r)
<1>1. a \in Seq(Calls)
  BY EmitsAreCalls
<1>2. PICK c \in Range(a) : Entry(c).what \in {"stats", "warning"}
  BY DEF Has, Said
<1>3. c \in Emits(W)
  BY RangeOfSeq
<1>4. c.do = "emit" /\ c.what \in {"stats", "warning"}
  BY <1>2, <1>3 DEF Emits, Entry
<1>5. c \in Range(a \o r)
  BY <1>1, RangeConcatenation
<1>6. a # << >>
  <2>1. Said(<< >>) = {}
    BY SaidNothing
  <2> QED
    BY <2>1 DEF Has
<1>7. a \o r # << >> /\ Head(a \o r) = Head(a) /\ Head(a).do = "emit"
  BY <1>1, <1>6, Leads, FirstSaid
<1> QED
  BY <1>4, <1>5, <1>7 DEF Speaks

\* cat and grep speak of what they have read.
LEMMA ReadSpeaks ==
  ASSUME request \in Requests, Reading, NEW t \in Text
  PROVE  /\ request.cmd = "cat" => Speaks(Cat(t))
         /\ \A partial \in BOOLEAN, names \in Names :
               Speaks(Grep(t, partial, names))
<1>1. Permits(Clean, request.pia) /\ Clean \subseteq Words
  BY PermitsClean DEF Permits
<1>2. ASSUME NEW s, NEW r, Delivers(s, Clean, r)
      PROVE  Speaks(s)
  <2>1. PICK a \in Seq(Emits(Clean)), b \in Seq(Emits(Clean)),
             d \in Seq(Emits(Clean)), k \in Keeps, c \in Nat :
               s = AtKeep(a, k, b, d, c) /\ Has(Said(a), "stats")
    BY <1>2 DEF Delivers, Reading
  <2>2. a \in Seq(Calls) /\ b \in Seq(Calls) /\ d \in Seq(Calls)
    BY <1>1, EmitsAreCalls
  <2> DEFINE q == <<k>> \o AtReceipt(b, d, c)
  <2>3. q \in Seq(Calls) /\ q # << >>
    <3>1. k \in Keeps /\ c \in Nat
      BY <2>1
    <3>2. <<k>> \o AtReceipt(b, d, c) \in Seq(Calls)
      BY <2>2, <3>1, KeepEndType
    <3>3. <<k>> \o AtReceipt(b, d, c) # << >>
      BY <2>2, <3>1, KeepEndType
    <3> QED
      BY <3>2, <3>3
  <2>4. s = a \o q
    BY <2>1 DEF AtKeep
  <2> HIDE DEF q
  <2> QED
    BY <1>1, <2>1, <2>3, <2>4, SpeaksFirst
<1>3. ASSUME NEW s, Withholds(s, Clean)
      PROVE  Speaks(s)
  <2>1. PICK a \in Seq(Emits(Clean)) :
           s = AtEnd(a, 1) /\ Has(Said(a), "warning")
    BY <1>3 DEF Withholds
  <2>2. /\ Quit(1) \in Seq(Calls) /\ Quit(1) # << >>
        /\ s = a \o Quit(1)
    BY <2>1, QuitType DEF AtEnd
  <2> QED
    BY <1>1, <2>1, <2>2, SpeaksFirst
<1>4. request.cmd = "cat" => Speaks(Cat(t))
  BY <1>1, <1>2, CatOpens
<1>5. ASSUME NEW partial \in BOOLEAN, NEW names \in Names
      PROVE  Speaks(Grep(t, partial, names))
  BY <1>1, <1>2, <1>3, GrepOpens
<1> QED
  BY <1>4, <1>5

\* A refusal does not.
LEMMA RefusalsSilent ==
  ASSUME NEW s \in Refusals
  PROVE  s # << >> /\ ~Speaks(s)
<1>1. Permits(Clean, request.pia) /\ Clean \subseteq Words
  BY PermitsClean DEF Permits
<1> DEFINE Silent(u) == \A c \in Range(u) :
               c.do = "exit" \/ c.what \in {"error", "status"}
<1>2. ASSUME NEW to, NEW what \in {"error", "status"}, NEW text
      PROVE  Silent(Emit(to, what, text))
  <2> DEFINE c == [do |-> "emit", to |-> to, what |-> what, text |-> text]
  <2>1. c.what = what /\ Emit(to, what, text) = <<c>>
    BY DEF Emit
  <2> HIDE DEF c
  <2>2. <<c>> \in Seq({c})
    OBVIOUS
  <2>3. Range(<<c>>) \in SUBSET {c}
    BY <2>2, RangeOfSeq
  <2> QED
    BY <2>1, <2>3
<1>3. Silent(Quit(1))
  <2> DEFINE c == [do |-> "exit", code |-> 1]
  <2>1. c.do = "exit" /\ Quit(1) = <<c>>
    BY DEF Quit
  <2> HIDE DEF c
  <2>2. <<c>> \in Seq({c})
    OBVIOUS
  <2>3. Range(<<c>>) \in SUBSET {c}
    BY <2>2, RangeOfSeq
  <2> QED
    BY <2>1, <2>3
<1>4. ASSUME NEW u \in Seq(Calls), NEW v \in Seq(Calls), Silent(u), Silent(v),
             v # << >>
      PROVE  Silent(u \o v) /\ u \o v \in Seq(Calls) /\ u \o v # << >>
  <2>1. Range(u \o v) = Range(u) \cup Range(v)
    BY RangeConcatenation
  <2>2. u \o v \in Seq(Calls) /\ u \o v # << >>
    BY <1>4, Leads
  <2> QED
    BY <1>4, <2>1, <2>2
<1>5. /\ Status \in Seq(Calls) /\ Complaint \in Seq(Calls)
      /\ Quit(1) \in Seq(Calls) /\ Quit(1) # << >>
      /\ Failure(1) = Complaint \o Quit(1)
  BY <1>1, StatusType, ComplaintType, QuitType, EmitsAreCalls
<1>6. Silent(Status) /\ Silent(Complaint)
  BY <1>2 DEF Status, Complaint
<1> HIDE DEF Silent
<1>7. Silent(Failure(1)) /\ Failure(1) \in Seq(Calls) /\ Failure(1) # << >>
  BY <1>3, <1>4, <1>5, <1>6
<1>8. Silent(Status \o Failure(1)) /\ Status \o Failure(1) # << >>
  BY <1>4, <1>5, <1>6, <1>7
<1>9. s # << >> /\ Silent(s)
  BY <1>7, <1>8 DEF Refusals
<1> QED
  BY <1>9 DEF Silent, Speaks

\* cat and grep read only what is readable; what is, they refuse only when a
\* read or a write has failed.
ReadInv ==
    /\ Reading /\ pc = "read" => Readable
    /\ Reading /\ Readable /\ pc = "busy" /\ shown = << >> /\ faults = 0
          => Speaks(todo)

\* Every step keeps to it.
LEMMA ReadStep ==
  ASSUME TypeOK, ReadInv, [Next]_vars
  PROVE  ReadInv'
<1>1. MaxFaults \in Nat /\ faults \in Nat
  BY InputsKnown DEF TypeOK
<1>2. Reading => request \in Requests
  BY CommandsKnown DEF TypeOK, Reading
<1>3. request' = request =>
         (Reading' <=> Reading) /\ (Readable' <=> Readable)
  BY DEF Reading, Readable
<1>4. CASE UNCHANGED vars
  <2>1. UNCHANGED <<request, pc, todo, shown, faults>>
    BY <1>4 DEF vars
  <2> QED
    BY <1>3, <2>1 DEF ReadInv, Speaks
<1>5. CASE ResolvePath
  <2>1. request' = request /\ pc = "start"
    BY <1>5 DEF ResolvePath
  <2>2. \/ Readable /\ pc' = "read"
        \/ ~Readable /\ pc' = "busy"
    BY <1>5 DEF ResolvePath, Readable, Call
  <2> QED
    BY <1>3, <2>1, <2>2 DEF ReadInv
<1>6. CASE CheckArguments
  <2>1. ~Reading'
    BY <1>6 DEF CheckArguments, Reading
  <2> QED
    BY <2>1 DEF ReadInv
<1>7. CASE ReadInput
  <2>1. request' = request /\ pc' = "busy"
    BY <1>7 DEF ReadInput, Call
  <2>2. ASSUME Reading
        PROVE  Speaks(todo)'
    <3>1. \A t \in Texts : t \in Text
      BY InputsKnown DEF Text, Words
    <3>2. PICK t \in Texts :
             \/ request.cmd = "cat" /\ Call(Cat(t))
             \/ /\ request.cmd = "grep"
                /\ \E partial \in BOOLEAN, names \in Names :
                      Call(Grep(t, partial, names))
      BY <1>7, <2>2 DEF ReadInput, Reading
    <3>3. Speaks(todo')
      <4>1. CASE request.cmd = "cat" /\ Call(Cat(t))
        <5>1. Speaks(Cat(t))
          BY <1>2, <2>2, <3>1, <4>1, ReadSpeaks
        <5> QED
          BY <4>1, <5>1 DEF Call
      <4>2. ASSUME NEW partial \in BOOLEAN, NEW names \in Names,
                   Call(Grep(t, partial, names))
            PROVE  Speaks(todo')
        <5>1. Speaks(Grep(t, partial, names))
          BY <1>2, <2>2, <3>1, ReadSpeaks
        <5> QED
          BY <4>2, <5>1 DEF Call
      <4> QED
        BY <3>2, <4>1, <4>2
    <3> QED
      BY <3>3 DEF Speaks
  <2> QED
    BY <1>3, <2>1, <2>2 DEF ReadInv
<1>8. CASE ReadFails \/ WriteFails
  <2>1. faults' # 0 /\ pc' # "read"
    BY <1>1, <1>8 DEF ReadFails, WriteFails, Call, Busy
  <2> QED
    BY <2>1 DEF ReadInv
<1>9. CASE Write
  <2>1. pc' # "read"
    BY <1>9 DEF Write, Busy
  <2>2. shown' # << >>
    BY <1>9 DEF Write
  <2> QED
    BY <2>1, <2>2 DEF ReadInv
<1>10. CASE Store \/ PrintReceipt
  <2>1. /\ UNCHANGED <<request, pc, shown, faults>> /\ pc = "busy"
        /\ Head(todo).do \in {"keep", "receipt"}
    BY <1>10 DEF Store, PrintReceipt, Busy, Pending
  <2>2. ~Speaks(todo)
    BY <2>1 DEF Speaks
  <2> QED
    BY <1>3, <2>1, <2>2 DEF ReadInv
<1>11. CASE Exit
  <2>1. pc' = "exited"
    BY <1>11 DEF Exit
  <2> QED
    BY <2>1 DEF ReadInv
<1>12. ASSUME NEW q \in Questions, Ask(q) \/ StoreCommand(q)
       PROVE  ReadInv'
  <2>1. request' = q
    BY <1>12 DEF Ask, StoreCommand, Begin
  <2>2. ~Reading'
    BY <2>1, CommandsKnown DEF Reading
  <2> QED
    BY <2>2 DEF ReadInv
<1> QED
  BY <1>4, <1>5, <1>6, <1>7, <1>8, <1>9, <1>10, <1>11, <1>12 DEF Next

\* cat and grep read what the spelling names, inside the workspace, through no
\* link and past no rule; and what is so spelled they do not refuse: the checks
\* of resolve_existing on the canonical target and on the spelling agree.
THEOREM ReadsAreTheirSpelling == Spec => []ReadIsItsSpelling
<1>1. Init => ReadInv
  BY DEF Init, ReadInv
<1>2. TypeOK /\ ReadInv /\ [Next]_vars => ReadInv'
  BY ReadStep
<1>3. TypeOK /\ ReadInv => ReadIsItsSpelling
  <2> SUFFICES ASSUME TypeOK, ReadInv, Reading
               PROVE  ReadIsItsSpelling
    BY DEF ReadIsItsSpelling, Reading
  <2> DEFINE path == Candidate(request.path)
             target == Lexical(path)
  <2>1. request \in Requests
    BY CommandsKnown DEF TypeOK, Reading
  <2>2. Clear <=> (request.action = "Block" =>
                      ~Matches(request.path.names) /\ ~Matches(target))
    BY DEF Clear
  <2>3. ASSUME pc = "read"
        PROVE  /\ Canonical(path) = target /\ IsPrefix(Root, target)
               /\ target \in DOMAIN Nodes /\ Clear
    BY <2>1, <2>3, ReadableIsSpelled DEF ReadInv
  <2>4. ASSUME todo \in Refusals, shown = << >>, faults = 0,
               ".." \notin Range(path), IsPrefix(Root, path), Clear,
               {SubSeq(path, 1, i) : i \in DOMAIN path} \subseteq DOMAIN Nodes
        PROVE  \/ Nodes[path] = "other"
               \/ Nodes[path] = "dir" /\ request.cmd = "cat"
    <3>1. todo # << >> /\ ~Speaks(todo)
      BY <2>4, RefusalsSilent
    <3>2. pc = "busy"
      BY <3>1 DEF TypeOK
    <3>3. ~Readable
      BY <2>4, <3>1, <3>2 DEF ReadInv
    <3>4. /\ Resolve(request.path, request.action) = Nodes[path]
          /\ Nodes[path] \in {"file", "dir", "other"}
      BY <2>1, <2>4, SpelledIsReadable
    <3> HIDE DEF path
    <3> QED
      BY <3>3, <3>4 DEF Readable, Reading
  <2> HIDE DEF path, target
  <2> QED
    BY <2>2, <2>3, <2>4 DEF ReadIsItsSpelling, Refusals, path, target
<1> QED
  BY <1>1, <1>2, <1>3, GateTypes, PTL DEF Spec
===============================================================================
