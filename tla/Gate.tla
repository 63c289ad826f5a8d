--------------------------------- MODULE Gate ---------------------------------
(***************************************************************************)
(* One `veil cat`, `veil grep` or `veil run` from its arguments to its     *)
(* exit (src/main.rs with output.rs, persistence.rs, safety.rs), and the   *)
(* commands that afterwards read the stored run back.  A handler is the    *)
(* list of the calls it still has to make; any write may fail and ends the *)
(* list.  How a run is stored is RunStore's, how a command is executed     *)
(* Executor's, how a tree is searched Grep's, how lines are read back      *)
(* Retrieval's: here each is its outcomes.                                 *)
(*                                                                         *)
(* A text is a sequence of tokens: "key" is a secret, "home" a private     *)
(* path, "inj" a text detect_injection knows, "crlf" a foreign line end;   *)
(* a secret or an injection is never cut in two.                           *)
(***************************************************************************)
EXTENDS Bounds, PathBoundary

CONSTANTS
    Requests,       \* the command lines of cat, grep and run
    Questions,      \* those of retrieve, search, report and store
    Texts,          \* what a file, the matches or stdout may hold
    ErrTexts,       \* what stderr may hold
    Names,          \* paths of what a search passed over, as its list has them
    Statuses,       \* exit codes of a command; None after a signal
    None,
    MaxLines,       \* max_lines of handle_grep
    MaxMatchLine,   \* MAX_MATCH_LINE_CHARS
    MaxFaults       \* bound on reads and writes that fail

\* StorageReason
Reasons == {"stored", "no_store", "quota_exceeded", "storage_error"}

ASSUME NoneAssumption == None \notin Nat \cup Reasons

\* The program's own words give nothing away.
ASSUME NoticesPlain ==
    {Omitted, Marker, Header, Footer}
        \subseteq Seq(STRING \ {"key", "home", "inj", "crlf"})

ASSUME InputsKnown ==
    /\ Texts \cup ErrTexts \cup Names \subseteq Seq(STRING)
    /\ Statuses \subseteq Nat \cup {None}
    /\ MaxLines \in Nat /\ MaxFaults \in Nat
    /\ MaxMatchLine \in Nat /\ Len(Marker) + 1 < MaxMatchLine

ASSUME CommandsKnown ==
    /\ \A q \in Requests :
          /\ q.cmd \in {"cat", "grep", "run"}
          /\ q.max \in Nat /\ q.path.names \in Seq(STRING)
    /\ \A q \in Questions :
          /\ q.cmd \in {"retrieve", "search", "report", "store"}
          /\ q.cmd \in {"retrieve", "search"} =>
                q.max \in Nat /\ q.stream \in 1..2
          /\ q.cmd = "search" => q.literal \in STRING

VARIABLES
    request,    \* the command line
    pc,         \* "start", "read", "busy" (todo) or "exited"
    raw,        \* what was read, as <<stdout, stderr>>
    todo,       \* the calls the handler still makes
    shown,      \* what was written: stdout, stderr and the JSON file
    receipt,    \* the reason in the storage receipt, None before
    stored,     \* the stored run
    exit,       \* the exit status, None while the process runs
    faults

vars == <<request, pc, raw, todo, shown, receipt, stored, exit, faults>>

NotStored == [kept |-> FALSE]

Init ==
    /\ request \in Requests /\ pc = "start" /\ raw = << << >>, << >> >>
    /\ todo = << >> /\ shown = << >> /\ receipt = None
    /\ stored = NotStored /\ exit = None /\ faults = 0

-------------------------------------------------------------------------------
(* Redaction, detection, rendering                                           *)

HasSecret(t) == "key" \in Range(t)

Detect(t) == "inj" \in Range(t)

Replace(from, to, t) == [i \in DOMAIN t |-> IF t[i] \in from THEN to ELSE t[i]]

Redact(t) == Replace({"key", "home"}, "mask", t)

\* Faulty variant: only the line ends are looked after.
SanitizeLineEnds(t) == Replace({"crlf"}, "nl", t)

\* sanitize_text
Sanitize(t) == Redact(Replace({"crlf"}, "nl", t))

\* Faulty variant: the policy is not asked.
StopsNever(t, pia) == FALSE

\* A render is blocked.
Stops(t, pia) == pia = "Block" /\ Detect(Redact(t))

\* render_prepared_external and render_external of what is not blocked.
Prepared(t) == Wrap(Redact(t))

External(t, max) ==
    WrapBounded(FitToBudget(Redact(t), PayloadBudget(max)), max)

-------------------------------------------------------------------------------
(* The calls of a handler                                                    *)

Emit(to, what, text) ==
    <<[do |-> "emit", to |-> to, what |-> what, text |-> text]>>

\* A blocked render writes nothing.
Show(to, t, pia) ==
    IF Stops(t, pia) THEN << >> ELSE Emit(to, "payload", Prepared(t))

Warn(warned) ==
    IF warned
    THEN Emit("stderr", "warning", External(<<"warning">>, request.max))
    ELSE << >>

Status == Emit("stdout", "status", Prepared(<<"status">>))

Quit(code) == <<[do |-> "exit", code |-> code]>>

\* Faulty variant: main goes on after the error.
FailureGoesOn(code) == Emit("stderr", "error", Prepared(<<"error">>))

\* A handler returns an error: emit_error, whose own failure is ignored.
Failure(code) == Emit("stderr", "error", Prepared(<<"error">>)) \o Quit(code)

StatsText(stats) == <<"stats">> \o stats.command

PrintStats(stats) == Emit("stderr", "stats", Prepared(StatsText(stats)))

WriteJson(stats) == Emit("file", "json", Redact(StatsText(stats)))

Keep(content, stats) ==
    <<[do |-> "keep", content |-> content, stats |-> stats]>>

Receipt == <<[do |-> "receipt"]>>

Persist(content, stats) == Keep(content, stats) \o Receipt

StatsOf(code, warned) ==
    [code |-> code, warned |-> warned, command |-> Redact(request.path.names)]

-------------------------------------------------------------------------------
(* cat, grep and run                                                         *)

\* cat_path_boundary_rejection
Refusal(verdict) ==
    IF request.cmd = "cat" /\ verdict \in {"denied", "outside", "link"}
    THEN Status \o Failure(1)
    ELSE Failure(1)

Call(script) == pc' = "busy" /\ todo' = script

ResolvePath ==
    /\ pc = "start" /\ request.cmd \in {"cat", "grep"}
    /\ LET verdict == Resolve(request.path, request.action)
       IN  IF verdict = "file" \/ (verdict = "dir" /\ request.cmd = "grep")
           THEN pc' = "read" /\ UNCHANGED todo
           ELSE Call(Refusal(verdict))
    /\ UNCHANGED <<request, raw, shown, receipt, stored, exit, faults>>

CheckArguments ==
    /\ pc = "start" /\ request.cmd = "run"
    /\ IF request.action = "Block" /\ Mentions(request.path)
       THEN Call(Status \o Quit(1))
       ELSE pc' = "read" /\ UNCHANGED todo
    /\ UNCHANGED <<request, raw, shown, receipt, stored, exit, faults>>

CatBlocked(t) ==
    LET stats == StatsOf(1, Detect(Redact(t)))
    IN  Status \o PrintStats(stats)
            \o Persist(<< << >>, << >> >>, stats) \o Quit(1)

\* Faulty variant: the run is stored before it is named.
CatAnswerKeptFirst(t) ==
    LET limited == Redact(Truncate(t, request.max))
        stats   == StatsOf(0, Detect(limited))
    IN  Warn(Detect(limited)) \o Show("stdout", limited, request.pia)
            \o Persist(<<Sanitize(t), << >> >>, stats) \o PrintStats(stats)
            \o Quit(0)

CatAnswer(t) ==
    LET redacts == request.action = "Redact" /\ Mentions(request.path)
        limited == Redact(Truncate(IF redacts THEN Redact(t) ELSE t,
                                   request.max))
        stats   == StatsOf(0, Detect(limited))
    IN  Warn(Detect(limited)) \o Show("stdout", limited, request.pia)
            \o PrintStats(stats) \o Persist(<<Sanitize(t), << >> >>, stats)
            \o Quit(0)

Cat(t) ==
    IF HasSecret(t) \/ Stops(t, request.pia) THEN CatBlocked(t)
    ELSE CatAnswer(t)

\* format_traversal_diagnostics, printed whatever the policy.
ListGaps(names) ==
    Emit("stderr", "gaps", Prepared(Redact(<<"diagnostics">> \o names)))

\* The matches, an element a line.
Grep(t, partial, names) ==
    LET limited == Redact(Truncate(Redact(t), MaxLines))
        stats   == StatsOf(IF partial THEN 2 ELSE 0, Detect(limited))
    IN  Warn(Detect(limited))
            \o (IF partial THEN ListGaps(names) ELSE << >>)
            \o Show("stdout", limited, request.pia)
            \o (IF Stops(limited, request.pia) THEN Quit(1)
                ELSE PrintStats(stats)
                       \o Persist(<<Sanitize(Redact(t)), << >> >>, stats)
                       \o (IF partial THEN Failure(2) ELSE Quit(0)))

\* A command that a signal killed has no code.
ExitCode(code) == IF code = None THEN 0 ELSE code

\* Faulty variant: what is stored is what is shown.
RunShort(out, err, code) ==
    LET o == Truncate(Redact(out), request.max)
        e == Truncate(Redact(err), request.max)
        stats == StatsOf(code, Detect(o) \/ Detect(e))
    IN  Show("stdout", o, request.pia) \o Show("stderr", e, request.pia)
            \o (IF Stops(o, request.pia) \/ Stops(e, request.pia) THEN Quit(1)
                ELSE Warn(stats.warned)
                       \o Persist(<<Sanitize(o), Sanitize(e)>>, stats)
                       \o (IF request.json THEN WriteJson(stats) ELSE << >>)
                       \o PrintStats(stats) \o Quit(ExitCode(code)))

\* Faulty variant: only a blocked stdout ends the handler.
RunHalfBlocked(out, err, code) ==
    LET o == Truncate(Redact(out), request.max)
        e == Truncate(Redact(err), request.max)
        stats == StatsOf(code, Detect(Redact(out)) \/ Detect(Redact(err)))
        kept  == <<Sanitize(Redact(out)), Sanitize(Redact(err))>>
    IN  Show("stdout", o, request.pia) \o Show("stderr", e, request.pia)
            \o (IF Stops(o, request.pia) THEN Quit(1)
                ELSE Warn(stats.warned) \o Persist(kept, stats)
                       \o PrintStats(stats) \o Quit(ExitCode(code)))

\* execute_command_with_adapters redacts, detects, then shortens; handle_run
\* stores before it writes any statistics.
Run(out, err, code) ==
    LET o == Truncate(Redact(out), request.max)
        e == Truncate(Redact(err), request.max)
        stats == StatsOf(code, Detect(Redact(out)) \/ Detect(Redact(err)))
        kept  == <<Sanitize(Redact(out)), Sanitize(Redact(err))>>
    IN  Show("stdout", o, request.pia) \o Show("stderr", e, request.pia)
            \o (IF Stops(o, request.pia) \/ Stops(e, request.pia) THEN Quit(1)
                ELSE Warn(stats.warned) \o Keep(kept, stats)
                       \o (IF request.json THEN WriteJson(stats) ELSE << >>)
                       \o PrintStats(stats) \o Receipt
                       \o Quit(ExitCode(code)))

ReadInput ==
    /\ pc = "read"
    /\ \E t \in Texts :
          \/ request.cmd = "cat" /\ raw' = <<t, << >> >> /\ Call(Cat(t))
          \/ /\ request.cmd = "grep" /\ raw' = <<t, << >> >>
             /\ \E partial \in BOOLEAN, names \in Names :
                   Call(Grep(t, partial, names))
          \/ /\ request.cmd = "run"
             /\ \E e \in ErrTexts, code \in Statuses :
                   raw' = <<t, e>> /\ Call(Run(t, e, code))
    /\ UNCHANGED <<request, shown, receipt, stored, exit, faults>>

\* The file, the root of the tree or the command cannot be had after all.
ReadFails ==
    /\ pc = "read" /\ faults < MaxFaults
    /\ faults' = faults + 1 /\ Call(Failure(1))
    /\ UNCHANGED <<request, raw, shown, receipt, stored, exit>>

-------------------------------------------------------------------------------
(* Making the calls                                                          *)

Pending == Head(todo)

Busy(what) == pc = "busy" /\ Pending.do = what

Entry(c) == [to |-> c.to, what |-> c.what, text |-> c.text]

Write ==
    /\ Busy("emit")
    /\ shown' = Append(shown, Entry(Pending)) /\ todo' = Tail(todo)
    /\ UNCHANGED <<request, pc, raw, receipt, stored, exit, faults>>

\* Some of the text may have been written.
WriteFails ==
    /\ Busy("emit") /\ faults < MaxFaults /\ faults' = faults + 1
    /\ shown' \in {shown, Append(shown, Entry(Pending))}
    /\ todo' = IF Pending.what = "error" THEN Tail(todo) ELSE Failure(1)
    /\ UNCHANGED <<request, pc, raw, receipt, stored, exit>>

\* Faulty variant: a commit that failed counts as stored.
StoreUnheard ==
    /\ Busy("keep")
    /\ receipt' = IF request.keep THEN "stored" ELSE "no_store"
    /\ stored' \in {stored,
                    [kept |-> request.keep, content |-> Pending.content,
                     stats |-> Pending.stats]}
    /\ todo' = Tail(todo)
    /\ UNCHANGED <<request, pc, raw, shown, exit, faults>>

\* Persistence::store
Store ==
    /\ Busy("keep")
    /\ receipt' \in IF request.keep THEN Reasons \ {"no_store"}
                    ELSE {"no_store"}
    /\ stored' = IF receipt' = "stored"
                 THEN [kept |-> TRUE, content |-> Pending.content,
                       stats |-> Pending.stats]
                 ELSE stored
    /\ todo' = Tail(todo)
    /\ UNCHANGED <<request, pc, raw, shown, exit, faults>>

PrintReceipt ==
    /\ Busy("receipt")
    /\ todo' = (IF receipt = "stored" THEN << >>
                ELSE Emit("stderr", "receipt", Prepared(<<receipt>>)))
                   \o Tail(todo)
    /\ UNCHANGED <<request, pc, raw, shown, receipt, stored, exit, faults>>

Exit ==
    /\ Busy("exit")
    /\ pc' = "exited" /\ exit' = Pending.code /\ todo' = << >>
    /\ UNCHANGED <<request, raw, shown, receipt, stored, faults>>

-------------------------------------------------------------------------------
(* retrieve, search and report                                               *)

\* What render_external makes of the answer; a blocked one is replaced.
Answer(body) ==
    IF Stops(body, request'.pia)
    THEN Emit("stdout", "status", External(<<"status">>, request'.max))
           \o Failure(1)
    ELSE Emit("stdout", "payload", External(body, request'.max)) \o Quit(0)

Body(t) == <<"status">> \o (IF Detect(t) THEN <<"warnings">> ELSE << >>) \o t

Retrieve(stream) == Answer(Body(stored.content[stream]))

\* One line is searched.
MatchLines(t, literal) ==
    IF literal \in Range(t)
    THEN BoundedMatchLine(t, <<literal>>, MaxMatchLine)
    ELSE << >>

Search(stream, literal) ==
    Answer(Body(MatchLines(stored.content[stream], literal)))

\* Statistics of an older version are read where the store knows nothing.
Report(status, legacy) ==
    CASE status = "active" ->
            Emit("stdout", "stats", Prepared(StatsText(stored.stats)))
              \o Quit(0)
      [] status = "not_found" /\ legacy ->
            Emit("stdout", "legacy", Prepared(<<"stats">>)) \o Quit(0)
      [] OTHER -> Failure(1)

\* What a lookup of the run may say.
Lookups ==
    IF stored.kept
    THEN {"active", "expired", "deleted", "corrupt", "not_found"}
    ELSE {"not_found"}

\* A command is given once the process before it has ended.
Begin(q) ==
    /\ pc = "exited"
    /\ request' = q /\ shown' = << >> /\ exit' = None /\ receipt' = None
    /\ raw' = << << >>, << >> >> /\ faults' = 0

\* store delete, purge or status, or a run that cannot be found.
StoreCommand(q) ==
    /\ q.cmd = "store" /\ Begin(q)
    /\ \/ /\ stored' \in {stored, NotStored}
          /\ Call(Status \o Quit(0))
       \/ UNCHANGED stored /\ Call(Failure(1))

Ask(q) ==
    /\ q.cmd # "store" /\ Begin(q)
    /\ \/ /\ q.cmd = "report"
          /\ \E status \in Lookups, legacy \in BOOLEAN :
                Call(Report(status, legacy))
       \/ q.cmd # "report" /\ Call(Failure(1))
       \/ q.cmd = "retrieve" /\ stored.kept /\ Call(Retrieve(q.stream))
       \/ q.cmd = "search" /\ stored.kept
             /\ Call(Search(q.stream, q.literal))
    /\ UNCHANGED stored

Next ==
    \/ ResolvePath
    \/ CheckArguments
    \/ ReadInput
    \/ ReadFails
    \/ Write
    \/ WriteFails
    \/ Store
    \/ PrintReceipt
    \/ Exit
    \/ \E q \in Questions : Ask(q) \/ StoreCommand(q)

Spec == Init /\ [][Next]_vars

-------------------------------------------------------------------------------
(* Properties                                                                *)

Producing == request.cmd \in {"cat", "grep", "run"}

Written(what) == {e \in Range(shown) : e.what = what}

\* Everything keeps its type; a process that has exited has nothing left to do.
TypeOK ==
    /\ request \in Requests \cup Questions
    /\ pc \in {"start", "read", "busy", "exited"}
    /\ pc = "exited" <=> exit # None
    /\ pc = "busy" <=> todo # << >>
    /\ \A e \in Range(shown) : e.to \in {"stdout", "stderr", "file"}
    /\ receipt \in Reasons \cup {None}
    /\ faults \in 0..MaxFaults

\* Whatever the policy and whatever fails on the way, no secret and no private
\* path is written to stdout, stderr, the JSON file or the store, and what is
\* stored has no foreign line ends.
NothingSecretLeaves ==
    /\ \A e \in Range(shown) : {"key", "home"} \cap Range(e.text) = {}
    /\ stored.kept =>
          \A i \in 1..2 :
             {"key", "home", "crlf"} \cap Range(stored.content[i]) = {}

\* Under the policy Block no answer and no notice shows an injection, not even
\* one that was cut out of what was shown before and is in the store for another
\* command to ask for.  Only names may hold one: the paths a partial search lists
\* and the command line in the statistics are printed under Warn.
PolicyHolds ==
    request.pia = "Block" =>
        \A e \in Range(shown) :
            Detect(e.text) => e.what \in {"gaps", "stats", "json"}

\* What cat, grep or run withheld is not in the store either, where a later
\* command under another policy would find it: a stream that is kept was shown.
BlockedLeavesNothing ==
    Producing /\ exit # None /\ faults = 0 /\ stored.kept =>
        \A i \in 1..2 :
            stored.content[i] # << >> =>
                \E e \in Written("payload") : e.to = <<"stdout", "stderr">>[i]

\* The store holds all that was read, token for token, however little of it the
\* command showed, unless cat blocked it; only secrets, private paths and line
\* ends are different.
KeptInFull ==
    Producing /\ stored.kept /\ (request.cmd = "cat" => stored.stats.code # 1) =>
        \A i \in 1..2 :
           /\ Len(stored.content[i]) = Len(raw[i])
           /\ \A k \in DOMAIN raw[i] :
                 raw[i][k] \notin {"key", "home", "crlf"}
                     => stored.content[i][k] = raw[i][k]

\* A process that ends as its handler means to has shown its answer and printed
\* statistics with that exit status (none, for a command that was killed), has
\* told why the run is not stored, and shows no injection without a legible
\* warning.
SuccessIsTold ==
    Producing /\ exit \in {0, 2, 3} =>
        /\ Written("stats") # {} /\ Written("payload") # {}
        /\ stored.kept \/ (receipt # None /\ Written("receipt") # {})
        /\ (\E e \in Written("payload") : Detect(e.text))
              /\ request.max > Overhead
           => \E e \in Written("warning") : "warning" \in Range(e.text)
        /\ stored.kept =>
              stored.stats.code = exit
                  \/ (stored.stats.code = None /\ exit = 0)

\* A run that is in the store has been named on stderr, or the process that
\* stored it could not write: print_storage_receipt relies on it.
StoredIsNamed ==
    Producing /\ stored.kept /\ (exit # None \/ request.cmd # "run")
        => Written("stats") # {} \/ (request.cmd = "run" /\ faults > 0)

\* An answer has room, and what is given of it is what was asked for.
Fits(e) ==
    /\ Len(e.text) <= request.max
    /\ e.what = "payload" /\ request.cmd = "retrieve"
         /\ Len(stored.content[request.stream]) + 2 + Overhead <= request.max
       => \E n \in 1..2 :
             SubSeq(e.text, Len(Header) + n + 1, Len(e.text) - Len(Footer))
                = stored.content[request.stream]
    /\ e.what = "payload" /\ request.cmd = "search"
         /\ MaxMatchLine + 2 + Overhead <= request.max
         /\ request.literal \in Range(stored.content[request.stream])
       => request.literal \in Range(e.text)

\* The answer of retrieve or search has at most max characters, envelope and
\* notices included, and is given unshortened when it has room; a match that is
\* shown unshortened shows the literal.
AnswersFit ==
    request.cmd \in {"retrieve", "search"} =>
        \A e \in Range(shown) \ Written("error") : Fits(e)

\* Reference: a path with its ".." taken out by name alone.
Lexical(path) ==
    LET at[n \in 0..Len(path)] ==
            IF n = 0 THEN << >>
            ELSE IF path[n] # ".." THEN Append(at[n - 1], path[n])
            ELSE IF at[n - 1] = << >> THEN << >>
            ELSE Front(at[n - 1])
    IN  at[Len(path)]

\* cat and grep read what the spelling names, inside the workspace, through no
\* link, and under Block nothing a rule names; and what is so spelled without
\* "..", they read.
ReadIsItsSpelling ==
    LET path   == Candidate(request.path)
        target == Lexical(path)
        clear  == request.action = "Block" =>
                     ~Matches(request.path.names) /\ ~Matches(target)
    IN  request.cmd \in {"cat", "grep"} =>
          /\ pc = "read" =>
                /\ Canonical(path) = target /\ IsPrefix(Root, target)
                /\ target \in DOMAIN Nodes /\ clear
          /\ todo \in {Failure(1), Status \o Failure(1)} /\ shown = << >>
                /\ faults = 0 /\ ".." \notin Range(path)
                /\ IsPrefix(Root, path) /\ clear
                /\ {SubSeq(path, 1, i) : i \in DOMAIN path}
                      \subseteq DOMAIN Nodes
             => Nodes[path] = "other"
                   \/ (Nodes[path] = "dir" /\ request.cmd = "cat")
===============================================================================
