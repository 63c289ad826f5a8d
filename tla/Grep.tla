--------------------------------- MODULE Grep ----------------------------------
(***************************************************************************)
(* The search of the grep command through a directory tree (path_io.rs):   *)
(* what the walker opens, what it passes over, and what it tells the       *)
(* caller about that.  The tree may change while it is walked, except      *)
(* between a check of an entry and the opening of it: the code declares a  *)
(* file system that fights it out of scope.                                *)
(***************************************************************************)
EXTENDS Naturals, Sequences, SequencesExt

CONSTANTS
    Nodes,           \* the target and everything below it
    Root,            \* the target
    Parent,          \* the directory of every other node
    Lines,           \* what the lines of a node hold: "hit", "miss" or "bad"
    Blocked,         \* the nodes whose path the path policy denies
    InitialTrees,    \* the trees a search may begin with
    MaxDepth,        \* MAX_TRAVERSAL_DEPTH
    MaxEntries,      \* MAX_TRAVERSAL_ENTRIES
    MaxDiagnostics,  \* MAX_DIAGNOSTICS
    MaxChanges       \* bound on the changes to the tree during the search

\* What a node is.  A closed one cannot be opened; reading the directory fails
\* at a lost one, and an untyped one does not say what it is.
Shapes == {"dir", "dir_closed", "file", "file_big", "file_closed", "symlink",
           "other", "lost", "untyped", "gone"}

ASSUME TreeAssumption ==
    /\ IsFiniteSet(Nodes) /\ Root \in Nodes \ Blocked
    /\ Parent \in [Nodes \ {Root} -> Nodes]
    /\ \A S \in SUBSET Nodes :    \* all of it is below the target
          Root \in S /\ (\A n \in Nodes \ {Root} : Parent[n] \in S => n \in S)
             => S = Nodes
    /\ Lines \in [Nodes -> Seq({"hit", "miss", "bad"})]
    /\ InitialTrees \subseteq
          {t \in [Nodes -> Shapes] : t[Root] \in {"dir", "file"}}
    /\ MaxDiagnostics \in Nat \ {0} /\ MaxEntries \in Nat /\ MaxDepth \in Nat
    /\ MaxChanges \in Nat

VARIABLES
    tree,          \* what every node is now
    changes,       \* changes so far
    pc,            \* "start", "walk", "file", "lines", "done" or "failed"
    stack,         \* open directories, the innermost last: their unread entries
    entries_seen,
    file,          \* the file at hand
    next_line,     \* the line of it that is read next
    matches,
    diagnostics,
    diagnostics_capped,
    partial

disk == <<tree, changes>>
walk == <<stack, entries_seen>>
reading == <<file, next_line>>
verdict == <<diagnostics, diagnostics_capped, partial>>
vars == <<disk, pc, walk, reading, matches, verdict>>

Entries(dir) == {n \in Nodes \ {Root} : Parent[n] = dir /\ tree[n] # "gone"}

Frame(dir, depth) == [dir |-> dir, left |-> Entries(dir), depth |-> depth]

Init ==
    /\ tree \in InitialTrees /\ changes = 0
    /\ pc = (IF tree[Root] = "file" THEN "file" ELSE "start")
    /\ stack = << >> /\ entries_seen = 0
    /\ file = Root /\ next_line = 1
    /\ matches = << >>
    /\ diagnostics = << >> /\ diagnostics_capped = FALSE /\ partial = FALSE

-------------------------------------------------------------------------------
(* record                                                                    *)

Diagnostic(kind, n) == [kind |-> kind, path |-> n]

\* Faulty variant: what no longer fits is dropped without a trace.
RecordSilently(kind, n) ==
    /\ partial' = TRUE
    /\ IF Len(diagnostics) < MaxDiagnostics
       THEN /\ diagnostics' = Append(diagnostics, Diagnostic(kind, n))
            /\ UNCHANGED diagnostics_capped
       ELSE diagnostics_capped' = TRUE /\ UNCHANGED diagnostics

\* Faulty variant: the list grows by the mark that it is full.
RecordBeyondCap(kind, n) ==
    /\ partial' = TRUE
    /\ IF Len(diagnostics) < MaxDiagnostics
       THEN /\ diagnostics' = Append(diagnostics, Diagnostic(kind, n))
            /\ UNCHANGED diagnostics_capped
       ELSE /\ diagnostics_capped' = TRUE
            /\ diagnostics' =
                  IF diagnostics_capped THEN diagnostics
                  ELSE Append(diagnostics,
                              Diagnostic("resource_limit_reached", n))

\* The first one that does not fit replaces the last that did, to say so.
Record(kind, n) ==
    /\ partial' = TRUE
    /\ IF Len(diagnostics) < MaxDiagnostics
       THEN /\ diagnostics' = Append(diagnostics, Diagnostic(kind, n))
            /\ UNCHANGED diagnostics_capped
       ELSE /\ diagnostics_capped' = TRUE
            /\ diagnostics' =
                  IF diagnostics_capped THEN diagnostics
                  ELSE [diagnostics EXCEPT ![MaxDiagnostics] =
                          Diagnostic("resource_limit_reached", n)]

-------------------------------------------------------------------------------
(* The walk                                                                  *)

\* scan_root_directory: a root that cannot be listed fails the command.
ScanRoot ==
    /\ pc = "start"
    /\ IF tree[Root] = "dir"
       THEN pc' = "walk" /\ stack' = <<Frame(Root, 0)>>
       ELSE pc' = "failed" /\ UNCHANGED stack
    /\ UNCHANGED <<disk, entries_seen, reading, matches, verdict>>

Top == stack[Len(stack)]

\* Where the walk goes on once the frame is closed, or the file read.
PopFrame ==
    /\ stack' = Front(stack)
    /\ pc' = IF Len(stack) = 1 THEN "done" ELSE "walk"

CloseFile == pc' = IF stack = << >> THEN "done" ELSE "walk"

EndOfDirectory ==
    /\ pc = "walk" /\ Top.left = {}
    /\ PopFrame
    /\ UNCHANGED <<disk, entries_seen, reading, matches, verdict>>

\* Faulty variant: the search stops at the limit even if nothing is left.
EntryLimitEarly ==
    /\ pc = "walk" /\ entries_seen + 1 >= MaxEntries /\ Top.left # {}
    /\ Record("resource_limit_reached", Top.dir)
    /\ PopFrame
    /\ UNCHANGED <<disk, entries_seen, reading, matches>>

\* The rest of the directory is given up.
EntryLimit ==
    /\ pc = "walk" /\ entries_seen >= MaxEntries /\ Top.left # {}
    /\ Record("resource_limit_reached", Top.dir)
    /\ PopFrame
    /\ UNCHANGED <<disk, entries_seen, reading, matches>>

\* Entry n of the innermost directory is the next one read.
TakeEntry(n) ==
    /\ pc = "walk" /\ entries_seen < MaxEntries /\ n \in Top.left
    /\ entries_seen' = entries_seen + 1
    /\ UNCHANGED <<disk, matches>>

Left(n) == [stack EXCEPT ![Len(stack)].left = @ \ {n}]

PassOver(n) == stack' = Left(n) /\ UNCHANGED <<pc, reading>>

\* The entry, or its type, cannot be read; or it is a symbolic link, which is
\* reported before the policy is asked.
SkipUnread(n) ==
    /\ TakeEntry(n) /\ tree[n] \in {"lost", "untyped", "symlink", "gone"}
    /\ PassOver(n)
    /\ CASE tree[n] = "lost" -> Record("entry_unreadable", Top.dir)
         [] tree[n] \in {"untyped", "gone"} -> Record("entry_unreadable", n)
         [] tree[n] = "symlink" -> Record("symlink_skipped", n)

\* Faulty variant: the policy is asked about the target only.
DeniedNever(n) == FALSE

\* block_rule_for_path, of the entry as it is displayed.
Denied(n) == n \in Blocked

FileShapes == {"file", "file_big", "file_closed"}

\* What the policy denies is passed over in silence.
SkipDenied(n) ==
    /\ TakeEntry(n)
    /\ tree[n] \in {"dir", "dir_closed", "other"} \cup FileShapes
    /\ Denied(n)
    /\ PassOver(n) /\ UNCHANGED verdict

\* scan_child_directory, one level down at most MAX_TRAVERSAL_DEPTH times.
EnterDirectory(n) ==
    /\ TakeEntry(n) /\ tree[n] \in {"dir", "dir_closed"} /\ ~Denied(n)
    /\ IF Top.depth >= MaxDepth
       THEN PassOver(n) /\ Record("resource_limit_reached", n)
       ELSE IF tree[n] = "dir_closed"
       THEN PassOver(n) /\ Record("entry_unreadable", n)
       ELSE /\ stack' = Append(Left(n), Frame(n, Top.depth + 1))
            /\ UNCHANGED <<pc, reading, verdict>>

EnterFile(n) ==
    /\ TakeEntry(n) /\ tree[n] \in FileShapes /\ ~Denied(n)
    /\ stack' = Left(n) /\ pc' = "file" /\ file' = n /\ next_line' = 1
    /\ UNCHANGED verdict

SkipUnsupported(n) ==
    /\ TakeEntry(n) /\ tree[n] = "other" /\ ~Denied(n)
    /\ PassOver(n) /\ Record("unsupported_file_type", n)

-------------------------------------------------------------------------------
(* scan_file                                                                 *)

\* Faulty variant: a file over the limit is left out in silence.
ScanFileSilently ==
    /\ pc = "file"
    /\ CASE tree[file] = "file" -> pc' = "lines" /\ UNCHANGED verdict
         [] tree[file] = "file_big" -> CloseFile /\ UNCHANGED verdict
         [] OTHER -> CloseFile /\ Record("file_unreadable", file)
    /\ UNCHANGED <<disk, walk, reading, matches>>

\* The file is looked at once more, and opened.
ScanFile ==
    /\ pc = "file"
    /\ IF tree[file] = "file" THEN pc' = "lines" /\ UNCHANGED verdict
       ELSE /\ CloseFile
            /\ CASE tree[file] \in {"gone", "file_closed"} ->
                        Record("file_unreadable", file)
                 [] tree[file] = "symlink" -> Record("symlink_skipped", file)
                 [] tree[file] = "file_big" ->
                        Record("resource_limit_reached", file)
                 [] OTHER -> Record("unsupported_file_type", file)
    /\ UNCHANGED <<disk, walk, reading, matches>>

\* The open file keeps its content whatever becomes of its name.
ReadLine ==
    /\ pc = "lines" /\ next_line <= Len(Lines[file])
    /\ IF Lines[file][next_line] = "bad"
       THEN /\ CloseFile /\ Record("file_unreadable", file)
            /\ UNCHANGED <<next_line, matches>>
       ELSE /\ next_line' = next_line + 1
            /\ matches' = IF Lines[file][next_line] = "hit"
                          THEN Append(matches,
                                      [path |-> file, line |-> next_line])
                          ELSE matches
            /\ UNCHANGED <<pc, verdict>>
    /\ UNCHANGED <<disk, walk, file>>

EndOfFile ==
    /\ pc = "lines" /\ next_line > Len(Lines[file])
    /\ CloseFile
    /\ UNCHANGED <<disk, walk, reading, matches, verdict>>

-------------------------------------------------------------------------------

\* Somebody else's doing: a node turns into something else.
Change(n, shape) ==
    /\ pc \notin {"done", "failed"}
    /\ changes < MaxChanges /\ tree[n] # shape
    /\ tree' = [tree EXCEPT ![n] = shape] /\ changes' = changes + 1
    /\ UNCHANGED <<pc, walk, reading, matches, verdict>>

Next ==
    \/ ScanRoot
    \/ EndOfDirectory
    \/ EntryLimit
    \/ \E n \in Nodes :
          \/ SkipUnread(n)
          \/ SkipDenied(n)
          \/ EnterDirectory(n)
          \/ EnterFile(n)
          \/ SkipUnsupported(n)
          \/ \E shape \in {"gone", "symlink", "file_big", "dir_closed"} :
                Change(n, shape)
    \/ ScanFile
    \/ ReadLine
    \/ EndOfFile

Spec == Init /\ [][Next]_vars

-------------------------------------------------------------------------------
(* Reference: what a search of the tree, as it is, owes its caller           *)

Above[n \in Nodes] == IF n = Root THEN {} ELSE {Parent[n]} \cup Above[Parent[n]]

\* The walk comes to n.
Reached(n) ==
    IF n = Root THEN tree[Root] = "file"
    ELSE /\ tree[n] # "gone"
         /\ \A p \in Above[n] : /\ tree[p] = "dir" /\ p \notin Blocked
                                /\ Cardinality(Above[p]) <= MaxDepth

BadLines(n) == {i \in 1..Len(Lines[n]) : Lines[n][i] = "bad"}

\* Something at n is left out that the policy does not deny; a link is named
\* even where the policy denies it.
Gap(n) ==
    /\ Reached(n)
    /\ \/ tree[n] \in {"lost", "untyped", "symlink"}
       \/ /\ n \notin Blocked
          /\ \/ tree[n] \in {"dir_closed", "other", "file_big", "file_closed"}
             \/ tree[n] = "dir" /\ Cardinality(Above[n]) > MaxDepth
             \/ tree[n] = "file" /\ BadLines(n) # {}

\* The matching lines of n, as far as it can be read.
Hits(n) ==
    {[path |-> n, line |-> i] :
        i \in {j \in 1..Len(Lines[n]) :
                 Lines[n][j] = "hit" /\ \A k \in BadLines(n) : j < k}}

Owed == UNION {Hits(n) : n \in {m \in Nodes \ Blocked :
                                  Reached(m) /\ tree[m] = "file"}}

Found == {matches[i] : i \in 1..Len(matches)}

Undisturbed == pc = "done" /\ changes = 0

(* Properties                                                                *)

\* Everything keeps its type and its bound: directories open at once, entries
\* read, diagnostics kept (record never lets the list grow past
\* MAX_DIAGNOSTICS).
TypeOK ==
    /\ tree \in [Nodes -> Shapes] /\ changes \in 0..MaxChanges
    /\ pc \in {"start", "walk", "file", "lines", "done", "failed"}
    /\ Len(stack) <= MaxDepth + 1 /\ entries_seen \in 0..MaxEntries
    /\ file \in Nodes /\ next_line \in 1..(Len(Lines[file]) + 1)
    /\ Found \subseteq [path : Nodes, line : Nat]
    /\ Len(diagnostics) <= MaxDiagnostics
    /\ diagnostics_capped \in BOOLEAN /\ partial \in BOOLEAN

\* A search that calls itself complete left nothing out and has every matching
\* line (scan_directory_entries and scan_file: each early exit has its record).
CompleteMeansAll ==
    Undisturbed /\ ~partial => Found = Owed /\ \A n \in Nodes : ~Gap(n)

\* A search calls itself partial for a reason only: something was left out, or
\* there were more entries than it reads; exactly MAX_TRAVERSAL_ENTRIES are not
\* too many.
PartialForCause ==
    Undisturbed /\ partial
        => \/ \E n \in Nodes : Gap(n)
           \/ Cardinality({n \in Nodes \ {Root} : Reached(n)}) > MaxEntries

\* Whatever was left out is named in the diagnostics, by the path of its
\* directory if its own is not known, or the diagnostics have an entry about a
\* limit; any such entry will do, one about a file that is too big as well.
GapsAreTold ==
    Undisturbed =>
        \A n \in Nodes :
            Gap(n) => \E i \in 1..Len(diagnostics) :
                         \/ diagnostics[i].path = n
                         \/ tree[n] = "lost" /\ diagnostics[i].path = Parent[n]
                         \/ diagnostics[i].kind = "resource_limit_reached"

\* No line is reported twice, none that does not match, and none from a path the
\* policy denies or from below one, even while the tree changes.
MatchesAreClean ==
    /\ Cardinality(Found) = Len(matches)
    /\ \A m \in Found : /\ m \in Hits(m.path)
                        /\ ({m.path} \cup Above[m.path]) \cap Blocked = {}
===============================================================================
