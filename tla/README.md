# llm-veil in TLA+

llm-veil puts a gate between a coding assistant and a machine: `veil run`, `veil
cat` and `veil grep` execute a command, read a file or search a tree, redact and
check what comes out, show a shortened version of it, and keep the rest in a local
store from which `veil retrieve` and `veil search` hand it out in portions.

This directory holds TLA+ models of the parts of that program whose correctness
depends on *order*: several processes on one store without a lock, a child process
against a deadline, pages of a search, a tree that changes while it is walked. TLC
checks the models on small instances; TLAPS proves, for every size, what matters most
about the run store (that it implements an abstract life of a run among it), about the
executor, about what the gate lets out and keeps, about what a search of a tree owes its
caller, and about the cutting of answers to their budget. Line numbers below refer to
the files under `src/`.

## 1. Inventory

| Component | Source | State it keeps | Operations | Model |
|---|---|---|---|---|
| run store | `storage.rs` | `records/`, `tombstones/`, `last_run` on disk | open (with sweep), commit, lookup (retrieve, search, report), delete, purge, status | `RunStore`, `RunLifecycle` |
| line index, retrieve, search | `storage.rs` | one stream's data file and its index | build, validate, read a slice, retrieve a range, search a page, follow a cursor | `LineIndex`, `Retrieval` |
| persistence facade | `persistence.rs` | none | open-then-commit, mapping an error to a receipt | inside `RunStore`, `Gate` |
| executor and process adapter | `executor.rs`, `platform.rs` | the child, its pipes, the received signal | spawn, wait, deadline, signal, kill the group, drain, report | `Executor` |
| grep traversal | `path_io.rs` 258-523 | the walk: open directories, matches, diagnostics | walk, scan a file, record a diagnostic | `Grep` |
| workspace resolver, path guard | `path_io.rs` 95-240, `path_guard.rs` | canonical root, glob rules | resolve a path to a capability, match a rule | `PathBoundary` |
| command handlers | `main.rs` | one command's intermediate results | run, cat, grep, report, retrieve, search, store | `Gate` |
| output renderer, router | `output.rs` | none | redact, detect, block or warn, truncate, choose the stream | `Gate` |
| redactor, injector, sanitiser | `redactor.rs`, `injector.rs`, `safety.rs` | compiled expressions | replace, count warnings | `Gate`, over tokens |
| truncator, utils | `truncator.rs`, `utils.rs` | none | shorten by lines and characters | `Bounds` |
| configuration, command line, legacy statistics | `config.rs`, `cli.rs`, `stats.rs` | read once | load, parse | not modelled |
| scripts, lints, prototype | outside `src/src` | - | - | not modelled |

**How they interact.** A process of `veil` lives for one command. `main.rs` builds
the configuration and the adapters, opens the store where the command needs it and
calls one handler. `run` calls the executor, passes the captured output through the
renderer, hands the sanitised streams to the persistence facade and prints the
result with the storage receipt. `cat` and `grep` get a capability from the
resolver, read through it and go the same way. `retrieve`, `search`, `report` and
`store` are calls of the run store. Processes share nothing but the store's
directory: no lock file, no daemon. The only callbacks are the two signal handlers,
which store a number in an atomic.

**What makes each part correct, and what is hard about it.**

- *Run store.* A receipt tells the truth; a deleted or expired run is gone and stays
  gone; a live one is not lost; limits hold. Hard: each operation is a sequence of
  file-system steps (a dozen for a commit), any two processes interleave at each of
  them, each can fail and after each the process can be killed.
- *Retrieval.* What is handed out is what was stored, each match exactly once over all
  pages, no part of an injection marker at the edge of a range. Hard: the file is
  read several times after the manifest was validated; four different limits end a
  page.
- *Executor.* Everything the command wrote before it ended is reported, the verdict
  (exit code, `timeout`) is what happened, no process of the group survives, veil
  ends. Hard: the deadline, a signal and the end of the command come in one slice;
  pipes fill; descendants keep pipes open.
- *Grep.* "Complete" means complete. Hard: six early exits and four limits, each of
  which must leave its mark, in a list that has a limit itself.
- *Handlers.* Nothing blocked is shown, nothing unsanitised stored, exit codes follow
  the contract. Hard: the order of blocking, persisting and reporting differs from
  handler to handler (`run` and `grep` return before they persist when injection
  blocks them, `cat` stores an empty content), and any write may fail in between.
- *Paths.* What is read is what the spelling names, inside the workspace, through no
  link and past no rule. Hard: the spelling, the canonical path and the links on the
  way are looked at separately and in a certain order, `..` and links at once.
- *Budgets.* No answer is longer than the caller asked for, envelope and notices
  included, and none is cut twice. Hard: three budgets around fixed lengths, each of
  which may be smaller than the notice that says so.

The list `hazards` of `PROJECT.json` has every place, with its line, where such a
thing bites, and the properties that watch it.

## 2. Modules

```
RunLifecycle                         abstract specification of a run
RunStore --- RunStoreRefinement --- MCRunStore      store_*.cfg
    |            (INSTANCE RunLifecycle WITH ...)
    \--- RunStoreProofs --- RunStoreSafetyProofs
             --- RunStoreRefinementProofs (with RunStoreRefinement)
Executor --- MCExecutor              exec_*.cfg
    \--- ExecutorProofs
LineIndex -- Retrieval -- MCRetrieval    retrieval.cfg, retrieval_split_marker.cfg
    \--- RetrievalProofs
Grep ------- MCGrep                  grep.cfg
    \--- GrepProofs
Bounds, PathBoundary --- Gate --- MCGate    gate.cfg
    \--- BoundsProofs       \--- GateProofs (with BoundsProofs)
```

A definition called a *faulty variant* in its comment is used by no specification. It
is the definition next to it with a plausible bug in it; `PROJECT.json` pairs each
property with a variant that breaks it, as evidence that the property can fail.

### RunStore

State: `records` is what is published under a run id (its expiry; 0 for none),
`hidden` the dot-named directories of `records/` (`.tmp-`, `.expired-`, `.deleted-`,
`.failed-`), `tomb` the files of `tombstones/`, by run and by writer, where the
writer `Final` is the final name; `lastRun` the file of that name. Every process has a
program counter and a record of locals (`loc`): the operation, the run, the time it
read, the directory listing it still has to visit. `result` and `receipt` are what was
answered. One action is one file-system step:

| Code | Actions |
|---|---|
| `open_with_environment`, `sweep_expired` | `Open`, `SweepSkip`, `SweepExpire`, `SweepDone` |
| `expire_record`, `remove_private_dir`, `write_tombstone` | `ExpireFind`, `MoveAside`(`Lost`), `RemoveDir`, `TombCreate`, `TombWrite`, `TombRename`(`Lost`) |
| `commit`, `usage`, `publish_record` | `StreamTooBig`, `UsageList` ... `UsageFull`, `Stage`, `WriteFiles`, `IndexTooBig`, `Publish`, `WriteLastRun`, `SyncRoot`, and the clean-up `Unstage`, `Unpublish`, `UnpublishGone`, `DropFailed` |
| `lookup_manifest`, `load_stats`, `retrieve_lines_at` | `LookupRun`, `ReadTombstone`, `DropTombstone`, `FindRecord`, `ReadManifest`, `ReadData`, `ReadNothing` |
| `delete`, `purge`, `status` | `DeleteFind`, `DeleteGone`, `PurgeList`, `PurgeRecord`, `PurgeListFiles`, `PurgeFile`, `PurgeUnreadable`, `PurgeDone`, `UsageStatus` |

`IoFault` lets the next step of a process fail and goes where the code's `?`, `match`
or clean-up goes: out of the operation for the `AbortingSteps`, on to the tombstone
where `expire_record` takes an error of `symlink_metadata` for the absence of the record
(`storage.rs:491`). The receipt of a commit that fails is a quota where the disk is full
and a storage error otherwise (`Fail`, as `persistence.rs` 78-89). `ReadNothing` is the
answer of `read_line_slice` and of the loop of `search_at` when no line is asked for
(an empty stream, a start past its end): `active`, and no file is opened. `Crash` kills a process between two steps; `Tick` is the clock.

Abstractions, all deliberate: reading or writing one small file is one step, except
where a killed writer leaves half a file that somebody parses (tombstones); `readdir` is
a snapshot taken when the loop starts; the permission and ownership checks of the store
directories are left out (a process that fails them never gets as far as `Open`);
run ids are fresh UUIDs, so `AlreadyExists` does not arise; a run has one size for
both streams; `sync_records` is part of the step after it; the removal of one listed
tombstone by purge is one step with its reading; the 100 ms limit of a sweep is
`SweepDone` at any time; a search looks like a retrieve to the store.

### RunLifecycle and RunStoreRefinement

`RunLifecycle` is what a caller may believe of the store: a table of runs. A run is
`unused`, then `pending`, is published once (`live`), has `lapsed` when the clock
reaches its expiry, is removed once (`gone`) and never comes back; one that is given up
is `void`. A receipt is given after the fact it
states (`Confirm`, `Refuse`), and `Hear` gives a client only answers that are true at
that moment: `active` of a run that is stored, `not_found` of any other, `expired` of one that
has lapsed or is gone, `deleted`, `removed` and `already_gone` of one that is gone for
good. Two answers say less than a caller might hope, because the code gives them:
`active_empty`, over no line, of whatever was published once, and `active` of a run that
lapsed after the lookup had read the clock.

`RunStoreRefinement` reads this table off the directory tree. `PhaseOf` takes it from
the receipt, from `records` and, where neither decides, from the step the run's commit
has reached: a record counts from the rename that publishes it to the one that moves it
aside. `void` covers the runs that are not stored and those that are removed before
anybody could be told of them, by their own commit or by another process between the
rename and the receipt. `HeardBy` is the last answer about a run; answers about the
whole store and errors claim nothing of a run. `KeepsLifecycle` is then
`Lifecycle!Spec`: each of the dozens of file-system steps is a step of one run's life,
a true answer, or nothing. It is a statement about every interleaving that no invariant
above makes: the tombstone, the record and the manifest a lookup reads one after the
other may come from different moments, and its answer is still that of one.

### LineIndex and Retrieval

`LineIndex` has no state: `StreamManifest`, `ValidManifest` and `ReadLineSlice` are the
three functions of the code, over sequences of bytes in which only the newline matters.
`Ascending` puts the line starts in order, as the loop over the bytes meets them.
A checksum is the line itself: collisions of the 64-bit hash are out of the model.

`Retrieval` commits one stream and lets a client search it and read ranges of it. A page
of a search is one step per line (`ScanLine`, with `ScanHit`, `ScanMiss`), ended by a
full page, by `MAX_SCAN_BYTES`, by `MAX_SCAN_TIME` (`ScanTimeUp`, at any point where the
code looks at the clock), by the end (`ScanEnd`) or by damage (`ScanFails`). `Retrieve`,
`SelectLines` and `InspectContext` are the lookup and the two reads of
`retrieve_lines_at`. `Damage` may overwrite a byte of the file or cut it off between any
two of them. A cursor is bound to the run and stream it was made for (`source`), to the
literal and to a line; the client passes it back with the right literal or a wrong one,
or takes one of another stream for it (`Follow`). A marker is any non-empty text over
any number of newlines: `StandsAt` finds it in a stream, `HasMarker` is the detector. The
instance has one marker split by one newline and one with an empty line in it.
With the constants of the code a page can read a whole stream (`MAX_SCAN_BYTES =
MAX_STREAM_BYTES`), so the branch of `ScanLine` that steps over a line unread is dead in
the program; `SearchComplete` says so by its premise. A search counts lines from 1,
`--start-line` from 0.

The properties compare all this with a reference that knows no index: `LineOf` counts
the newlines ahead of a byte, `LinesOf` and `LineText` collect the bytes of a range of
lines and of one line, `Hits` the lines that hold a literal.

### Executor

`vpc` walks through the loop of `execute_command_with_adapters`: look at the signal, look
at the deadline, wait for a slice, again; then drain stdout, drain stderr, report. The
command is a constant script of writes, an ending and perhaps a descendant, in the
process group or out of it, that shares the pipes. A pipe is bounded. `starved` is a
history variable that is TRUE once a slice passed in which the command could run and did
not: `SmallOutputCompletes` is about the others. Not modelled: the sanitised
environment, signals before the handlers are installed or after the report, and the
errors of the operating system that `?` hands up without a report (`executor.rs` 105,
111, 120, 123): `killpg` and `kill` of a child nobody has waited for do not fail on
Linux, and a failed wait or read of a pipe ends `run` as any failed handler in `Gate`.

### PathBoundary

No state: `Canonical` is `fs::canonicalize` over a constant file system of files,
directories, others (a pipe) and links; `Resolve` is `resolve_existing` with its order
of checks (the rule on the spelling, existence, the root, the rule on the target, links
in the spelling), `ContainsLink` its walk over the components, `Mentions` the path guard
as `run` and the redacting `cat` ask it, from the directory of the process where
`Resolve` starts from the workspace root. A rule is the set of names it matches: glob
syntax is left out. The file system stands still; `Grep` has the one that changes. It is
any tree of directories with links that lead to a node of it or nowhere
(`FileSystemAssumption`).

### Bounds

No state: `Truncate`, `FitToBudget`, `WrapBounded`, `PayloadBudget` and
`BoundedMatchLine` are the functions of the code over sequences of any elements: lines
for `truncate_lines`, characters for the others. `Omitted` is the notice that does not
count against the budget, `Marker` the one that does.

### Gate

One command of `veil` from its arguments to its exit, and the commands that follow it
and read back what it stored. Once the input is read a handler decides everything, so
`Cat`, `Grep`, `Run`, `Retrieve`, `Search` and `Report` compute the list of calls the
handler still makes (`todo`), in the order of the code: show, warn, keep, print the
statistics, print the receipt, exit. The actions make them one at a time: `Write`, or
`WriteFails`, which drops the rest for the error line and exit status 1 (the error
line's own failure is ignored, as in `emit_error`), `Store` with every outcome of the
facade, `PrintReceipt`, `Exit`. A write is shown whole or not at all.

A text is a sequence of tokens: a secret (`key`), a private path (`home`), something
`detect_injection` knows (`inj`), a foreign line end, plain text. So are the names a
search passes over (`Names`), which `ListGaps` prints. Redaction replaces
tokens, so a secret or an injection is never cut in two: a shortening that splits one,
and the patterns themselves, are out of the model; no raw text holds a mask already.
Storing, executing, walking and looking up are reduced to their outcomes, because
`RunStore`, `Executor`, `Grep` and `Retrieval` are about how they come about; a search
is over one line.

### Grep

`tree` gives every node a shape, among them unreadable directories, entries without a
type, links, files too big; `Blocked` are the paths the policy denies. `stack` is the
recursion of `scan_directory_entries`; each way an entry can be passed over is an action
(`SkipUnread`, `SkipDenied`, `EntryLimit`, `SkipUnsupported`, and the branches of
`EnterDirectory` and `ScanFile`). Somebody may `Change` a node meanwhile. The check of a
file and its opening are one step, as are those of a directory: the comment at
`path_io.rs:310` leaves a hostile file system out of the guarantee. An entry
that cannot be read with its directory is a `lost` one; the iterator of the standard
library ends after such an error, where the model goes on with the entries that are left.
`Reached`, `Gap`, `Owed` are the reference: what a search of this tree owes, defined
without a walk.

## 3. What is checked

All times are for two workers.

| Run | Question | Result |
|---|---|---|
| `store_races` | two processes, two runs; commit, retrieve, delete, both purges; the clock; no faults | holds; 2.3 M states, about 60 s |
| `store_faults` | two processes, one run, every operation; one I/O error, a swallowed one too, and one kill anywhere; the refinement | holds; 2.4 M states, about 90 s |
| `store_full` | two processes commit three runs to a store with room for one, and purge it; every operation ends | holds; 244 k states, 38 s |
| `store_crash` | one process at a time, two kills anywhere | holds; 182 k states, 6 s |
| `exec_races` | every kind of command, deadline and two signals in any order; termination | holds; 82 k states, 4 s |
| `retrieval` | every stream up to three bytes and longer ones; one accident | holds; 134 k states, 21 s |
| `grep` | 865 trees, any order of entries, one change | holds; 455 k states, 13 s |
| `gate` | one cat, grep or run under every policy, 19 spellings, one failing read or write; then the commands that read the run back | holds; 594 k states, 82 s |
| `store_purge_leftover` | does `purge --all` erase everything? | **no** |
| `exec_held_pipe` | does `veil run` always end? | **no** |
| `exec_full_pipe` | does a prompt command complete? | **no** |
| `retrieval_split_marker` | does no range give away a part of a marker? | **no** |

**Properties of the store.** `ExclusiveRemoval`: of all that race to remove a record,
one erases it. `DeletedMeansErased`: an answered delete leaves no copy anywhere.
`TombstoneMeansGone`: a tombstone, even an unfinished one, never stands in front of a
record that has not expired, which is why the lookup may read it first; in front of an
expired one only where an I/O error kept a removal from seeing it, and then it does not
say "deleted". `NoLeftovers`: without faults no
interleaving leaves temporary names behind. `NoEarlyLoss`: a record disappears only
because its time has come, somebody asked, or its own commit takes it back.
`ServedOnlyWhileLive`: bytes are served only of a record that is there, was not expired
by the time that was read and has not been deleted; an answer over no line may come
after the removal, but not of a record that is there and had expired. `FailedReceiptUnretrievable`: with one I/O error and one kill, a
receipt "not stored" is true. `QuotaBound`: the check-then-publish without a lock
overshoots `max_records` by at most one for each other process. `LoneProcessesSucceed`:
what kills leave behind breaks no later operation, `purge --expired` excepted: half a
temporary tombstone makes it fail each time. `OperationsEnd`: nobody is kept in a loop by
the others. `KeepsLifecycle`: the store implements `RunLifecycle`.

**Properties of the gate.** `NothingSecretLeaves`: no secret or private path on stdout,
stderr, in the JSON file or in the store, whatever fails on the way. `PolicyHolds`: under
Block no answer, match, notice or error shows an injection, one that the first command
cut out and the store kept included; the lists of names and the statistics are printed
under Warn and are the exception (section 4). `BlockedLeavesNothing`: what was withheld
is not in the store either: each stream that is kept was shown, so a `run` of which one
stream was shown and the other blocked leaves neither. `KeptInFull`: the store holds all that was read, however little was shown,
unless `cat` blocked it.
`SuccessIsTold`: a process that ends as its handler means to has shown its answer, its
statistics with that status and the reason why a run is not stored, and shows no
injection without a warning. `StoredIsNamed`: a stored run has been named on stderr,
unless the process that stored it could not write. `AnswersFit`: retrieve and search
keep to `max_chars`, without shortening what has room and with the literal of a match
that has. `ReadIsItsSpelling`: a path that is read is what its spelling names, and what
is plainly spelled and permitted is read.

**Properties of retrieval.** `SearchSound` and `SearchComplete`: over all pages each
match once, in order, none missing, whatever cursor was given and whatever befell the
file. `RetrieveFaithful`: what is handed out is the lines asked for. `MarkerBlocked`: no
answer gives away a part of a marker that lies in one line or is split between two, the
markers an overlap of one line can reach; `SplitMarkerBlocked` claims it of every marker,
as the comment in the code does, and fails.

**Properties of the others** are stated, with what they are about, next to their
definitions at the end of each module.

**Bounds.** Two processes are enough for every race between two steps; that the overshoot
of the quota grows with their number and no faster is proved. Three runs against a quota
of one let two commits pass the check together and a third find the store full and sweep.
Two runs are enough for one to expire
while the other is committed. The clock runs to 2 with lifetimes of 1, so that both a
record and its tombstone expire. One fault and one kill reach each clean-up path; the
second kill of `store_crash` hits a process that is cleaning up after the first. The
executor's pipes hold two chunks and scripts write up to three to one stream, its
deadline is two slices. A page holds two matches and streams have up to three, the page
limit of five bytes and the index limit of four entries are both exceeded by some stream.
The grep limits (depth 1, 4 entries, 2 diagnostics) are each reached exactly by some tree
and exceeded by another. The gate's budgets run from 1 to 12 around an envelope of two
elements and a marker of one, with texts shorter and longer than each; one command is
followed by any number of others, one read or write of each failing; a second would hit
the error line, whose failure changes nothing. In `exec_*`, `retrieval` and `grep`
deadlock is not checked: a walk, a rejected commit or a veil that waits for a pipe for
ever really stops. It is checked in `gate` and in the runs of the store, where a process
can always be followed by another.

**Symmetry** is used for processes and run ids in runs of the store without liveness.

**Fairness.** `WF` of the steps of each process that has started: the operating system
schedules it. Nothing is assumed about starting one. In `Executor`, `WF` of veil and of
its child. In `Retrieval` a client that got a cursor uses it in the end (`SF`, because
it may try wrong ones in between), and a page's two seconds are not always used up
before one line was read (`SF(ScanLine \/ ScanFails)`); without that the code really does
hand out the same cursor for ever.

## 4. Where code and documents disagree

- `store_purge_leftover`: purge and sweep visit only entries named by a run id, so a body
  a killed process left under a dot name is never erased, not by `purge --all` either.
- `exec_held_pipe`: the pipes are read to their end without a deadline. A descendant that
  keeps one open makes veil wait long past `--timeout`.
- `exec_full_pipe`: nobody reads the pipes before the command has ended, so a command that
  writes more than they hold is blocked and killed as timed out. (`SmallOutputCompletes`
  is the part that holds.)
- `retrieval_split_marker`: the overlap inspected around a range is one line to each side
  (`storage.rs` 577-583), "so an injection marker split at the requested range boundary
  cannot bypass the retrieval policy" (574-576). `curl\s+.*?\|` (`injector.rs` 14-15)
  matches over any number of newlines: of `curl`, an empty line and `|` the last line is
  handed out when it is asked for alone. (`MarkerBlocked` is the part that holds.)

Seen while modelling and not a run:

- With *two* I/O errors, the second in the clean-up of the first (`storage.rs:384`), a
  run whose receipt says "not stored" can be retrieved (`FailedReceiptUnretrievable`
  fails with `MaxFaults = 2`).
- A process that loses the race to sweep an expired record gets NotFound and reports a
  storage error of its own (`storage.rs:858`).
- `grep` without a match exits with 0, where the contract says 1.
- `print_storage_receipt` says nothing of a stored run because the statistics have named
  it (`main.rs:753`); `run` stores before it writes them, so a run whose JSON file cannot
  be written is stored and named nowhere. `StoredIsNamed` makes that one exception.
- The warning about an injection is put in an envelope cut to `max_chars`: below the
  length of the envelope no word of it is left (the premise in `SuccessIsTold`).
- The statistics repeat the command line and a partial search lists the paths it passed
  over, both redacted and both printed under Warn even if the policy is Block
  (`main.rs` 1063-1073; 533-535 and 608-621): an injection in a command line or in the
  name of a link is shown (the exception of `PolicyHolds`).
- `expire_record` takes any error of `symlink_metadata` for the absence of the record
  (`storage.rs:491`) and writes its tombstone over it. The run is refused as expired,
  which it is, but its body stays on disk until a later sweep, delete or purge.
- A lookup that asks for no line of a stream (an empty stderr, a start past the end) is
  answered `active` without opening the file (`storage.rs` 1089-1091, 682), also when the
  run was deleted after its manifest had been read.
- A command that a signal killed has no exit code, and veil exits with 0
  (`main.rs:736`), where `doc/safety_gate_contract.md:17` has the command's exit code.
- Rules are matched against every component of the canonical path, those of the
  workspace root too: in a workspace below a directory with a blocked name everything is
  denied.
- With `--timeout 0` the first look at the deadline kills every command, prompt or not:
  hence the assumption of `SmallOutputIsPrompt`.

## 5. What is proved

TLAPS checks the theorems below from nothing, for any values of the constants that
satisfy the named assumptions of `RunStore`, `Executor`, `LineIndex`, `Retrieval`, `Gate`
and `Grep`, which TLC evaluates in every run: any finite set of processes, any run ids, sizes, limits and
lifetimes, any number of kills and, unless it is said, of I/O errors; any commands; any
requests, texts, policies and rules; any tree; any streams of bytes, markers, literals
and page limits, and any number of accidents to a file.

**`RunStoreProofs`.**

- `TypeCorrect`: `Spec => []TypeOK`. `TypeOK` is not inductive: after `Stage` and
  `Publish` the run a process works on becomes an index, and `TypeOK` allows it to be
  `NoRun`. The strengthening `TypeInv` adds `CommitOK`: a process at a step of a commit has
  a run. One lemma per group of steps; `GotoType`, `FinishType`, `AbortType` and
  `ReturnType` carry the ways a step can leave control.
- `QuotaBoundHolds`: the answer to "how far can concurrent commits exceed the quota". The
  bound is not inductive, for it says nothing of the processes that have passed the check
  and not yet published. `QuotaInv` counts them: the published records and the processes
  in flight are together at most `MaxRecords + |Procs| - 1`. Almost every step is *quiet*:
  it publishes nothing and puts nobody in flight, and `QuietKeeps` covers it.

**`RunStoreSafetyProofs`**: `ExclusiveRemovalHolds`, `TombstoneMeansGoneHolds`,
`NoEarlyLossHolds`, `ServedOnlyWhileLiveHolds`, from one inductive invariant, `Safe`. Its
heart is that a run is *published once*. `MayCome(r)` says that r may still be published;
`ComeInv` that such a run has left no trace: no record, no tombstone, nobody removing or
serving it. `GoneInv` is the other end: who is past the rename erases a run that is not
published any more, and with `ComeInv` it never will be again, so a tombstone never hides
a live record and two processes never erase the same one; the one way past the rename
without it is a removal for expiry that an I/O error has blinded, and then the record
has expired (`Overlooked`). `TimeInv` ties a process that is about to move a record aside,
or to serve it, to the time it read.

The same module goes on to what is answered and left behind:

- `FailedReceiptUnretrievableHolds`, **for at most one I/O error**. `BusyInv`: a commit
  under way has a run of its own and its receipt is still open. `TakenBackInv`: what is
  cleaned up is not published, and a commit takes a run back only after an error; the
  error is spent, so the rename that takes it back succeeds. With two errors the
  statement is false (section 4).
- `DeletedMeansErasedHolds`. `PlaceInv`: a record is in one place, a published one has no
  copy under a dot name. `ErasedOK` follows the removal of each delete up to its answer.
- `NoLeftoversHolds`. `OwnedInv`: without faults each temporary name has an owner that is
  still at work on it.
- `LoneProcessesSucceedHold`: however often one process is killed, what it leaves breaks
  no later operation but `purge --expired`, if there is no I/O error. `LoneInv`: what an
  operation has found (a record to move or to count, its own temporary tombstone) is
  still there when it comes to use it, since nobody else removes it, and the steps that
  only an error leads to are never reached.

**`RunStoreRefinementProofs`**: `KeepsLifecycleHolds`, `Spec => KeepsLifecycle`, **for at
most one I/O error** (a refused run that is published has no phase in `RunLifecycle`). The
invariant `Known` puts the ones above together and adds `PathInv` (where each operation
can be, and from where it entered a removal), `TellInv` (the receipts there are) and
`DropInv` (a tombstone is unlinked only of a run that is gone for good). The steps are
sorted by what they do to the table: those that move a record (publish, move aside, take
back), those that give a receipt, kills, openings, answers, and the rest, which leave
every phase as it is; `PhaseOf` is expanded in one place only.

**`ExecutorProofs`**: `TypeCorrect`, `OutputIsKept`, `VerdictIsTheReason`, `GroupIsGone`,
`StatusIsTheCommands` and `SmallOutputIsPrompt` (for every deadline but zero), all from
`ExecInv`: what the position of veil says of the child; what was drained from a pipe and
what is still in it is what was written; what code veil will report; and a slice can pass
over a command whose output fits the pipes only if it was starved in it.

**`RetrievalProofs`**: all the invariants of `Retrieval`: `RetrievalTypes`,
`CommittedIndexIsAccepted`, `SearchesAreSound`, `SearchesAreComplete`,
`RetrievesAreFaithful`, `SplitMarkersAreBlocked`. There are two halves.

The first has no state: what the index says is what counting newlines says. A line start
has a *rank*, the number of starts below it. Ranks of different starts differ, rise with
them, and every number below their count is one (`RankOnto`), so `Ascending` lists them
all in order. A start is 0 or follows a newline, hence the line of a byte, counted by
newlines, is the rank of the last start at or ahead of it (`LineOfRank`), and the bytes
of a range of lines are the interval between two offsets (`StoredSliceIsLines`).
`SliceVerified` is the lemma damage meets: a read through the index of a file that holds
anything at all fails, or, line by line, is what was committed.

The second is the invariant `RInv`, because none of the properties is inductive.
`PlaceInv`: a cursor names the line the next page begins with, a search that leaves none
has passed every line, and a page has not read more bytes than lie ahead of its line
(which is why a stream of at most `MAX_SCAN_BYTES` never has a line stepped over).
`SoundInv`: the pages so far and the open page are both reports (`Reports`) of lines the
search has passed, the open one behind the others. `CompleteInv`: a line that holds the
literal and has been passed is in one of them. `AnswerInv`: between the two reads of a
retrieve `selected` is already what was stored, and an answer's overlap held no marker;
a marker of one line or two that has a line in the range lies whole in the overlap
(`MarkerInContext`). `FollowCases`: only the cursor of this search is ever bound.
`RInv` was model-checked before it was proved.

**`BoundsProofs`**: `FitsBudget`, `EnvelopeFits` and `CutOnce`: for every text, budget,
marker and envelope, an answer is no longer than its budget, one that is cut fills it
exactly, and an answer shortened to `PayloadBudget` passes the envelope unchanged.
`MatchLineFits`: a match shown by `search` keeps to its length and to the literal.

**`GateProofs`**: all the invariants of `Gate`: `GateTypes`, `SecretsStay`,
`PolicyIsKept`, `BlockedIsNotKept`, `KeptWhole`, `SuccessTells`, `StoredTells`,
`AnswersHaveRoom`, `ReadsAreTheirSpelling`. All but the last have in common that they are
about the calls the handler has *still to make*, so none is inductive. `GateInv(W)` says what `todo` can be. A
handler that has read its input is in one of three stages, before it stores
(`KeepStage`), before it prints the receipt (`ReceiptStage`) or after that (`EndStage`),
and each is a script of writes around those calls. What has been shown and what the
script will show are one account: `Settled`, `Honest` and `Tells` say of both together
that the answer, the statistics and the reason are in it, and a `Write` moves an entry
from one side to the other. A failed write drops the rest, and what it drops is owed
only by a process that does not fail. `W` is the set of words a process may write. With
`Clean`, the words that are neither secret nor a private path, the invariant gives
`SecretsStay`; under Block it holds with the injections taken out of `Clean` too
(`Guarded`), the lists of names and statistics apart (`Within`), which is `PolicyIsKept`. The handlers enter by one lemma each: every list a
handler computes opens one of the stages (`Opens`).

`ReadsAreTheirSpelling` is about paths, for every file system. A path is walked name by
name by `Canonical`, and by `Lexical`, the reference that never asks the file system
(`Walk`, `CanonicalIs`, `LexicalIs`); what the first passes on its way are the prefixes
`ContainsLink` looks at (`Descended`). Where no prefix is a link and nothing is missing
the two walks agree step by step (`NoLinkIsLexical`), so a `..` cannot lead out of the
workspace unnoticed; and a path of nodes spelled without `..` is its own canonical form
(`PlainPath`), so nothing plainly spelled is refused. The inductive part, `ReadInv`, ties
that to the process: it reads only under such a verdict, and with such a verdict and no
fault its first calls are more than a refusal (`Speaks`). The walks are recursive
functions; that they satisfy their equations, and all statements about every prefix, are
proved by the least name at which they would fail (`Least`).

**`GrepProofs`**: all the invariants of `Grep`: `GrepTypes`, `ReportsAreClean`,
`CompleteIsAll`, `GapsAreNamed`, `PartialIsForCause`. None is inductive: they speak of
the end of the walk, or of a tree and a list that are built up entry by entry. `GrepInv`
has two parts. `Steady` holds however the tree changes: the open directories are a path
down from the target (`Chain`), a node is waited for (`Await`) if it, or something above
it, is left in one of them, and no line was reported of a node that is still waited for,
so none is reported twice. `Calm` holds as long as the tree was left alone: every node
that is reached and no longer waited for is `Settled`, which means named if it is a gap
and its matching lines reported if it is not, unless a limit is named; and the entries
read are as many as the nodes that are reached and no longer waited for, or there is a
`Cause` for being partial. The second is why a search that stops exactly at
`MAX_TRAVERSAL_ENTRIES` is complete and one that gives up an entry there has left out
something it would have reached (`TooMany`). Taking an entry out of the innermost
directory, opening one and closing one are proved to keep the path and to change `Await`
by what they should (`TakeAwait`, `PushAwait`, `PopChain`), once for all the actions.
`Above` is a recursive function; that it satisfies its equation is proved too
(`AboveParent`), from `TreeAssumption`, by giving a solution.

Only model-checked: liveness (`OperationsEnd`, `RunEndsUnlessHeld`, `SearchEnds`), which
is beyond the prover. Every invariant of a run that passes is proved.

## 6. Plan

Done: the run store with its abstract specification, the executor, retrieval, grep, the
gate with paths and bounds; the theorems above, about all of them.

1. The composition of `Gate` with `Executor` and `RunStore`, in place of the outcomes that
   stand for them now: what a user sees of a `run` whose store fails half-way.
2. The permission and ownership checks on the store's directories, and their changes
   between two steps.

**Not modelled.** `config.rs`, `cli.rs` and `stats.rs` read their input once and change
nothing (of `stats.rs`, that `report` falls back on it is in `Gate`). The regular
expressions of redactor and injector and the syntax of globs are data to these models:
whether a text matches, not how. The sanitised environment of a command is a constant of
the program. Scripts, lints and the prototype are not part of the program.
