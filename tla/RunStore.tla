------------------------------- MODULE RunStore -------------------------------
(***************************************************************************)
(* The run store of src/storage.rs: a directory tree that several `veil`   *)
(* processes use at once without any lock.                                 *)
(*                                                                         *)
(*   records/<run>         a published record (body, index, manifest)      *)
(*   records/.<kind>-<run> a record being staged, or moved aside to erase  *)
(*   tombstones/<run>.json what became of a removed record                 *)
(*   tombstones/.tmp-...   a tombstone being written                       *)
(*   last_run              the run `veil report` shows by default          *)
(*                                                                         *)
(* Every process opens the store (which sweeps expired records), performs  *)
(* one operation and exits.  An action is one file-system step, so the     *)
(* steps of two processes interleave as the kernel may interleave them.    *)
(* A process may be killed between any two steps (Crash) and any step may  *)
(* return an I/O error (IoFault).                                          *)
(***************************************************************************)
EXTENDS Naturals, FiniteSets, FiniteSetsExt

CONSTANTS
    Procs,          \* veil processes that may run at the same time
    RunIds,         \* the run ids (fresh UUIDs) the processes may draw
    Ops,            \* the operations the processes are asked to perform
    Sizes,          \* the sizes a run's stored streams may have
    TTL,            \* ttl_secs
    TombstoneTTL,   \* tombstone_ttl_secs
    MaxStreamBytes, \* max_stream_bytes
    MaxTotalBytes,  \* max_total_bytes
    MaxRecords,     \* max_records
    SweepLimit,     \* SWEEP_RECORD_LIMIT
    Final,          \* the writer name of a tombstone under its final name
    NoRun,          \* no run id
    MaxClock,       \* bound: the clock stops here
    MaxFaults,      \* bound: I/O errors in a behaviour
    MaxCrashes      \* bound: processes killed in a behaviour

Operations == {"commit", "retrieve", "report", "delete",
               "purge_all", "purge_expired", "status"}

ASSUME ProcsFinite == IsFiniteSet(Procs) /\ Procs # {} /\ Final \notin Procs
ASSUME RunIdsFinite == IsFiniteSet(RunIds) /\ NoRun \notin RunIds
ASSUME OpsKnown == Ops \subseteq Operations
ASSUME SizesNat == Sizes \subseteq Nat
ASSUME LimitsNat ==
    /\ TTL \in Nat \ {0} /\ TombstoneTTL \in Nat \ {0}
    /\ MaxStreamBytes \in Nat /\ MaxTotalBytes \in Nat
    /\ MaxRecords \in Nat /\ SweepLimit \in Nat
ASSUME BoundsNat == MaxClock \in Nat /\ MaxFaults \in Nat /\ MaxCrashes \in Nat

VARIABLES
    clock,     \* seconds, as Utc::now().timestamp() reads them
    records,   \* expires_at of the record under its run id, or Absent
    hidden,    \* <<kind, run>>: the dot-named directories in records/
    tomb,      \* the files of tombstones/, by run and writer
    lastRun,   \* the content of last_run
    size,      \* what each run's streams weigh
    pc,        \* the next step of each process
    loc,       \* the local variables of each process
    result,    \* what each process last answered
    receipt,   \* the storage receipt each run id got
    faults,    \* I/O errors so far
    crashes    \* processes killed so far

disk  == <<records, hidden, tomb, lastRun>>
world == <<clock, size, faults, crashes>>
vars  == <<clock, records, hidden, tomb, lastRun, size, pc, loc, result,
           receipt, faults, crashes>>

Absent    == 0
Published == {r \in RunIds : records[r] # Absent}
\* Faulty variants of Expired: a second early, a second late.
ExpiredEarly(r, now) == records[r] # Absent /\ now + 1 >= records[r]
ExpiredLate(r, now) == records[r] # Absent /\ now > records[r]

Expired(r, now) == records[r] # Absent /\ now >= records[r]

Kinds   == {"tmp", "failed", "expired", "deleted"}
Entries == RunIds \X (Procs \cup {Final})
NoFile  == [state |-> "none", expires |-> 0]
Partial == [state |-> "partial", expires |-> 0]
Files   == [state : {"none", "partial", "expired", "deleted"}, expires : Nat]

Labels == {"idle", "sweep", "usage", "usage_read", "stage", "write", "publish",
           "last_run", "sync_root", "unstage", "unpublish", "drop_failed",
           "lookup", "find_record", "read_manifest", "read_data", "drop_tomb",
           "expire", "rename", "remove_dir", "tomb_create", "tomb_write",
           "tomb_rename", "delete", "purge_list", "purge", "purge_files"}

\* active_empty: `status: active` over no line of the stream.
Answers == {"none", "stored", "quota_exceeded", "storage_error", "active",
            "active_empty", "expired", "deleted", "corrupt", "not_found", "already_gone",
            "removed", "purged", "status", "killed"}

Locals == [op      : Operations \cup {"none"},
           run     : RunIds \cup {NoRun},    \* the run the operation is about
           cur     : RunIds \cup {NoRun},    \* the run being expired or deleted
           now     : Nat,                    \* the time the code has read
           todo    : SUBSET RunIds,          \* a records/ listing still to visit
           files   : SUBSET Entries,         \* a tombstones/ listing to visit
           ret     : {"sweep", "lookup", "delete", "purge"}, \* caller of a removal
           retried : BOOLEAN]                \* commit has swept to make room

Fresh == [op |-> "none", run |-> NoRun, cur |-> NoRun, now |-> 0, todo |-> {},
          files |-> {}, ret |-> "sweep", retried |-> FALSE]

Init ==
    /\ clock = 0 /\ faults = 0 /\ crashes = 0
    /\ records = [r \in RunIds |-> Absent]
    /\ hidden = {}
    /\ tomb = [e \in Entries |-> NoFile]
    /\ lastRun = NoRun
    /\ size = [r \in RunIds |-> 0]
    /\ pc = [p \in Procs |-> "idle"]
    /\ loc = [p \in Procs |-> Fresh]
    /\ result = [p \in Procs |-> "none"]
    /\ receipt = [r \in RunIds |-> "unused"]

-------------------------------------------------------------------------------
(* Control: how a process moves on, answers, and returns from a removal.     *)

Goto(p, label) ==
    /\ pc' = [pc EXCEPT ![p] = label]
    /\ UNCHANGED <<result, receipt>>

\* The process answers and exits.  A commit's answer is its receipt.
Finish(p, answer) ==
    /\ pc' = [pc EXCEPT ![p] = "idle"]
    /\ loc' = [loc EXCEPT ![p] = [Fresh EXCEPT !.op = loc[p].op,
                                              !.run = loc[p].run]]
    /\ result' = [result EXCEPT ![p] = answer]
    /\ receipt' = IF loc[p].op = "commit"
                  THEN [receipt EXCEPT ![loc[p].run] = answer]
                  ELSE receipt

\* An error handed up by `?`: the operation is over.
Abort(p) == Finish(p, "storage_error")

\* An I/O error, which a commit reports as a quota where the disk is full; a
\* sweep that fails while the store is opened leaves no backend to ask.
Fail(p) == \/ Abort(p)
           \/ /\ loc[p].op = "commit" /\ (loc[p].ret # "sweep" \/ loc[p].retried)
              /\ Finish(p, "quota_exceeded")

\* Back to the loop or the handler that asked for a removal.
Return(p, answer) ==
    \/ /\ loc[p].ret \in {"sweep", "purge"}
       /\ Goto(p, loc[p].ret)
       /\ loc' = [loc EXCEPT ![p].todo = @ \ {loc[p].cur}, ![p].cur = NoRun]
    \/ /\ loc[p].ret \in {"lookup", "delete"}
       /\ Finish(p, answer)

Deleting(p) == \/ loc[p].ret = "delete"
               \/ loc[p].ret = "purge" /\ loc[p].op = "purge_all"

-------------------------------------------------------------------------------
(* Opening the store and sweeping it.                                        *)

\* What `take(max_records)` can leave of a directory listing: the entries come
\* in no particular order and the dot-named ones are counted before they are
\* skipped.
SweepListings ==
    LET leftovers == Cardinality(hidden)
        taken == Min({SweepLimit, Cardinality(Published) + leftovers})
    IN  {T \in SUBSET Published :
            /\ Cardinality(T) <= taken
            /\ Cardinality(T) + leftovers >= taken}

Targets(o) ==
    IF o = "commit" THEN {r \in RunIds : receipt[r] = "unused"}
    ELSE IF o \in {"retrieve", "delete"}
    THEN {r \in RunIds : receipt[r] # "unused"}
    ELSE {NoRun}

Open(p) ==
    /\ pc[p] = "idle"
    /\ \E o \in Ops : \E r \in Targets(o) : \E listing \in SweepListings :
          /\ loc' = [loc EXCEPT ![p] =
                        [Fresh EXCEPT !.op = o, !.run = r, !.now = clock,
                                      !.todo = listing]]
          /\ IF o = "commit"
             THEN /\ receipt' = [receipt EXCEPT ![r] = "pending"]
                  /\ \E s \in Sizes : size' = [size EXCEPT ![r] = s]
             ELSE UNCHANGED <<receipt, size>>
    /\ pc' = [pc EXCEPT ![p] = "sweep"]
    /\ result' = [result EXCEPT ![p] = "none"]
    /\ UNCHANGED <<disk, clock, faults, crashes>>

\* A listed record whose manifest cannot be read, or is not expired, is left.
SweepSkip(p) ==
    /\ pc[p] = "sweep"
    /\ \E r \in loc[p].todo :
          /\ ~Expired(r, loc[p].now)
          /\ loc' = [loc EXCEPT ![p].todo = @ \ {r}]
    /\ UNCHANGED <<disk, world, pc, result, receipt>>

SweepExpire(p) ==
    /\ pc[p] = "sweep"
    /\ \E r \in loc[p].todo :
          /\ Expired(r, loc[p].now)
          /\ loc' = [loc EXCEPT ![p].cur = r, ![p].ret = "sweep"]
    /\ Goto(p, "expire")
    /\ UNCHANGED <<disk, world>>

AfterSweep(o) ==
    CASE o \in {"commit", "status"}           -> "usage"
      [] o \in {"retrieve", "report"}         -> "lookup"
      [] o = "delete"                         -> "delete"
      [] OTHER                                -> "purge_list"

\* The listing is exhausted, or SWEEP_TIME_LIMIT has passed.
SweepDone(p) ==
    /\ pc[p] = "sweep"
    /\ Goto(p, AfterSweep(loc[p].op))
    /\ loc' = [loc EXCEPT ![p].todo = {}, ![p].cur = loc[p].run,
                          ![p].ret = IF loc[p].op = "delete" THEN "delete"
                                     ELSE "lookup"]
    /\ UNCHANGED <<disk, world>>

-------------------------------------------------------------------------------
(* expire_record, the rename-and-remove of delete, and write_tombstone.      *)

\* Faulty variant: the tombstone is written and the record forgotten.
ExpireFindForgets(p) ==
    /\ pc[p] = "expire"
    /\ Goto(p, "tomb_create")
    /\ UNCHANGED <<disk, world, loc>>

ExpireFind(p) ==
    /\ pc[p] = "expire"
    /\ Goto(p, IF loc[p].cur \in Published THEN "rename" ELSE "tomb_create")
    /\ UNCHANGED <<disk, world, loc>>

Aside(p) == <<IF Deleting(p) THEN "deleted" ELSE "expired", loc[p].cur>>

\* Faulty variant: a rename that finds nothing counts as done.
MoveAsideUnchecked(p) ==
    /\ pc[p] = "rename"
    /\ records' = [records EXCEPT ![loc[p].cur] = Absent]
    /\ hidden' = hidden \cup {Aside(p)}
    /\ Goto(p, "remove_dir")
    /\ UNCHANGED <<tomb, lastRun, world, loc>>

\* rename() to a dot name takes the record out of every reader's sight.
MoveAside(p) ==
    /\ pc[p] = "rename"
    /\ loc[p].cur \in Published
    /\ records' = [records EXCEPT ![loc[p].cur] = Absent]
    /\ hidden' = hidden \cup {Aside(p)}
    /\ Goto(p, "remove_dir")
    /\ UNCHANGED <<tomb, lastRun, world, loc>>

\* Another process moved the record first: the rename fails with NotFound.
MoveAsideLost(p) ==
    /\ pc[p] = "rename"
    /\ loc[p].cur \notin Published
    /\ Abort(p)
    /\ UNCHANGED <<disk, world>>

\* Faulty variant: the directory that was moved aside is not removed.
RemoveDirSkipped(p) ==
    /\ pc[p] = "remove_dir"
    /\ loc' = [loc EXCEPT ![p].now = IF Deleting(p) THEN clock ELSE @]
    /\ Goto(p, "tomb_create")
    /\ UNCHANGED <<disk, world>>

RemoveDir(p) ==
    /\ pc[p] = "remove_dir"
    /\ hidden' = hidden \ {Aside(p)}
    /\ loc' = [loc EXCEPT ![p].now = IF Deleting(p) THEN clock ELSE @]
    /\ Goto(p, "tomb_create")
    /\ UNCHANGED <<records, tomb, lastRun, world>>

TombCreate(p) ==
    /\ pc[p] = "tomb_create"
    /\ tomb' = [tomb EXCEPT ![<<loc[p].cur, p>>] = Partial]
    /\ Goto(p, "tomb_write")
    /\ UNCHANGED <<records, hidden, lastRun, world, loc>>

\* The bytes go to an open file: if its name was unlinked they are lost with it.
TombWrite(p) ==
    /\ pc[p] = "tomb_write"
    /\ tomb' = IF tomb[<<loc[p].cur, p>>] = NoFile THEN tomb
               ELSE [tomb EXCEPT ![<<loc[p].cur, p>>] =
                       [state |-> IF Deleting(p) THEN "deleted" ELSE "expired",
                        expires |-> loc[p].now + TombstoneTTL]]
    /\ Goto(p, "tomb_rename")
    /\ UNCHANGED <<records, hidden, lastRun, world, loc>>

TombRename(p) ==
    /\ pc[p] = "tomb_rename"
    /\ tomb[<<loc[p].cur, p>>] # NoFile
    /\ tomb' = [tomb EXCEPT ![<<loc[p].cur, p>>] = NoFile,
                            ![<<loc[p].cur, Final>>] = tomb[<<loc[p].cur, p>>]]
    /\ Return(p, IF Deleting(p) THEN "removed" ELSE "expired")
    /\ UNCHANGED <<records, hidden, lastRun, world>>

\* A purge of everything unlinked the temporary file: its rename fails.
TombRenameLost(p) ==
    /\ pc[p] = "tomb_rename"
    /\ tomb[<<loc[p].cur, p>>] = NoFile
    /\ Abort(p)
    /\ UNCHANGED <<disk, world>>

-------------------------------------------------------------------------------
(* usage(), which `commit` and `status` call.                                *)

TotalBytes(S) == MapThenSumSet(LAMBDA r : size[r], S)

\* Faulty variant: one record too many fits.
OverQuotaByOne(p) ==
    \/ Cardinality(loc[p].todo) > MaxRecords
    \/ TotalBytes(loc[p].todo) + size[loc[p].run] > MaxTotalBytes

OverQuota(p) ==
    \/ Cardinality(loc[p].todo) >= MaxRecords
    \/ TotalBytes(loc[p].todo) + size[loc[p].run] > MaxTotalBytes

StreamTooBig(p) ==
    /\ pc[p] = "usage" /\ loc[p].op = "commit"
    /\ size[loc[p].run] > MaxStreamBytes
    /\ Finish(p, "quota_exceeded")
    /\ UNCHANGED <<disk, world>>

\* Faulty variant: the dot-named entries are listed too.
UsageListHidden(p) ==
    /\ pc[p] = "usage"
    /\ loc[p].op = "commit" => size[loc[p].run] <= MaxStreamBytes
    /\ loc' = [loc EXCEPT ![p].todo = Published \cup hidden]
    /\ Goto(p, "usage_read")
    /\ UNCHANGED <<disk, world>>

UsageList(p) ==
    /\ pc[p] = "usage"
    /\ loc[p].op = "commit" => size[loc[p].run] <= MaxStreamBytes
    /\ loc' = [loc EXCEPT ![p].todo = Published]
    /\ Goto(p, "usage_read")
    /\ UNCHANGED <<disk, world>>

\* A listed record was moved aside before its manifest was read: `?` aborts.
UsageLost(p) ==
    /\ pc[p] = "usage_read"
    /\ ~(loc[p].todo \subseteq Published)
    /\ Abort(p)
    /\ UNCHANGED <<disk, world>>

\* Every listed manifest was read, before or after a record was moved aside.
UsageStatus(p) ==
    /\ pc[p] = "usage_read" /\ loc[p].op = "status"
    /\ Finish(p, "status")
    /\ UNCHANGED <<disk, world>>

UsageRoom(p) ==
    /\ pc[p] = "usage_read" /\ loc[p].op = "commit" /\ ~OverQuota(p)
    /\ loc' = [loc EXCEPT ![p].todo = {}]
    /\ Goto(p, "stage")
    /\ UNCHANGED <<disk, world>>

\* Faulty variant: commit keeps sweeping for as long as the store is full.
UsageSweepAgain(p) ==
    /\ pc[p] = "usage_read" /\ loc[p].op = "commit" /\ OverQuota(p)
    /\ ~loc[p].retried
    /\ \E listing \in SweepListings :
          loc' = [loc EXCEPT ![p].todo = listing, ![p].now = clock]
    /\ Goto(p, "sweep")
    /\ UNCHANGED <<disk, world>>

UsageSweep(p) ==
    /\ pc[p] = "usage_read" /\ loc[p].op = "commit" /\ OverQuota(p)
    /\ ~loc[p].retried
    /\ \E listing \in SweepListings :
          loc' = [loc EXCEPT ![p].todo = listing, ![p].now = clock,
                             ![p].retried = TRUE]
    /\ Goto(p, "sweep")
    /\ UNCHANGED <<disk, world>>

UsageFull(p) ==
    /\ pc[p] = "usage_read" /\ loc[p].op = "commit" /\ OverQuota(p)
    /\ loc[p].retried
    /\ Finish(p, "quota_exceeded")
    /\ UNCHANGED <<disk, world>>

-------------------------------------------------------------------------------
(* commit(), once there is room.                                             *)

\* The run id is fresh, so no record has its name (src: AlreadyExists).
Stage(p) ==
    /\ pc[p] = "stage"
    /\ records[loc[p].run] = Absent
    /\ hidden' = hidden \cup {<<"tmp", loc[p].run>>}
    /\ Goto(p, "write")
    /\ UNCHANGED <<records, tomb, lastRun, world, loc>>

\* stdout.data, stderr.data, the clock, manifest.json.
WriteFiles(p) ==
    /\ pc[p] = "write"
    /\ loc' = [loc EXCEPT ![p].now = clock]
    /\ Goto(p, "publish")
    /\ UNCHANGED <<disk, world>>

\* A stream of too many lines: the staging directory goes (stream_manifest).
IndexTooBig(p) ==
    /\ pc[p] = "write"
    /\ hidden' = hidden \ {<<"tmp", loc[p].run>>}
    /\ Finish(p, "quota_exceeded")
    /\ UNCHANGED <<records, tomb, lastRun, world>>

\* Faulty variant: the record is copied to its name, not renamed.
PublishByCopy(p) ==
    /\ pc[p] = "publish"
    /\ records[loc[p].run] = Absent
    /\ records' = [records EXCEPT ![loc[p].run] = loc[p].now + TTL]
    /\ Goto(p, "last_run")
    /\ UNCHANGED <<hidden, tomb, lastRun, world, loc>>

\* Faulty variant: the result of the publishing rename is not looked at.
PublishUnchecked(p) ==
    /\ pc[p] = "publish"
    /\ records[loc[p].run] = Absent
    /\ \/ records' = [records EXCEPT ![loc[p].run] = loc[p].now + TTL]
       \/ records' = records
    /\ hidden' = hidden \ {<<"tmp", loc[p].run>>}
    /\ Goto(p, "last_run")
    /\ UNCHANGED <<tomb, lastRun, world, loc>>

Publish(p) ==
    /\ pc[p] = "publish"
    /\ records[loc[p].run] = Absent
    /\ records' = [records EXCEPT ![loc[p].run] = loc[p].now + TTL]
    /\ hidden' = hidden \ {<<"tmp", loc[p].run>>}
    /\ Goto(p, "last_run")
    /\ UNCHANGED <<tomb, lastRun, world, loc>>

\* Sync records/, then replace last_run.
WriteLastRun(p) ==
    /\ pc[p] = "last_run"
    /\ lastRun' = loc[p].run
    /\ Goto(p, "sync_root")
    /\ UNCHANGED <<records, hidden, tomb, world, loc>>

SyncRoot(p) ==
    /\ pc[p] = "sync_root"
    /\ Finish(p, "stored")
    /\ UNCHANGED <<disk, world>>

\* The error path before publication: drop the staging directory.
Unstage(p) ==
    /\ pc[p] = "unstage"
    /\ hidden' = hidden \ {<<"tmp", loc[p].run>>}
    /\ Fail(p)
    /\ UNCHANGED <<records, tomb, lastRun, world>>

\* Faulty variant: a published record is left when its receipt fails.
UnpublishNever(p) ==
    /\ pc[p] = "unpublish"
    /\ loc[p].run \in Published
    /\ Fail(p)
    /\ UNCHANGED <<disk, world>>

\* The error path after publication: take the record back.
Unpublish(p) ==
    /\ pc[p] = "unpublish"
    /\ loc[p].run \in Published
    /\ records' = [records EXCEPT ![loc[p].run] = Absent]
    /\ hidden' = hidden \cup {<<"failed", loc[p].run>>}
    /\ Goto(p, "drop_failed")
    /\ UNCHANGED <<tomb, lastRun, world, loc>>

UnpublishGone(p) ==
    /\ pc[p] = "unpublish"
    /\ loc[p].run \notin Published
    /\ Fail(p)
    /\ UNCHANGED <<disk, world>>

DropFailed(p) ==
    /\ pc[p] = "drop_failed"
    /\ hidden' = hidden \ {<<"failed", loc[p].run>>}
    /\ Fail(p)
    /\ UNCHANGED <<records, tomb, lastRun, world>>

-------------------------------------------------------------------------------
(* lookup_manifest() and its callers: retrieve, search and report.           *)

\* `veil report` without a run id takes the one last_run names.
LookupRun(p) == IF loc[p].op = "report" THEN lastRun ELSE loc[p].run

ReportNothing(p) ==
    /\ pc[p] = "lookup" /\ LookupRun(p) = NoRun
    /\ Finish(p, "not_found")
    /\ UNCHANGED <<disk, world>>

ReadTombstone(p) ==
    /\ pc[p] = "lookup" /\ LookupRun(p) # NoRun
    /\ LET r == LookupRun(p)
           f == tomb[<<r, Final>>]
       IN  \/ /\ f.state \in {"expired", "deleted"} /\ f.expires > clock
              /\ Finish(p, f.state)
           \/ /\ f.state = "none" \/ f.expires <= clock
              /\ loc' = [loc EXCEPT ![p].run = r, ![p].cur = r,
                                    ![p].now = clock]
              /\ Goto(p, IF f.state = "none" THEN "find_record"
                         ELSE "drop_tomb")
    /\ UNCHANGED <<disk, world>>

\* An expired tombstone is unlinked by name, whatever the name holds by now.
DropTombstone(p) ==
    /\ pc[p] = "drop_tomb"
    /\ tomb' = [tomb EXCEPT ![<<loc[p].cur, Final>>] = NoFile]
    /\ \/ loc[p].ret = "lookup" /\ Goto(p, "find_record") /\ UNCHANGED loc
       \/ loc[p].ret # "lookup" /\ Return(p, "not_found")
    /\ UNCHANGED <<records, hidden, lastRun, world>>

FindRecord(p) ==
    /\ pc[p] = "find_record"
    /\ \/ loc[p].run \in Published /\ Goto(p, "read_manifest") /\ UNCHANGED loc
       \/ loc[p].run \notin Published /\ Finish(p, "not_found")
    /\ UNCHANGED <<disk, world>>

ReadManifest(p) ==
    /\ pc[p] = "read_manifest"
    /\ LET r == loc[p].run
       IN  \/ r \notin Published /\ Finish(p, "corrupt")
           \/ Expired(r, loc[p].now) /\ Goto(p, "expire") /\ UNCHANGED loc
           \/ /\ r \in Published /\ ~Expired(r, loc[p].now)
              /\ IF loc[p].op = "report" THEN Finish(p, "active")
                 ELSE Goto(p, "read_data") /\ UNCHANGED loc
    /\ UNCHANGED <<disk, world>>

\* The data file is opened by its path under the run id.
ReadData(p) ==
    /\ pc[p] = "read_data"
    /\ Finish(p, IF loc[p].run \in Published THEN "active"
                 ELSE "storage_error")
    /\ UNCHANGED <<disk, world>>

\* An empty stream, a start past its end or a search that is out of time at once:
\* no line is asked for and no file is opened, whatever became of the record.
ReadNothing(p) ==
    /\ pc[p] = "read_data"
    /\ Finish(p, "active_empty")
    /\ UNCHANGED <<disk, world>>

-------------------------------------------------------------------------------
(* delete() and purge().                                                     *)

DeleteFind(p) ==
    /\ pc[p] = "delete"
    /\ loc[p].cur \in Published
    /\ Goto(p, "rename")
    /\ UNCHANGED <<disk, world, loc>>

DeleteGone(p) ==
    /\ pc[p] = "delete"
    /\ loc[p].cur \notin Published
    /\ LET f == tomb[<<loc[p].cur, Final>>]
       IN  \/ f.state = "none" /\ Return(p, "not_found")
           \/ f.state # "none" /\ f.expires > clock /\ Return(p, "already_gone")
           \/ /\ f.state # "none" /\ f.expires <= clock
              /\ Goto(p, "drop_tomb") /\ UNCHANGED loc
    /\ UNCHANGED <<disk, world>>

PurgeList(p) ==
    /\ pc[p] = "purge_list"
    /\ loc' = [loc EXCEPT ![p].now = clock, ![p].todo = Published,
                          ![p].ret = "purge"]
    /\ Goto(p, "purge")
    /\ UNCHANGED <<disk, world>>

PurgeRecord(p) ==
    /\ pc[p] = "purge"
    /\ \E r \in loc[p].todo :
          \/ /\ loc[p].op = "purge_all"
             /\ loc' = [loc EXCEPT ![p].cur = r] /\ Goto(p, "delete")
          \/ /\ loc[p].op = "purge_expired" /\ Expired(r, loc[p].now)
             /\ loc' = [loc EXCEPT ![p].cur = r] /\ Goto(p, "expire")
          \/ /\ loc[p].op = "purge_expired" /\ ~Expired(r, loc[p].now)
             /\ loc' = [loc EXCEPT ![p].todo = @ \ {r}] /\ Goto(p, "purge")
    /\ UNCHANGED <<disk, world>>

PurgeListFiles(p) ==
    /\ pc[p] = "purge" /\ loc[p].todo = {}
    /\ loc' = [loc EXCEPT ![p].files = {e \in Entries : tomb[e] # NoFile}]
    /\ Goto(p, "purge_files")
    /\ UNCHANGED <<disk, world>>

Purgeable(p, e) ==
    \/ loc[p].op = "purge_all"
    \/ tomb[e].state \in {"expired", "deleted"} /\ tomb[e].expires <= loc[p].now

\* A file of the listing goes, or stays; one that is gone already is passed
\* over.
PurgeFile(p) ==
    /\ pc[p] = "purge_files"
    /\ \E e \in loc[p].files :
          /\ loc[p].op = "purge_all" \/ tomb[e] # Partial
          /\ tomb' = IF Purgeable(p, e) THEN [tomb EXCEPT ![e] = NoFile]
                     ELSE tomb
          /\ loc' = [loc EXCEPT ![p].files = @ \ {e}]
    /\ UNCHANGED <<records, hidden, lastRun, world, pc, result, receipt>>

\* Faulty variant: `purge --all` parses the files too.
PurgeUnreadableAlways(p) ==
    /\ pc[p] = "purge_files"
    /\ \E e \in loc[p].files : tomb[e] = Partial
    /\ Abort(p)
    /\ UNCHANGED <<disk, world>>

\* `purge --expired` parses every file: half of a tombstone is an error.
PurgeUnreadable(p) ==
    /\ pc[p] = "purge_files" /\ loc[p].op = "purge_expired"
    /\ \E e \in loc[p].files : tomb[e] = Partial
    /\ Abort(p)
    /\ UNCHANGED <<disk, world>>

PurgeDone(p) ==
    /\ pc[p] = "purge_files" /\ loc[p].files = {}
    /\ Finish(p, "purged")
    /\ UNCHANGED <<disk, world>>

-------------------------------------------------------------------------------
(* The environment: time, I/O errors and kills.                              *)

Tick ==
    /\ clock < MaxClock
    /\ clock' = clock + 1
    /\ UNCHANGED <<disk, size, pc, loc, result, receipt, faults, crashes>>

\* Steps whose error `?` hands straight up.
AbortingSteps ==
    {"usage", "usage_read", "stage", "lookup", "find_record", "read_data",
     "drop_tomb", "rename", "remove_dir", "tomb_create", "delete",
     "purge_list", "purge_files"}

\* The step that process p is about to take fails instead.  A manifest that
\* cannot be read makes a sweep pass over the record, and a lookup answer
\* corrupt.  A record that cannot be looked at counts as gone when it is to be
\* expired: its tombstone is written over it; only a directory that was seen and
\* then cannot be examined is an error.
IoFault(p) ==
    /\ faults < MaxFaults
    /\ faults' = faults + 1
    /\ \/ pc[p] \in AbortingSteps /\ Fail(p) /\ UNCHANGED tomb
       \/ /\ pc[p] = "expire" /\ UNCHANGED tomb
          /\ \/ Goto(p, "tomb_create") /\ UNCHANGED loc
             \/ loc[p].cur \in Published /\ Fail(p)
       \/ /\ pc[p] \in {"sweep", "purge"} /\ loc[p].op # "purge_all"
          /\ \E r \in loc[p].todo : loc' = [loc EXCEPT ![p].todo = @ \ {r}]
          /\ UNCHANGED <<tomb, pc, result, receipt>>
       \/ /\ pc[p] \in {"tomb_write", "tomb_rename"}
          /\ Fail(p)
          /\ tomb' = [tomb EXCEPT ![<<loc[p].cur, p>>] = NoFile]
       \/ /\ pc[p] = "read_manifest"
          /\ Finish(p, "corrupt") /\ UNCHANGED tomb
       \/ /\ pc[p] \in {"write", "publish"}
          /\ Goto(p, "unstage") /\ UNCHANGED <<tomb, loc>>
       \/ /\ pc[p] \in {"last_run", "sync_root"}
          /\ Goto(p, "unpublish") /\ UNCHANGED <<tomb, loc>>
       \/ /\ pc[p] \in {"unstage", "unpublish", "drop_failed"}
          /\ Fail(p) /\ UNCHANGED tomb
    /\ UNCHANGED <<clock, records, hidden, lastRun, size, crashes>>

\* The process is killed: no receipt, and the disk stays as it is.
Crash(p) ==
    /\ pc[p] # "idle"
    /\ crashes < MaxCrashes
    /\ crashes' = crashes + 1
    /\ pc' = [pc EXCEPT ![p] = "idle"]
    /\ loc' = [loc EXCEPT ![p] = Fresh]
    /\ result' = [result EXCEPT ![p] = "killed"]
    /\ UNCHANGED <<disk, clock, size, receipt, faults>>

-------------------------------------------------------------------------------
SweepStep(p)  == SweepSkip(p) \/ SweepExpire(p) \/ SweepDone(p)
RemoveStep(p) == \/ ExpireFind(p) \/ MoveAside(p) \/ MoveAsideLost(p)
                 \/ RemoveDir(p) \/ TombCreate(p) \/ TombWrite(p)
                 \/ TombRename(p) \/ TombRenameLost(p)
UsageStep(p)  == \/ StreamTooBig(p) \/ UsageList(p) \/ UsageLost(p)
                 \/ UsageStatus(p) \/ UsageRoom(p) \/ UsageSweep(p)
                 \/ UsageFull(p)
CommitStep(p) == \/ Stage(p) \/ WriteFiles(p) \/ Publish(p) \/ WriteLastRun(p)
                 \/ SyncRoot(p) \/ Unstage(p) \/ Unpublish(p)
                 \/ UnpublishGone(p) \/ DropFailed(p) \/ IndexTooBig(p)
LookupStep(p) == \/ ReportNothing(p) \/ ReadTombstone(p) \/ DropTombstone(p)
                 \/ FindRecord(p) \/ ReadManifest(p) \/ ReadData(p)
                 \/ ReadNothing(p)
PurgeStep(p)  == \/ DeleteFind(p) \/ DeleteGone(p) \/ PurgeList(p)
                 \/ PurgeRecord(p) \/ PurgeListFiles(p) \/ PurgeFile(p)
                 \/ PurgeUnreadable(p) \/ PurgeDone(p)

\* A step of a process that is running.
Step(p) == \/ SweepStep(p) \/ RemoveStep(p) \/ UsageStep(p)
           \/ CommitStep(p) \/ LookupStep(p) \/ PurgeStep(p)

Next == \/ Tick
        \/ \E p \in Procs : Open(p) \/ Step(p) \/ IoFault(p) \/ Crash(p)

Spec == Init /\ [][Next]_vars

\* The operating system keeps scheduling a process that has started.
FairSpec == Spec /\ \A p \in Procs : WF_vars(Step(p))

-------------------------------------------------------------------------------
(* Properties.                                                               *)

TypeOK ==
    /\ clock \in Nat /\ faults \in Nat /\ crashes \in Nat
    /\ records \in [RunIds -> Nat]
    /\ hidden \subseteq Kinds \X RunIds
    /\ tomb \in [Entries -> Files]
    /\ lastRun \in RunIds \cup {NoRun}
    /\ size \in [RunIds -> Nat]
    /\ pc \in [Procs -> Labels]
    /\ loc \in [Procs -> Locals]
    /\ result \in [Procs -> Answers]
    /\ receipt \in [RunIds -> Answers \cup {"unused", "pending"}]

\* Commits check the quota and publish later, without a lock: each of the other
\* processes can slip one record past max_records, and no more than one.
QuotaBound ==
    Cardinality(Published) <= MaxRecords + Cardinality(Procs) - 1

\* A receipt that says the run was not stored leaves no body to retrieve
\* (storage.rs: "a failed receipt cannot leave a retrievable body behind").
FailedReceiptUnretrievable ==
    \A r \in RunIds : receipt[r] \in {"storage_error", "quota_exceeded"}
                         => records[r] = Absent

\* The record has expired, and an I/O error has kept a removal from seeing it.
Overlooked(r) == faults > 0 /\ clock >= records[r]

\* A lookup reads the tombstone before the record: a tombstone, or the file that
\* is about to become one, never hides a record that is still live.  It stands
\* before a published record only where that record has expired and an I/O error
\* was taken for its absence, and it never says "deleted" then.
TombstoneMeansGone ==
    \A e \in Entries :
        tomb[e] # NoFile /\ records[e[1]] # Absent
            => Overlooked(e[1]) /\ tomb[e].state # "deleted"

\* Deletes, sweeps and expiring lookups race for a record; the rename picks one
\* winner, and only the winner erases the body.
ExclusiveRemoval ==
    \A p, q \in Procs :
        /\ p # q
        /\ pc[p] = "remove_dir" /\ pc[q] = "remove_dir"
        => loc[p].cur # loc[q].cur

\* `status: deleted` from a delete means no copy of the body is left on disk,
\* staged, published or moved aside.
DeletedMeansErased ==
    \A p \in Procs :
        /\ pc[p] = "idle" /\ loc[p].op = "delete" /\ result[p] = "removed"
        => /\ records[loc[p].run] = Absent
           /\ \A k \in Kinds : <<k, loc[p].run>> \notin hidden

\* Without I/O errors and kills, whatever the interleaving, processes that have
\* all finished leave no dot-named directory and no temporary tombstone.
NoLeftovers ==
    faults = 0 /\ crashes = 0 /\ (\A p \in Procs : pc[p] = "idle")
        => hidden = {} /\ \A e \in Entries : tomb[e] # NoFile => e[2] = Final

\* What a kill leaves behind never breaks a later process that runs alone, with
\* one exception: half of a tombstone stops `purge --expired` for good.
LoneProcessesSucceed ==
    Cardinality(Procs) = 1 /\ faults = 0
        => \A p \in Procs : result[p] = "storage_error"
                              => loc[p].op = "purge_expired"

\* `veil store purge --all` removes every stored body (cli.rs: "all records").
PurgeAllErases ==
    \A p \in Procs :
        pc[p] = "idle" /\ loc[p].op = "purge_all" /\ result[p] = "purged"
            => Published = {} /\ hidden = {}

Removing(p, r) == loc[p].cur = r /\ pc[p] = "rename" /\ Deleting(p)

\* A published record goes only because it has expired, because somebody asked
\* for it to be deleted, or because its own commit takes it back.
NoEarlyLoss ==
    [][\A r \in RunIds :
        records[r] # Absent /\ records'[r] = Absent
            => \/ clock >= records[r]
               \/ \E p \in Procs : Removing(p, r)
               \/ \E p \in Procs : pc[p] = "unpublish" /\ loc[p].run = r]_vars

\* A lookup serves bytes of a record that is on disk, had not expired when the
\* lookup read the clock, and has not been deleted.  An answer over no line opens
\* no file: the record may be gone, but if it is there it had not expired either.
ServedOnlyWhileLive ==
    [][\A p \in Procs :
        LET r == loc[p].run
        IN  /\ result[p] # "active" /\ result'[p] = "active"
                 => /\ records[r] # Absent /\ loc[p].now < records[r]
                    /\ tomb[<<r, Final>>].state # "deleted"
            /\ result[p] # "active_empty" /\ result'[p] = "active_empty"
                 => records[r] = Absent \/ loc[p].now < records[r]]_vars

\* Every operation that has started ends, whatever the others do.
OperationsEnd == \A p \in Procs : pc[p] # "idle" ~> pc[p] = "idle"
===============================================================================
