------------------------- MODULE RunStoreSafetyProofs -------------------------
(***************************************************************************)
(* Proofs about RunStore for every number of processes, runs, I/O errors   *)
(* and kills: one process erases a record, a tombstone never stands before *)
(* a live one, none is lost before its time, none is served after it; what *)
(* receipts and deletes answer is true; processes that have finished leave *)
(* nothing behind, and what a killed one leaves hinders nobody.            *)
(***************************************************************************)
EXTENDS RunStoreProofs

(* What each process knows by itself.                                        *)

LocalOK(p) ==
    /\ loc[p].now <= clock
    /\ pc[p] \in {"find_record", "read_manifest"} => loc[p].cur = loc[p].run
    /\ pc[p] = "drop_tomb" /\ loc[p].ret = "lookup" => loc[p].cur = loc[p].run
    /\ pc[p] = "delete" => Deleting(p)
    /\ pc[p] = "purge" => loc[p].ret = "purge"
    /\ pc[p] = "lookup" => loc[p].op # "commit"
    /\ pc[p] \in {"lookup", "find_record", "read_manifest", "expire"}
         => ~Deleting(p)
    /\ pc[p] \in {"read_manifest", "read_data"} => loc[p].run \in RunIds

LocalInv == \A p \in Procs : LocalOK(p)

(* What the processes keep of each other's runs.                             *)

\* The steps of a removal, and those of them that follow the rename.
Removal == {"expire", "rename", "remove_dir", "tomb_create", "tomb_write",
            "tomb_rename"}
Erasing == {"remove_dir", "tomb_create", "tomb_write", "tomb_rename"}

\* A commit that may still publish its run, and a run that may be published.
Past == {"idle", "last_run", "sync_root", "unpublish", "unstage", "drop_failed"}
Coming(p) == loc[p].op = "commit" /\ pc[p] \notin Past
MayCome(r) ==
    receipt[r] = "unused" \/ \E p \in Procs : Coming(p) /\ loc[p].run = r

\* A process that is removing the record of a run, or about to serve it.
Holds(p, r) ==
    \/ pc[p] \in Removal /\ loc[p].cur = r
    \/ pc[p] = "read_data" /\ loc[p].run = r

\* Every commit has a run of its own.
DrawnInv ==
    \A p \in Procs : Coming(p) =>
        /\ receipt[loc[p].run] # "unused"
        /\ \A q \in Procs : q # p /\ Coming(q) => loc[q].run # loc[p].run

\* A run that may be published has left no trace yet: it is published once.
ComeInv ==
    \A r \in RunIds : MayCome(r) =>
        /\ r \notin Published
        /\ \A w \in Procs \cup {Final} : tomb[<<r, w>>] = NoFile
        /\ \A p \in Procs : ~Holds(p, r)

\* A record that is being erased is gone, unless an error hid it from whoever
\* was to expire it.
GoneOK(p) ==
    pc[p] \in Erasing /\ loc[p].cur \in Published
        => pc[p] # "remove_dir" /\ ~Deleting(p) /\ Overlooked(loc[p].cur)

GoneInv == \A p \in Procs : GoneOK(p)

\* Whoever is about to move a record aside does it in time, and whoever is about
\* to serve one too.
TimeOK(p) ==
    /\ pc[p] \in {"expire", "rename"} /\ loc[p].cur \in Published
         => Deleting(p) \/ clock >= records[loc[p].cur]
    /\ pc[p] = "read_data" /\ loc[p].run \in Published
         => loc[p].now < records[loc[p].run]

TimeInv == \A p \in Procs : TimeOK(p)

SafeInv == /\ DrawnInv /\ ComeInv /\ GoneInv /\ TimeInv
           /\ TombstoneMeansGone /\ ExclusiveRemoval

-------------------------------------------------------------------------------
(* The process's own part.                                                   *)

\* A step of p leaves every other process alone, and the clock.
Alone(p) ==
    /\ \A q \in Procs \ {p} : pc'[q] = pc[q] /\ loc'[q] = loc[q]
    /\ clock' = clock

\* What another process knows by itself stays true.
LEMMA LocalKeeps ==
  ASSUME LocalInv, NEW p \in Procs, Alone(p), LocalOK(p)'
  PROVE  LocalInv'
<1>1. ASSUME NEW q \in Procs \ {p}
      PROVE  LocalOK(q)'
  BY DEF Alone, LocalInv, LocalOK, Deleting
<1> QED
  BY <1>1 DEF LocalInv

\* An answer ends what a process knows.
LEMMA FinishLocal ==
  ASSUME TypeInv, NEW p \in Procs, NEW a, Finish(p, a)
  PROVE  /\ pc'[p] = "idle" /\ loc'[p].now = 0
         /\ loc'[p].op = loc[p].op /\ loc'[p].run = loc[p].run
         /\ \A q \in Procs \ {p} : pc'[q] = pc[q] /\ loc'[q] = loc[q]
BY DEF Finish, Fresh, TypeInv, ControlOK

\* A removal that goes back to a loop forgets the run it was about.
LEMMA ReturnLocal ==
  ASSUME TypeInv, NEW p \in Procs, NEW a, Return(p, a)
  PROVE  \/ Finish(p, a)
         \/ /\ pc'[p] = loc[p].ret /\ loc[p].ret \in {"sweep", "purge"}
            /\ loc'[p].now = loc[p].now /\ loc'[p].ret = loc[p].ret
            /\ loc'[p].op = loc[p].op /\ loc'[p].run = loc[p].run
            /\ UNCHANGED <<result, receipt>>
            /\ \A q \in Procs \ {p} : pc'[q] = pc[q] /\ loc'[q] = loc[q]
<1>1. CASE /\ loc[p].ret \in {"sweep", "purge"} /\ Goto(p, loc[p].ret)
           /\ loc' = [loc EXCEPT ![p].todo = @ \ {loc[p].cur},
                                 ![p].cur = NoRun]
  BY <1>1, LocalsType DEF Goto, TypeInv, ControlOK, Locals
<1>2. CASE Finish(p, a)
  BY <1>2
<1> QED
  BY <1>1, <1>2 DEF Return

\* So does a move that leaves the local variables.
LEMMA JumpLocal ==
  ASSUME TypeInv, NEW p \in Procs, NEW l, Goto(p, l), UNCHANGED loc
  PROVE  /\ pc'[p] = l /\ loc'[p] = loc[p]
         /\ \A q \in Procs \ {p} : pc'[q] = pc[q] /\ loc'[q] = loc[q]
  BY DEF Goto, TypeInv, ControlOK

\* Nothing is known of a process that has answered.
LEMMA FinishLocalOK ==
  ASSUME TypeInv, NEW p \in Procs, NEW a, Finish(p, a), clock' = clock
  PROVE  Alone(p) /\ LocalOK(p)'
<1>1. clock \in Nat
  BY DEF TypeInv, WorldOK
<1> QED
  BY <1>1, FinishLocal DEF Alone, LocalOK

\* And a removal returns to a loop that knows what it is.
LEMMA ReturnLocalOK ==
  ASSUME TypeInv, LocalInv, NEW p \in Procs, NEW a, Return(p, a),
         clock' = clock
  PROVE  Alone(p) /\ LocalOK(p)'
<1>1. loc[p].now <= clock
  BY DEF LocalInv, LocalOK
<1> QED
  BY <1>1, ReturnLocal, FinishLocalOK DEF Alone, LocalOK

\* Sweeping, removing and usage().
LEMMA SweepLocal ==
  ASSUME TypeInv, LocalInv, NEW p \in Procs,
         SweepStep(p) \/ RemoveStep(p) \/ UsageStep(p)
  PROVE  Alone(p) /\ LocalOK(p)'
<1>1. /\ clock' = clock /\ clock \in Nat /\ LocalOK(p)
      /\ loc \in [Procs -> Locals] /\ pc \in [Procs -> Labels]
  BY DEF SweepStep, SweepSkip, SweepExpire, SweepDone, RemoveStep, ExpireFind,
         MoveAside, MoveAsideLost, RemoveDir, TombCreate, TombWrite,
         TombRename, TombRenameLost, UsageStep, StreamTooBig, UsageList,
         UsageLost, UsageStatus, UsageRoom, UsageSweep, UsageFull, world,
         LocalInv, TypeInv, WorldOK, ControlOK
<1>2. CASE SweepSkip(p)
  BY <1>1, <1>2 DEF SweepSkip, Locals, Alone, LocalOK, Deleting
<1>3. CASE SweepExpire(p)
  BY <1>1, <1>3 DEF SweepExpire, Goto, Locals, Alone, LocalOK, Deleting
<1>4. CASE SweepDone(p)
  <2>1. /\ loc'[p].now = loc[p].now /\ loc'[p].ret \in {"delete", "lookup"}
        /\ loc[p].op = "delete" => loc'[p].ret = "delete"
        /\ \A q \in Procs \ {p} : pc'[q] = pc[q] /\ loc'[q] = loc[q]
        /\ pc'[p] = AfterSweep(loc[p].op)
    BY <1>1, <1>4 DEF SweepDone, Goto, Locals
  <2>2. /\ AfterSweep(loc[p].op) \in {"usage", "lookup", "delete", "purge_list"}
        /\ AfterSweep(loc[p].op) = "delete" => loc[p].op = "delete"
        /\ AfterSweep(loc[p].op) = "lookup" => loc[p].op \notin {"commit", "delete"}
    BY DEF AfterSweep
  <2>4. loc[p].op # "delete" => loc'[p].ret = "lookup"
    BY <1>1, <1>4 DEF SweepDone, Locals
  <2>3. loc'[p].op = loc[p].op
    BY <1>1, <1>4 DEF SweepDone, Locals
  <2> QED
    BY <1>1, <2>1, <2>2, <2>3, <2>4 DEF Alone, LocalOK, Deleting
<1>5. CASE ExpireFind(p) \/ MoveAside(p) \/ TombCreate(p) \/ TombWrite(p)
  <2>1. UNCHANGED loc /\ \E l \in {"rename", "tomb_create", "remove_dir",
                                   "tomb_write", "tomb_rename"} : Goto(p, l)
    BY <1>5 DEF ExpireFind, MoveAside, TombCreate, TombWrite
  <2> QED
    BY <1>1, <2>1, JumpLocal DEF Alone, LocalOK
<1>6. CASE MoveAsideLost(p) \/ TombRenameLost(p)
  BY <1>1, <1>6, FinishLocalOK DEF MoveAsideLost, TombRenameLost, Abort
<1>7. CASE RemoveDir(p)
  BY <1>1, <1>7 DEF RemoveDir, Goto, Locals, Alone, LocalOK
<1>8. CASE TombRename(p)
  BY <1>1, <1>8, ReturnLocalOK DEF TombRename
<1>9. CASE StreamTooBig(p) \/ UsageLost(p) \/ UsageStatus(p) \/ UsageFull(p)
  BY <1>1, <1>9, FinishLocalOK
  DEF StreamTooBig, UsageLost, UsageStatus, UsageFull, Abort
<1>10. CASE UsageList(p) \/ UsageRoom(p)
  BY <1>1, <1>10 DEF UsageList, UsageRoom, Goto, Locals, Alone, LocalOK
<1>11. CASE UsageSweep(p)
  BY <1>1, <1>11 DEF UsageSweep, Goto, Locals, Alone, LocalOK
<1> QED
  BY <1>2, <1>3, <1>4, <1>5, <1>6, <1>7, <1>8, <1>9, <1>10, <1>11
  DEF SweepStep, RemoveStep, UsageStep

\* Committing and looking up.
LEMMA LookupLocal ==
  ASSUME TypeInv, LocalInv, NEW p \in Procs, CommitStep(p) \/ LookupStep(p)
  PROVE  Alone(p) /\ LocalOK(p)'
<1>1. /\ clock' = clock /\ clock \in Nat /\ LocalOK(p)
      /\ loc \in [Procs -> Locals] /\ pc \in [Procs -> Labels]
  BY DEF CommitStep, Stage, WriteFiles, Publish, WriteLastRun, SyncRoot,
         Unstage, Unpublish, UnpublishGone, DropFailed, IndexTooBig, LookupStep,
         ReportNothing, ReadTombstone, DropTombstone, FindRecord,
         ReadManifest, ReadData, ReadNothing, world, LocalInv, TypeInv, WorldOK, ControlOK
<1>2. CASE Stage(p) \/ Publish(p) \/ WriteLastRun(p) \/ Unpublish(p)
  <2>1. UNCHANGED loc /\ \E l \in {"write", "last_run", "sync_root",
                                   "drop_failed"} : Goto(p, l)
    BY <1>2 DEF Stage, Publish, WriteLastRun, Unpublish
  <2> QED
    BY <1>1, <2>1, JumpLocal DEF Alone, LocalOK
<1>3. CASE WriteFiles(p)
  BY <1>1, <1>3 DEF WriteFiles, Goto, Locals, Alone, LocalOK
<1>4. CASE SyncRoot(p) \/ Unstage(p) \/ UnpublishGone(p) \/ DropFailed(p)
           \/ IndexTooBig(p)
  BY <1>1, <1>4, FinishLocalOK
  DEF SyncRoot, Unstage, UnpublishGone, DropFailed, IndexTooBig, Fail, Abort
<1>5. CASE ReportNothing(p) \/ ReadData(p) \/ ReadNothing(p)
  BY <1>1, <1>5, FinishLocalOK, SMTT(30) DEF ReportNothing, ReadData, ReadNothing
<1>6. CASE ReadTombstone(p)
  <2>1. CASE \E a : Finish(p, a)
    BY <1>1, <2>1, FinishLocalOK
  <2>2. CASE /\ \E l \in {"find_record", "drop_tomb"} : Goto(p, l)
             /\ \E r : loc' = [loc EXCEPT ![p].run = r, ![p].cur = r,
                                          ![p].now = clock]
    <3>1. pc[p] = "lookup" /\ pc'[p] \in {"find_record", "drop_tomb"}
      BY <1>1, <1>6, <2>2 DEF ReadTombstone, Goto
    <3>2. /\ loc'[p].cur = loc'[p].run /\ loc'[p].now = clock
          /\ loc'[p].ret = loc[p].ret /\ loc'[p].op = loc[p].op
      BY <1>1, <2>2 DEF Locals
    <3>3. \A q \in Procs \ {p} : pc'[q] = pc[q] /\ loc'[q] = loc[q]
      BY <1>1, <2>2 DEF Goto
    <3> QED
      BY <1>1, <3>1, <3>2, <3>3 DEF Alone, LocalOK, Deleting
  <2> QED
    BY <1>6, <2>1, <2>2 DEF ReadTombstone
<1>7. CASE DropTombstone(p)
  <2>1. CASE \E a : Return(p, a)
    BY <1>1, <2>1, ReturnLocalOK
  <2>2. CASE /\ pc[p] = "drop_tomb" /\ loc[p].ret = "lookup"
             /\ Goto(p, "find_record") /\ UNCHANGED loc
    BY <1>1, <2>2, JumpLocal DEF Alone, LocalOK, Deleting
  <2> QED
    BY <1>7, <2>1, <2>2 DEF DropTombstone
<1>8. CASE FindRecord(p) \/ ReadManifest(p)
  <2>1. \/ \E a : Finish(p, a)
        \/ /\ UNCHANGED loc /\ pc[p] \in {"find_record", "read_manifest"}
           /\ \E l \in {"read_manifest", "expire", "read_data"} :
                 /\ Goto(p, l)
                 /\ l = "read_manifest" => loc[p].run \in RunIds
                 /\ l = "read_data" => pc[p] = "read_manifest"
    BY <1>8 DEF FindRecord, ReadManifest, Published
  <2> QED
    BY <1>1, <2>1, FinishLocalOK, JumpLocal DEF Alone, LocalOK, Deleting
<1> QED
  BY <1>2, <1>3, <1>4, <1>5, <1>6, <1>7, <1>8 DEF CommitStep, LookupStep

\* Deleting and purging, opening, failing and being killed.
LEMMA PurgeLocal ==
  ASSUME TypeInv, LocalInv, NEW p \in Procs,
         PurgeStep(p) \/ Open(p) \/ IoFault(p) \/ Crash(p)
  PROVE  Alone(p) /\ LocalOK(p)'
<1>1. /\ clock' = clock /\ clock \in Nat /\ LocalOK(p)
      /\ loc \in [Procs -> Locals] /\ pc \in [Procs -> Labels]
  BY DEF PurgeStep, DeleteFind, DeleteGone, PurgeList, PurgeRecord,
         PurgeListFiles, PurgeFile, PurgeUnreadable, PurgeDone, Open, IoFault,
         Crash, world, LocalInv, TypeInv, WorldOK, ControlOK
<1>2. CASE DeleteFind(p)
  BY <1>1, <1>2, JumpLocal DEF DeleteFind, Alone, LocalOK
<1>3. CASE DeleteGone(p)
  <2>1. CASE \E a : Return(p, a)
    BY <1>1, <2>1, ReturnLocalOK
  <2>2. CASE pc[p] = "delete" /\ Goto(p, "drop_tomb") /\ UNCHANGED loc
    BY <1>1, <2>2, JumpLocal DEF Alone, LocalOK, Deleting
  <2> QED
    BY <1>3, <2>1, <2>2 DEF DeleteGone
<1>4. CASE PurgeList(p) \/ PurgeListFiles(p)
  BY <1>1, <1>4
  DEF PurgeList, PurgeListFiles, Goto, Locals, Alone, LocalOK
<1>5. CASE PurgeRecord(p)
  <2>1. /\ \A q \in Procs \ {p} : pc'[q] = pc[q] /\ loc'[q] = loc[q]
        /\ loc'[p].now = loc[p].now /\ loc'[p].ret = loc[p].ret
        /\ loc'[p].op = loc[p].op /\ loc[p].ret = "purge"
        /\ \/ pc'[p] = "delete" /\ loc[p].op = "purge_all"
           \/ pc'[p] \in {"expire", "purge"} /\ loc[p].op = "purge_expired"
    BY <1>1, <1>5 DEF PurgeRecord, Goto, Locals, LocalOK
  <2> QED
    BY <1>1, <2>1 DEF Alone, LocalOK, Deleting
<1>6. CASE PurgeFile(p)
  BY <1>1, <1>6 DEF PurgeFile, Locals, Alone, LocalOK
<1>7. CASE PurgeUnreadable(p) \/ PurgeDone(p)
  BY <1>1, <1>7, FinishLocalOK DEF PurgeUnreadable, PurgeDone, Abort
<1>8. CASE Open(p)
  <2>1. pc' = [pc EXCEPT ![p] = "sweep"]
    BY <1>8 DEF Open
  <2>2. /\ loc'[p].now = clock
        /\ \A q \in Procs \ {p} : loc'[q] = loc[q]
    BY <1>1, <1>8 DEF Open, Fresh
  <2> QED
    BY <1>1, <2>1, <2>2 DEF Alone, LocalOK
<1>9. CASE Crash(p)
  BY <1>1, <1>9 DEF Crash, Fresh, Alone, LocalOK
<1>10. CASE IoFault(p)
  <2>1. CASE \E a : Finish(p, a)
    BY <1>1, <2>1, FinishLocalOK
  <2>2. CASE /\ UNCHANGED loc
             /\ \/ Goto(p, "unstage") \/ Goto(p, "unpublish")
                \/ Goto(p, "tomb_create")
    BY <1>1, <2>2, JumpLocal DEF Alone, LocalOK
  <2>3. CASE /\ pc[p] \in {"sweep", "purge"}
             /\ \E r \in loc[p].todo : loc' = [loc EXCEPT ![p].todo = @ \ {r}]
             /\ UNCHANGED pc
    BY <1>1, <2>3 DEF Locals, Alone, LocalOK
  <2> QED
    BY <1>10, <2>1, <2>2, <2>3 DEF IoFault, Fail, Abort
<1> QED
  BY <1>2, <1>3, <1>4, <1>5, <1>6, <1>7, <1>8, <1>9, <1>10 DEF PurgeStep

\* A step of a process is its own, and leaves it what it knows.
LEMMA StepLocal ==
  ASSUME TypeInv, LocalInv, NEW p \in Procs,
         Open(p) \/ Step(p) \/ IoFault(p) \/ Crash(p)
  PROVE  Alone(p) /\ LocalOK(p)'
  BY SweepLocal, LookupLocal, PurgeLocal DEF Step

\* And nobody else's step takes it away.
LEMMA LocalNext == TypeInv /\ LocalInv /\ [Next]_vars => LocalInv'
<1> SUFFICES ASSUME TypeInv, LocalInv, [Next]_vars PROVE LocalInv'
  OBVIOUS
<1>1. CASE Tick
  <2>1. /\ clock \in Nat /\ clock' = clock + 1
        /\ UNCHANGED <<pc, loc>> /\ \A p \in Procs : loc[p].now \in Nat
    BY <1>1, LocalsType DEF Tick, TypeInv, WorldOK
  <2> QED
    BY <2>1 DEF LocalInv, LocalOK, Deleting
<1>2. ASSUME NEW p \in Procs, Open(p) \/ Step(p) \/ IoFault(p) \/ Crash(p)
      PROVE  LocalInv'
  BY <1>2, StepLocal, LocalKeeps
<1>3. CASE UNCHANGED vars
  BY <1>3 DEF vars, LocalInv, LocalOK, Deleting
<1> QED
  BY <1>1, <1>2, <1>3 DEF Next

-------------------------------------------------------------------------------
(* What steps do to the shared part.                                         *)

\* No step but the opening of a commit makes a run one that may come.
Moves(p) ==
    /\ Alone(p)
    /\ Coming(p)' => Coming(p) /\ loc'[p].run = loc[p].run
    /\ \A r \in RunIds : receipt'[r] = "unused" => receipt[r] = "unused"

Deleted(file) == file.state = "deleted"

\* Records are only taken away, and tombstones come after them.
Tidy ==
    /\ \A r \in RunIds : records'[r] = records[r] \/ records'[r] = Absent
    /\ \A r \in RunIds, w \in Procs \cup {Final} :
          tomb'[<<r, w>>] # NoFile =>
             \/ \E v \in Procs \cup {Final} :
                   /\ tomb[<<r, v>>] # NoFile
                   /\ Deleted(tomb'[<<r, w>>]) => Deleted(tomb[<<r, v>>])
             \/ \E q \in Procs :
                   /\ pc[q] \in Erasing /\ loc[q].cur = r
                   /\ Deleted(tomb'[<<r, w>>]) => Deleting(q)

\* Whom p begins to remove or to serve was published until now.
Enters(p) ==
    /\ \A r \in RunIds : Holds(p, r)' => Holds(p, r) \/ r \in Published
    /\ GoneOK(p)'
    /\ pc'[p] = "remove_dir" => loc'[p].cur \in Published
    /\ TimeOK(p)'

Rests(p) == pc'[p] \notin Removal \cup {"read_data"}

\* A process that comes to no such step begins nothing.
LEMMA RestEnters ==
  ASSUME NEW p \in Procs, Rests(p)
  PROVE  Enters(p)
  BY DEF Rests, Enters, Holds, Removal, Erasing, TimeOK, GoneOK

\* A step with these effects keeps the shared part.
LEMMA SoundKeeps ==
  ASSUME TypeInv, SafeInv, NEW p \in Procs, Alone(p), Enters(p), Tidy,
         DrawnInv', faults > 0 => faults' > 0,
         \A r \in RunIds : MayCome(r)' => MayCome(r)
  PROVE  SafeInv'
<1>1. Published' \subseteq Published
  BY DEF Tidy, Published
<1>2. \A q \in Procs \ {p} : pc'[q] = pc[q] /\ loc'[q] = loc[q]
  BY DEF Alone
<1>3. ComeInv'
  <2> SUFFICES ASSUME NEW r \in RunIds, MayCome(r)'
               PROVE  /\ r \notin Published'
                      /\ \A w \in Procs \cup {Final} : tomb'[<<r, w>>] = NoFile
                      /\ \A q \in Procs : ~Holds(q, r)'
    BY DEF ComeInv
  <2>1. /\ r \notin Published
        /\ \A w \in Procs \cup {Final} : tomb[<<r, w>>] = NoFile
        /\ \A q \in Procs : ~Holds(q, r)
    BY DEF SafeInv, ComeInv
  <2>2. r \notin Published'
    BY <1>1, <2>1
  <2>3. \A w \in Procs \cup {Final} : tomb'[<<r, w>>] = NoFile
    BY <2>1 DEF Tidy, Holds, Removal, Erasing
  <2>4. ASSUME NEW q \in Procs
        PROVE  ~Holds(q, r)'
    BY <1>2, <2>1 DEF Enters, Holds
  <2> QED
    BY <2>2, <2>3, <2>4
<1>8. \A r \in RunIds : r \in Published' /\ Overlooked(r) => Overlooked(r)'
  BY DEF Tidy, Published, Overlooked, Alone
<1>4. GoneInv'
  <2>1. ASSUME NEW q \in Procs \ {p}
        PROVE  GoneOK(q)'
    <3>1. GoneOK(q)
      BY DEF SafeInv, GoneInv
    <3> QED
      BY <1>1, <1>2, <1>8, <3>1 DEF GoneOK, Deleting, Published
  <2> QED
    BY <2>1 DEF Enters, GoneInv
<1>5. TimeInv'
  <2>1. ASSUME NEW q \in Procs \ {p}
        PROVE  TimeOK(q)'
    <3>1. TimeOK(q)
      BY DEF SafeInv, TimeInv
    <3>2. \A r \in RunIds : r \in Published' => r \in Published
                                               /\ records'[r] = records[r]
      BY DEF Tidy, Published
    <3>3. \A r \in Published' : r \in RunIds
      BY DEF Published
    <3> QED
      BY <1>2, <3>1, <3>2, <3>3 DEF Alone, TimeOK, Deleting
  <2> QED
    BY <2>1 DEF Enters, TimeInv
<1>6. TombstoneMeansGone'
  <2> SUFFICES ASSUME NEW r \in RunIds, NEW w \in Procs \cup {Final},
                      tomb'[<<r, w>>] # NoFile, records'[r] # Absent
               PROVE  Overlooked(r)' /\ ~Deleted(tomb'[<<r, w>>])
    BY DEF TombstoneMeansGone, Entries, Deleted
  <2>1. records'[r] = records[r] /\ r \in Published /\ r \in Published'
    BY DEF Tidy, Published
  <2>2. Overlooked(r) /\ ~Deleted(tomb'[<<r, w>>])
    <3>1. CASE \E v \in Procs \cup {Final} :
                  /\ tomb[<<r, v>>] # NoFile
                  /\ Deleted(tomb'[<<r, w>>]) => Deleted(tomb[<<r, v>>])
      <4>1. PICK v \in Procs \cup {Final} :
                  /\ tomb[<<r, v>>] # NoFile
                  /\ Deleted(tomb'[<<r, w>>]) => Deleted(tomb[<<r, v>>])
        BY <3>1
      <4>2. <<r, v>> \in Entries /\ <<r, v>>[1] = r
        BY DEF Entries
      <4> QED
        BY <2>1, <4>1, <4>2 DEF SafeInv, TombstoneMeansGone, Deleted
    <3>2. CASE \E q \in Procs : /\ pc[q] \in Erasing /\ loc[q].cur = r
                                /\ Deleted(tomb'[<<r, w>>]) => Deleting(q)
      BY <2>1, <3>2 DEF SafeInv, GoneInv, GoneOK
    <3> QED
      BY <3>1, <3>2 DEF Tidy
  <2> QED
    BY <1>8, <2>1, <2>2
<1>7. ExclusiveRemoval'
  BY <1>2
  DEF Enters, SafeInv, GoneInv, GoneOK, ExclusiveRemoval, Erasing
<1> QED
  BY <1>3, <1>4, <1>5, <1>6, <1>7 DEF SafeInv

\* And one that moves in order keeps every commit its own run.
LEMMA MovesKeep ==
  ASSUME TypeInv, SafeInv, NEW p \in Procs, Moves(p), Enters(p), Tidy,
         faults > 0 => faults' > 0
  PROVE  SafeInv'
<1>1. \A q \in Procs : Coming(q)' => Coming(q) /\ loc'[q].run = loc[q].run
  BY DEF Moves, Alone, Coming
<1>2. \A q \in Procs : Coming(q) => loc[q].run \in RunIds
  BY DEF TypeInv, CommitOK, Coming
<1>3. DrawnInv'
  BY <1>1, <1>2 DEF Moves, SafeInv, DrawnInv
<1>4. \A r \in RunIds : MayCome(r)' => MayCome(r)
  BY <1>1 DEF Moves, MayCome
<1> QED
  BY <1>3, <1>4, SoundKeeps DEF Moves

\* An answer moves in order.
LEMMA FinishMoves ==
  ASSUME TypeInv, NEW p \in Procs, NEW a \in Answers, Finish(p, a), Alone(p)
  PROVE  Moves(p) /\ Enters(p)
<1>1. pc'[p] = "idle"
  BY FinishLocal
<1>2. \A r \in RunIds : receipt'[r] = "unused" => receipt[r] = "unused"
  BY DEF Finish, TypeInv, ControlOK, Answers
<1>3. Rests(p)
  BY <1>1 DEF Rests, Removal
<1> QED
  BY <1>1, <1>2, <1>3, RestEnters DEF Moves, Coming, Past

\* Back to a loop.
LEMMA ReturnMoves ==
  ASSUME TypeInv, NEW p \in Procs, NEW a \in Answers, Return(p, a), Alone(p),
         pc[p] \notin Past
  PROVE  Moves(p) /\ Enters(p)
<1>1. CASE Finish(p, a)
  BY <1>1, FinishMoves
<1>2. CASE /\ pc'[p] \in {"sweep", "purge"} /\ UNCHANGED receipt
           /\ loc'[p].op = loc[p].op /\ loc'[p].run = loc[p].run
  <2>1. Rests(p)
    BY <1>2 DEF Rests, Removal
  <2> QED
    BY <1>2, <2>1, RestEnters DEF Moves, Coming
<1> QED
  BY <1>1, <1>2, ReturnLocal

\* To a step of the same operation.
LEMMA GotoMoves ==
  ASSUME TypeInv, NEW p \in Procs, NEW l, Goto(p, l), Alone(p),
         loc'[p].op = loc[p].op, loc'[p].run = loc[p].run,
         l \in Past \/ pc[p] \notin Past
  PROVE  Moves(p) /\ pc'[p] = l
<1>1. pc'[p] = l /\ UNCHANGED receipt
  BY DEF Goto, TypeInv, ControlOK
<1> QED
  BY <1>1 DEF Moves, Coming

\* A step that leaves records and tombstones.
LEMMA SameTidy ==
  ASSUME UNCHANGED <<records, tomb>>
  PROVE  Tidy
  BY DEF Tidy

\* A step that takes tombstones away.
LEMMA EraseTidy ==
  ASSUME TypeInv, UNCHANGED records, NEW e,
         tomb' = [tomb EXCEPT ![e] = NoFile]
  PROVE  Tidy
<1>1. \A r \in RunIds, w \in Procs \cup {Final} :
         tomb'[<<r, w>>] # NoFile
           => tomb[<<r, w>>] # NoFile /\ tomb'[<<r, w>>] = tomb[<<r, w>>]
  BY DEF TypeInv, DiskOK, Entries
<1> QED
  BY <1>1 DEF Tidy

-------------------------------------------------------------------------------
(* The steps one by one.                                                     *)

\* Sweeping.
LEMMA SweepSound ==
  ASSUME TypeInv, LocalInv, SafeInv, NEW p \in Procs, SweepStep(p), Alone(p)
  PROVE  Moves(p) /\ Enters(p) /\ Tidy
<1>1. /\ loc \in [Procs -> Locals] /\ pc \in [Procs -> Labels]
      /\ UNCHANGED <<records, tomb>>
  BY DEF SweepStep, SweepSkip, SweepExpire, SweepDone, disk, TypeInv, ControlOK
<1>2. loc'[p].op = loc[p].op /\ loc'[p].run = loc[p].run
  <2>1. CASE SweepSkip(p)
    BY <1>1, <2>1 DEF SweepSkip, Locals
  <2>2. CASE SweepExpire(p)
    BY <1>1, <2>2 DEF SweepExpire, Locals
  <2>3. CASE SweepDone(p)
    BY <1>1, <2>3 DEF SweepDone, Locals
  <2> QED
    BY <2>1, <2>2, <2>3 DEF SweepStep
<1>3. CASE SweepSkip(p)
  <2>1. pc' = pc /\ receipt' = receipt /\ pc[p] = "sweep"
    BY <1>3 DEF SweepSkip
  <2>2. Rests(p)
    BY <2>1 DEF Rests, Removal
  <2> QED
    BY <1>1, <1>2, <2>1, <2>2, RestEnters, SameTidy DEF Moves, Coming
<1>4. CASE SweepExpire(p)
  <2>1. PICK r \in loc[p].todo :
           /\ Expired(r, loc[p].now)
           /\ loc' = [loc EXCEPT ![p].cur = r, ![p].ret = "sweep"]
    BY <1>4 DEF SweepExpire
  <2>2. r \in RunIds /\ loc'[p].cur = r
    BY <1>1, <2>1, LocalsType DEF TypeInv, Locals
  <2>3. Moves(p) /\ pc'[p] = "expire"
    BY <1>2, <1>4, GotoMoves DEF SweepExpire, Past
  <2>4. r \in Published /\ clock' >= records'[r]
    <3>1. /\ loc[p].now <= clock /\ loc[p].now \in Nat /\ clock \in Nat
          /\ clock' = clock /\ records[r] \in Nat
      BY <2>2, LocalsType
      DEF LocalInv, LocalOK, TypeInv, WorldOK, DiskOK, Alone
    <3> QED
      BY <1>1, <2>1, <2>2, <3>1 DEF Expired, Published
  <2>5. Enters(p)
    BY <2>2, <2>3, <2>4
    DEF Enters, Holds, TimeOK, Removal, Erasing, GoneOK
  <2> QED
    BY <1>1, <2>3, <2>5, SameTidy
<1>5. CASE SweepDone(p)
  <2>1. AfterSweep(loc[p].op) \in {"usage", "lookup", "delete", "purge_list"}
    BY DEF AfterSweep
  <2>2. Moves(p) /\ pc'[p] = AfterSweep(loc[p].op)
    BY <1>2, <1>5, GotoMoves DEF SweepDone, Past
  <2>3. Rests(p)
    BY <2>1, <2>2 DEF Rests, Removal
  <2> QED
    BY <1>1, <2>2, <2>3, RestEnters, SameTidy
<1> QED
  BY <1>3, <1>4, <1>5 DEF SweepStep

\* Removals.
LEMMA RemoveSound ==
  ASSUME TypeInv, LocalInv, SafeInv, NEW p \in Procs, RemoveStep(p), Alone(p)
  PROVE  Moves(p) /\ Enters(p) /\ Tidy
<1>1. /\ loc \in [Procs -> Locals] /\ pc \in [Procs -> Labels]
      /\ tomb \in [Entries -> Files] /\ records \in [RunIds -> Nat]
  BY DEF TypeInv, ControlOK, DiskOK
<1>2. pc[p] \in Removal /\ pc[p] \notin Past
  BY DEF RemoveStep, ExpireFind, MoveAside, MoveAsideLost, RemoveDir,
         TombCreate, TombWrite, TombRename, TombRenameLost, Removal, Past
<1>3. GoneOK(p)
  BY DEF SafeInv, GoneInv
<1>4. CASE ExpireFind(p)
  <2>1. /\ UNCHANGED <<records, tomb, loc>> /\ pc[p] = "expire"
        /\ Goto(p, IF loc[p].cur \in Published THEN "rename"
                   ELSE "tomb_create")
    BY <1>4 DEF ExpireFind, disk
  <2>2. /\ Moves(p)
        /\ pc'[p] = IF loc[p].cur \in Published THEN "rename"
                    ELSE "tomb_create"
    BY <1>2, <2>1, GotoMoves
  <2>3. Published' = Published
    BY <2>1 DEF Published
  <2>4. TimeOK(p)'
    BY <2>1, <2>2, <2>3 DEF SafeInv, TimeInv, TimeOK, Alone, Deleting
  <2>5. Enters(p)
    BY <2>1, <2>2, <2>3, <2>4 DEF Enters, Holds, Removal, Erasing, GoneOK
  <2> QED
    BY <2>1, <2>2, <2>5, SameTidy
<1>5. CASE MoveAside(p)
  <2>1. /\ records' = [records EXCEPT ![loc[p].cur] = Absent]
        /\ loc[p].cur \in Published /\ UNCHANGED <<tomb, loc>>
        /\ pc[p] = "rename" /\ Goto(p, "remove_dir")
    BY <1>5 DEF MoveAside
  <2>2. Moves(p) /\ pc'[p] = "remove_dir"
    BY <1>2, <2>1, GotoMoves
  <2>3. loc[p].cur \notin Published'
    BY <1>1, <2>1 DEF Published
  <2>4. Enters(p)
    BY <2>1, <2>2, <2>3 DEF Enters, Holds, TimeOK, Removal, GoneOK
  <2>5. Tidy
    BY <1>1, <2>1 DEF Tidy
  <2> QED
    BY <2>2, <2>4, <2>5
<1>6. CASE MoveAsideLost(p) \/ TombRenameLost(p)
  BY <1>6, FinishMoves, SameTidy
  DEF MoveAsideLost, TombRenameLost, Abort, disk, Answers
<1>7. CASE RemoveDir(p)
  <2>1. /\ UNCHANGED <<records, tomb>> /\ pc[p] = "remove_dir"
        /\ Goto(p, "tomb_create")
        /\ loc'[p].op = loc[p].op /\ loc'[p].run = loc[p].run
        /\ loc'[p].cur = loc[p].cur
    BY <1>1, <1>7 DEF RemoveDir, Locals
  <2>2. Moves(p) /\ pc'[p] = "tomb_create"
    BY <1>2, <2>1, GotoMoves
  <2>3. Published' = Published
    BY <2>1 DEF Published
  <2>4. Enters(p)
    BY <1>3, <2>1, <2>2, <2>3
    DEF Enters, Holds, TimeOK, Removal, Erasing, GoneOK
  <2> QED
    BY <2>1, <2>2, <2>4, SameTidy
<1>8. CASE TombCreate(p) \/ TombWrite(p)
  <2>1. /\ UNCHANGED <<records, loc, faults>> /\ pc[p] \in {"tomb_create", "tomb_write"}
        /\ Goto(p, "tomb_write") \/ Goto(p, "tomb_rename")
        /\ \/ tomb' = tomb
           \/ \E f : /\ tomb' = [tomb EXCEPT ![<<loc[p].cur, p>>] = f]
                     /\ Deleted(f) => Deleting(p)
    <3>1. ~Deleted(Partial)
      BY DEF Deleted, Partial
    <3>2. ASSUME ~Deleting(p), NEW n
          PROVE  ~Deleted([state |-> IF Deleting(p) THEN "deleted" ELSE "expired",
                           expires |-> n])
      BY <3>2 DEF Deleted
    <3> QED
      BY <1>8, <3>1, <3>2 DEF TombCreate, TombWrite, world
  <2>2. Moves(p) /\ pc'[p] \in {"tomb_write", "tomb_rename"}
    BY <1>2, <2>1, GotoMoves
  <2>3. Published' = Published
    BY <2>1 DEF Published
  <2>4. Enters(p)
    <3>1. GoneOK(p)'
      BY <1>3, <2>1, <2>2, <2>3
      DEF GoneOK, Erasing, Overlooked, Alone, Deleting
    <3> QED
      BY <2>1, <2>2, <2>3, <3>1 DEF Enters, Holds, TimeOK, Removal, Erasing
  <2>5. ASSUME NEW r \in RunIds, NEW w \in Procs \cup {Final},
               tomb'[<<r, w>>] # NoFile
        PROVE  \/ \E v \in Procs \cup {Final} :
                     /\ tomb[<<r, v>>] # NoFile
                     /\ Deleted(tomb'[<<r, w>>]) => Deleted(tomb[<<r, v>>])
               \/ \E q \in Procs :
                     /\ pc[q] \in Erasing /\ loc[q].cur = r
                     /\ Deleted(tomb'[<<r, w>>]) => Deleting(q)
    <3>1. <<r, w>> \in Entries
      BY DEF Entries
    <3>2. \/ tomb'[<<r, w>>] = tomb[<<r, w>>]
          \/ /\ <<r, w>> = <<loc[p].cur, p>>
             /\ Deleted(tomb'[<<r, w>>]) => Deleting(p)
      BY <1>1, <2>1, <3>1
    <3> QED
      BY <2>1, <2>5, <3>2 DEF Erasing
  <2> QED
    BY <2>1, <2>2, <2>4, <2>5 DEF Tidy
<1>9. CASE TombRename(p)
  <2>1. /\ tomb[<<loc[p].cur, p>>] # NoFile /\ UNCHANGED records
        /\ tomb' = [tomb EXCEPT ![<<loc[p].cur, p>>] = NoFile,
                                ![<<loc[p].cur, Final>>]
                                    = tomb[<<loc[p].cur, p>>]]
        /\ Return(p, IF Deleting(p) THEN "removed" ELSE "expired")
    BY <1>9 DEF TombRename
  <2>2. Moves(p) /\ Enters(p)
    BY <1>2, <2>1, ReturnMoves DEF Answers
  <2>3. ASSUME NEW r \in RunIds, NEW w \in Procs \cup {Final},
               tomb'[<<r, w>>] # NoFile
        PROVE  \E v \in Procs \cup {Final} :
                  /\ tomb[<<r, v>>] # NoFile
                  /\ Deleted(tomb'[<<r, w>>]) => Deleted(tomb[<<r, v>>])
    <3>1. <<r, w>> \in Entries
      BY DEF Entries
    <3>2. \/ /\ <<r, w>> = <<loc[p].cur, Final>>
             /\ tomb'[<<r, w>>] = tomb[<<loc[p].cur, p>>]
          \/ tomb[<<r, w>>] # NoFile /\ tomb'[<<r, w>>] = tomb[<<r, w>>]
      BY <1>1, <2>1, <2>3, <3>1
    <3> QED
      BY <2>1, <3>2
  <2> QED
    BY <2>1, <2>2, <2>3 DEF Tidy
<1> QED
  BY <1>4, <1>5, <1>6, <1>7, <1>8, <1>9 DEF RemoveStep

\* usage().
LEMMA UsageSound ==
  ASSUME TypeInv, NEW p \in Procs, UsageStep(p), Alone(p)
  PROVE  Moves(p) /\ Enters(p) /\ Tidy
<1>1. loc \in [Procs -> Locals] /\ UNCHANGED <<records, tomb>>
  BY DEF UsageStep, StreamTooBig, UsageList, UsageLost, UsageStatus, UsageRoom,
         UsageSweep, UsageFull, disk, TypeInv, ControlOK
<1>2. CASE StreamTooBig(p) \/ UsageLost(p) \/ UsageStatus(p) \/ UsageFull(p)
  BY <1>1, <1>2, FinishMoves, SameTidy
  DEF StreamTooBig, UsageLost, UsageStatus, UsageFull, Abort, Answers
<1>3. CASE UsageList(p) \/ UsageRoom(p) \/ UsageSweep(p)
  <2>1. /\ \E l \in {"usage_read", "stage", "sweep"} : Goto(p, l)
        /\ pc[p] \notin Past
    BY <1>3 DEF UsageList, UsageRoom, UsageSweep, Past
  <2>4. loc'[p].op = loc[p].op /\ loc'[p].run = loc[p].run
    <3>1. CASE UsageList(p) \/ UsageRoom(p)
      BY <1>1, <3>1 DEF UsageList, UsageRoom, Locals
    <3>2. CASE UsageSweep(p)
      BY <1>1, <3>2 DEF UsageSweep, Locals
    <3> QED
      BY <1>3, <3>1, <3>2
  <2>2. Moves(p) /\ pc'[p] \in {"usage_read", "stage", "sweep"}
    BY <2>1, <2>4, GotoMoves
  <2>3. Rests(p)
    BY <2>2 DEF Rests, Removal
  <2> QED
    BY <1>1, <2>2, <2>3, RestEnters, SameTidy, SMTT(30)
<1> QED
  BY <1>2, <1>3 DEF UsageStep

\* commit(), its publication aside.
LEMMA CommitSound ==
  ASSUME TypeInv, NEW p \in Procs, CommitStep(p), ~Publish(p), Alone(p)
  PROVE  Moves(p) /\ Enters(p) /\ Tidy
<1>1. loc \in [Procs -> Locals] /\ records \in [RunIds -> Nat]
  BY DEF TypeInv, ControlOK, DiskOK
<1>2. CASE SyncRoot(p) \/ Unstage(p) \/ UnpublishGone(p) \/ DropFailed(p)
           \/ IndexTooBig(p)
  BY <1>2, FinishMoves, SameTidy
  DEF SyncRoot, Unstage, UnpublishGone, DropFailed, IndexTooBig, Fail, Abort, Answers, disk
<1>3. CASE Stage(p) \/ WriteFiles(p) \/ WriteLastRun(p) \/ Unpublish(p)
  <2>1. /\ \/ pc[p] \notin Past /\ \E l \in {"write", "publish"} : Goto(p, l)
           \/ \E l \in {"sync_root", "drop_failed"} : Goto(p, l)
        /\ loc'[p].op = loc[p].op /\ loc'[p].run = loc[p].run
    BY <1>1, <1>3
    DEF Stage, WriteFiles, WriteLastRun, Unpublish, Locals, Past
  <2>2. /\ Moves(p)
        /\ pc'[p] \in {"write", "publish", "sync_root", "drop_failed"}
    BY <2>1, GotoMoves DEF Past
  <2>3. Rests(p)
    BY <2>2 DEF Rests, Removal
  <2>4. /\ tomb' = tomb
        /\ records' = records
             \/ records' = [records EXCEPT ![loc[p].run] = Absent]
    BY <1>3 DEF Stage, WriteFiles, WriteLastRun, Unpublish, disk
  <2>5. Tidy
    BY <1>1, <2>4 DEF Tidy
  <2> QED
    BY <2>2, <2>3, <2>5, RestEnters
<1> QED
  BY <1>2, <1>3 DEF CommitStep

\* Lookups.
LEMMA LookupSound ==
  ASSUME TypeInv, LocalInv, NEW p \in Procs, LookupStep(p), Alone(p)
  PROVE  Moves(p) /\ Enters(p) /\ Tidy
<1>1. /\ loc \in [Procs -> Locals] /\ pc \in [Procs -> Labels]
      /\ records' = records /\ LocalOK(p) /\ pc[p] \notin Past
  BY DEF LookupStep, ReportNothing, ReadTombstone, DropTombstone, FindRecord,
         ReadManifest, ReadData, ReadNothing, disk, TypeInv, ControlOK, LocalInv, Past
<1>2. CASE ReportNothing(p) \/ ReadData(p) \/ ReadNothing(p)
  BY <1>2, FinishMoves, SameTidy, SMTT(30)
  DEF ReportNothing, ReadData, ReadNothing, Answers, disk
<1>3. CASE ReadTombstone(p)
  <2>1. CASE \E a \in {"expired", "deleted"} : Finish(p, a)
    BY <1>3, <2>1, FinishMoves, SameTidy DEF ReadTombstone, Answers, disk
  <2>2. CASE /\ \E l \in {"find_record", "drop_tomb"} : Goto(p, l)
             /\ \E r : loc' = [loc EXCEPT ![p].run = r, ![p].cur = r,
                                          ![p].now = clock]
    <3>1. loc'[p].op = loc[p].op /\ loc[p].op # "commit"
      BY <1>1, <1>3, <2>2 DEF ReadTombstone, LocalOK, Locals
    <3>2. /\ pc'[p] \in {"find_record", "drop_tomb"} /\ receipt' = receipt
          /\ UNCHANGED <<records, tomb>>
      BY <1>1, <1>3, <2>2 DEF Goto, ReadTombstone, disk
    <3>3. Rests(p)
      BY <3>2 DEF Rests, Removal
    <3> QED
      BY <3>1, <3>2, <3>3, RestEnters, SameTidy DEF Moves, Coming
  <2> QED
    BY <1>3, <2>1, <2>2 DEF ReadTombstone
<1>4. CASE DropTombstone(p)
  <2>1. Tidy
    BY <1>1, <1>4, EraseTidy DEF DropTombstone
  <2>2. CASE Return(p, "not_found")
    BY <1>1, <2>1, <2>2, ReturnMoves DEF Answers
  <2>3. CASE Goto(p, "find_record") /\ UNCHANGED loc
    <3>1. Moves(p) /\ pc'[p] = "find_record"
      BY <1>1, <2>3, GotoMoves
    <3>2. Rests(p)
      BY <3>1 DEF Rests, Removal
    <3> QED
      BY <2>1, <3>1, <3>2, RestEnters
  <2> QED
    BY <1>4, <2>2, <2>3 DEF DropTombstone
<1>5. CASE FindRecord(p)
  <2>1. CASE Finish(p, "not_found")
    BY <1>5, <2>1, FinishMoves, SameTidy DEF FindRecord, Answers, disk
  <2>2. CASE Goto(p, "read_manifest") /\ UNCHANGED loc
    <3>1. Moves(p) /\ pc'[p] = "read_manifest"
      BY <1>1, <2>2, GotoMoves
    <3>2. Rests(p)
      BY <3>1 DEF Rests, Removal
    <3> QED
      BY <1>5, <3>1, <3>2, RestEnters, SameTidy DEF FindRecord, disk
  <2> QED
    BY <1>5, <2>1, <2>2 DEF FindRecord
<1>6. CASE ReadManifest(p)
  <2>1. Tidy
    BY <1>6, SameTidy DEF ReadManifest, disk
  <2>2. CASE \E a \in {"corrupt", "active"} : Finish(p, a)
    BY <2>1, <2>2, FinishMoves DEF Answers
  <2> DEFINE r == loc[p].run
  <2>3. /\ Published' = Published /\ clock' = clock /\ clock \in Nat
        /\ loc[p].now \in Nat /\ loc[p].now <= clock
        /\ r \in Published => r \in RunIds /\ records[r] \in Nat
    BY <1>1, LocalsType
    DEF Published, Alone, TypeInv, WorldOK, LocalOK, DiskOK
  <2>4. pc[p] = "read_manifest" /\ loc[p].cur = r
    BY <1>1, <1>6 DEF ReadManifest, LocalOK
  <2>5. CASE Expired(r, loc[p].now) /\ Goto(p, "expire") /\ UNCHANGED loc
    <3>1. Moves(p) /\ pc'[p] = "expire"
      BY <1>1, <2>5, GotoMoves
    <3>2. r \in Published => clock >= records[r]
      BY <2>3, <2>5 DEF Expired
    <3>3. r \in RunIds => r \in Published
      BY <2>5 DEF Expired, Published
    <3>4. TimeOK(p)'
      BY <1>1, <2>3, <2>4, <2>5, <3>1, <3>2 DEF TimeOK
    <3>5. Enters(p)
      BY <2>4, <2>5, <3>1, <3>3, <3>4
      DEF Enters, Holds, Removal, Erasing, GoneOK
    <3> QED
      BY <2>1, <3>1, <3>5
  <2>6. CASE /\ r \in Published /\ ~Expired(r, loc[p].now)
             /\ Goto(p, "read_data") /\ UNCHANGED loc
    <3>1. Moves(p) /\ pc'[p] = "read_data"
      BY <1>1, <2>6, GotoMoves
    <3>2. loc[p].now < records[r]
      BY <2>3, <2>6 DEF Expired, Published
    <3>3. TimeOK(p)'
      BY <1>1, <2>3, <2>6, <3>1, <3>2 DEF TimeOK
    <3>4. Enters(p)
      BY <2>6, <3>1, <3>3 DEF Enters, Holds, Removal, Erasing, GoneOK
    <3> QED
      BY <2>1, <3>1, <3>4
  <2> QED
    BY <1>6, <2>2, <2>5, <2>6 DEF ReadManifest
<1> QED
  BY <1>2, <1>3, <1>4, <1>5, <1>6 DEF LookupStep

\* Deletes and purges.
LEMMA PurgeSound ==
  ASSUME TypeInv, LocalInv, NEW p \in Procs, PurgeStep(p), Alone(p)
  PROVE  Moves(p) /\ Enters(p) /\ Tidy
<1>1. /\ loc \in [Procs -> Locals] /\ pc \in [Procs -> Labels]
      /\ records' = records /\ LocalOK(p) /\ pc[p] \notin Past
  BY DEF PurgeStep, DeleteFind, DeleteGone, PurgeList, PurgeRecord,
         PurgeListFiles, PurgeFile, PurgeUnreadable, PurgeDone, disk, TypeInv,
         ControlOK, LocalInv, Past
<1>2. CASE DeleteFind(p)
  <2>1. /\ Goto(p, "rename") /\ UNCHANGED <<loc, tomb>>
        /\ loc[p].cur \in Published /\ Deleting(p)
    BY <1>1, <1>2 DEF DeleteFind, disk, LocalOK
  <2>2. Moves(p) /\ pc'[p] = "rename"
    BY <1>1, <2>1, GotoMoves
  <2>3. TimeOK(p)'
    BY <2>1, <2>2 DEF TimeOK, Deleting
  <2>4. Enters(p)
    BY <2>1, <2>2, <2>3 DEF Enters, Holds, Removal, Erasing, GoneOK
  <2> QED
    BY <1>1, <2>1, <2>2, <2>4, SameTidy
<1>3. CASE DeleteGone(p)
  <2>1. Tidy
    BY <1>3, SameTidy DEF DeleteGone, disk
  <2>2. CASE \E a \in {"not_found", "already_gone"} : Return(p, a)
    BY <1>1, <2>1, <2>2, ReturnMoves DEF Answers
  <2>3. CASE Goto(p, "drop_tomb") /\ UNCHANGED loc
    <3>1. Moves(p) /\ pc'[p] = "drop_tomb"
      BY <1>1, <2>3, GotoMoves
    <3>2. Rests(p)
      BY <3>1 DEF Rests, Removal
    <3> QED
      BY <2>1, <3>1, <3>2, RestEnters
  <2> QED
    BY <1>3, <2>2, <2>3 DEF DeleteGone
<1>4. CASE PurgeList(p) \/ PurgeListFiles(p)
  <2>1. /\ Goto(p, "purge") \/ Goto(p, "purge_files")
        /\ UNCHANGED tomb
    BY <1>4 DEF PurgeList, PurgeListFiles, disk
  <2>2. loc'[p].op = loc[p].op /\ loc'[p].run = loc[p].run
    BY <1>1, <1>4 DEF PurgeList, PurgeListFiles, Locals
  <2>3. Moves(p) /\ pc'[p] \in {"purge", "purge_files"}
    BY <1>1, <2>1, <2>2, GotoMoves
  <2>4. Rests(p)
    BY <2>3 DEF Rests, Removal
  <2> QED
    BY <1>1, <2>1, <2>3, <2>4, RestEnters, SameTidy
<1>5. CASE PurgeRecord(p)
  <2>1. PICK r \in loc[p].todo :
          \/ /\ loc' = [loc EXCEPT ![p].cur = r] /\ Goto(p, "delete")
          \/ /\ Expired(r, loc[p].now)
             /\ loc' = [loc EXCEPT ![p].cur = r] /\ Goto(p, "expire")
          \/ loc' = [loc EXCEPT ![p].todo = @ \ {r}] /\ Goto(p, "purge")
    BY <1>5 DEF PurgeRecord
  <2>2. loc'[p].op = loc[p].op /\ loc'[p].run = loc[p].run
    BY <1>1, <2>1 DEF Locals
  <2>3. Tidy
    BY <1>5, SameTidy DEF PurgeRecord, disk
  <2>4. CASE Goto(p, "delete") \/ Goto(p, "purge")
    <3>1. Moves(p) /\ pc'[p] \in {"delete", "purge"}
      BY <1>1, <2>2, <2>4, GotoMoves
    <3>2. Rests(p)
      BY <3>1 DEF Rests, Removal
    <3> QED
      BY <2>3, <3>1, <3>2, RestEnters
  <2>5. CASE /\ Expired(r, loc[p].now) /\ Goto(p, "expire")
             /\ loc' = [loc EXCEPT ![p].cur = r]
    <3>1. Moves(p) /\ pc'[p] = "expire"
      BY <1>1, <2>2, <2>5, GotoMoves
    <3>2. r \in RunIds /\ loc'[p].cur = r
      BY <1>1, <2>5, LocalsType DEF TypeInv, Locals
    <3>3. r \in Published /\ clock' >= records'[r]
      <4>1. /\ loc[p].now <= clock /\ loc[p].now \in Nat /\ clock \in Nat
            /\ clock' = clock /\ records[r] \in Nat
        BY <1>1, <3>2, LocalsType
        DEF LocalOK, TypeInv, WorldOK, DiskOK, Alone
      <4> QED
        BY <1>1, <2>5, <3>2, <4>1 DEF Expired, Published
    <3>4. Enters(p)
      BY <3>1, <3>2, <3>3 DEF Enters, Holds, TimeOK, Removal, Erasing, GoneOK
    <3> QED
      BY <2>3, <3>1, <3>4
  <2> QED
    BY <2>1, <2>4, <2>5
<1>6. CASE PurgeFile(p)
  <2>1. /\ UNCHANGED <<pc, receipt>> /\ pc[p] = "purge_files"
        /\ \E e \in loc[p].files :
              /\ tomb' = [tomb EXCEPT ![e] = NoFile] \/ tomb' = tomb
              /\ loc' = [loc EXCEPT ![p].files = @ \ {e}]
    BY <1>6 DEF PurgeFile
  <2>2. loc'[p].op = loc[p].op /\ loc'[p].run = loc[p].run
    BY <1>1, <2>1 DEF Locals
  <2>3. Rests(p)
    BY <2>1 DEF Rests, Removal
  <2>4. Tidy
    BY <1>1, <2>1, EraseTidy, SameTidy
  <2> QED
    BY <2>1, <2>2, <2>3, <2>4, RestEnters DEF Moves, Coming
<1>7. CASE PurgeUnreadable(p) \/ PurgeDone(p)
  BY <1>7, FinishMoves, SameTidy
  DEF PurgeUnreadable, PurgeDone, Abort, Answers, disk
<1> QED
  BY <1>2, <1>3, <1>4, <1>5, <1>6, <1>7 DEF PurgeStep

\* Failing and being killed.
LEMMA FaultSound ==
  ASSUME TypeInv, LocalInv, SafeInv, NEW p \in Procs, IoFault(p) \/ Crash(p),
         Alone(p)
  PROVE  Moves(p) /\ Enters(p) /\ Tidy
<1>1. loc \in [Procs -> Locals] /\ records' = records
  BY DEF IoFault, Crash, disk, TypeInv, ControlOK
<1>2. CASE Crash(p)
  <2>1. pc'[p] = "idle" /\ UNCHANGED <<tomb, receipt>>
    BY <1>2 DEF Crash, disk, TypeInv, ControlOK
  <2>2. Rests(p)
    BY <2>1 DEF Rests, Removal
  <2> QED
    BY <1>1, <2>1, <2>2, RestEnters, SameTidy DEF Moves, Coming, Past
<1>3. CASE IoFault(p)
  <2>1. Tidy
    BY <1>1, <1>3, EraseTidy, SameTidy DEF IoFault
  <2>2. CASE \E a \in {"storage_error", "quota_exceeded", "corrupt"} : Finish(p, a)
    BY <2>1, <2>2, FinishMoves DEF Answers
  <2>3. CASE /\ UNCHANGED loc
             /\ Goto(p, "unstage") \/ Goto(p, "unpublish")
    <3>1. Moves(p) /\ pc'[p] \in {"unstage", "unpublish"}
      BY <2>3, GotoMoves DEF Past
    <3>2. Rests(p)
      BY <3>1 DEF Rests, Removal
    <3> QED
      BY <2>1, <3>1, <3>2, RestEnters
  <2>4. CASE /\ pc[p] \in {"sweep", "purge"} /\ UNCHANGED <<pc, receipt>>
             /\ \E r \in loc[p].todo : loc' = [loc EXCEPT ![p].todo = @ \ {r}]
    <3>1. loc'[p].op = loc[p].op /\ loc'[p].run = loc[p].run
      BY <1>1, <2>4 DEF Locals
    <3>2. Rests(p)
      BY <2>4 DEF Rests, Removal
    <3> QED
      BY <2>1, <2>4, <3>1, <3>2, RestEnters DEF Moves, Coming
  <2>5. CASE /\ pc[p] = "expire" /\ Goto(p, "tomb_create")
             /\ UNCHANGED <<tomb, loc>>
    <3>1. Moves(p) /\ pc'[p] = "tomb_create"
      BY <2>5, GotoMoves DEF Past
    <3>2. Published' = Published /\ faults' > 0 /\ ~Deleting(p)
      BY <1>1, <1>3, <2>5
      DEF IoFault, Published, TypeInv, WorldOK, LocalInv, LocalOK
    <3>3. loc[p].cur \in Published => Overlooked(loc[p].cur)'
      BY <1>1, <2>5, <3>2
      DEF SafeInv, TimeInv, TimeOK, Overlooked, Alone
    <3>4. Enters(p)
      BY <2>5, <3>1, <3>2, <3>3
      DEF Enters, Holds, TimeOK, GoneOK, Deleting, Removal, Erasing
    <3> QED
      BY <2>1, <3>1, <3>4
  <2> QED
    BY <1>3, <2>2, <2>3, <2>4, <2>5 DEF IoFault, Fail, Abort
<1> QED
  BY <1>2, <1>3

\* A commit draws a run nobody has drawn.
LEMMA OpenKeeps ==
  ASSUME TypeInv, SafeInv, NEW p \in Procs, Open(p), Alone(p)
  PROVE  SafeInv'
<1> DEFINE Draws(o, r) ==
       /\ \E listing \in SweepListings :
             loc' = [loc EXCEPT ![p] = [Fresh EXCEPT !.op = o, !.run = r,
                                           !.now = clock, !.todo = listing]]
       /\ IF o = "commit" THEN receipt' = [receipt EXCEPT ![r] = "pending"]
          ELSE UNCHANGED receipt
<1>0. PICK o \in Ops : \E r \in Targets(o) : Draws(o, r)
  BY DEF Open
<1>1. PICK r \in Targets(o) : Draws(o, r)
  BY <1>0
<1>2. /\ pc'[p] = "sweep" /\ UNCHANGED <<records, tomb>>
      /\ loc \in [Procs -> Locals]
      /\ receipt \in [RunIds -> Answers \cup {"unused", "pending"}]
  BY DEF Open, disk, TypeInv, ControlOK
<1>3. loc'[p].op = o /\ loc'[p].run = r
  BY <1>1, <1>2 DEF Fresh
<1>4. \A q \in Procs \ {p} : Coming(q)' => Coming(q) /\ loc'[q] = loc[q]
  BY DEF Alone, Coming
<1>5. o = "commit" => r \in RunIds /\ receipt[r] = "unused"
  BY DEF Targets
<1>6. \A x \in RunIds : receipt'[x] = "unused" => receipt[x] = "unused"
  BY <1>1, <1>2
<1>7. \A q \in Procs : Coming(q) => loc[q].run \in RunIds
  BY DEF TypeInv, CommitOK, Coming
<1>8. DrawnInv'
  <2>1. Coming(p)' => receipt'[r] # "unused" /\ receipt[r] = "unused"
    BY <1>1, <1>2, <1>3, <1>5 DEF Coming
  <2> QED
    BY <1>3, <1>4, <1>6, <1>7, <2>1 DEF SafeInv, DrawnInv
<1>9. \A x \in RunIds : MayCome(x)' => MayCome(x)
  BY <1>3, <1>4, <1>5, <1>6 DEF MayCome, Coming
<1>10. Rests(p)
  BY <1>2 DEF Rests, Removal
<1>11. faults' = faults
  BY DEF Open
<1> QED
  BY <1>2, <1>8, <1>9, <1>10, <1>11, RestEnters, SameTidy, SoundKeeps

\* Publishing leaves a run that cannot come again.
LEMMA PublishSound ==
  ASSUME TypeInv, SafeInv, NEW p \in Procs, Publish(p), Alone(p)
  PROVE  SafeInv'
<1> DEFINE r == loc[p].run
<1>1. /\ pc[p] = "publish" /\ pc'[p] = "last_run"
      /\ UNCHANGED <<loc, tomb, receipt>>
      /\ records' = [records EXCEPT ![r] = loc[p].now + TTL]
  BY DEF Publish, Goto, TypeInv, ControlOK
<1>2. Coming(p) /\ ~Coming(p)' /\ r \in RunIds
  BY <1>1 DEF TypeInv, CommitOK, CommitLabels, Coming, Past
<1>3. \A q \in Procs : Coming(q)' => Coming(q) /\ q # p
  BY <1>1, <1>2 DEF Alone, Coming
<1>4. DrawnInv'
  BY <1>1, <1>3 DEF SafeInv, DrawnInv
<1>5. \A x \in RunIds : MayCome(x)' => MayCome(x) /\ x # r
  BY <1>1, <1>2, <1>3 DEF MayCome, SafeInv, DrawnInv
<1>6. /\ r \notin Published
      /\ \A w \in Procs \cup {Final} : tomb[<<r, w>>] = NoFile
      /\ \A q \in Procs : ~Holds(q, r)
  BY <1>2 DEF MayCome, SafeInv, ComeInv
<1>7. \A x \in RunIds \ {r} : records'[x] = records[x]
  BY <1>1 DEF TypeInv, DiskOK
<1>8. \A x \in Published' : x = r \/ x \in Published
  BY <1>7 DEF Published
<1>9. /\ \A q \in Procs \ {p} : pc'[q] = pc[q]
      /\ clock' = clock
  BY DEF Alone
<1>10. \A q \in Procs : \A x : Holds(q, x)' => Holds(q, x)
  BY <1>1, <1>9 DEF Holds, Removal
<1>11. ComeInv'
  BY <1>1, <1>5, <1>8, <1>10 DEF SafeInv, ComeInv
<1>12. \A q \in Procs : pc'[q] \in Removal \cup {"read_data"}
                           => q # p /\ pc'[q] = pc[q]
  BY <1>1, <1>9 DEF Removal
<1>13. GoneInv'
  <2> SUFFICES ASSUME NEW q \in Procs, pc'[q] \in Erasing PROVE GoneOK(q)'
    BY DEF GoneInv, GoneOK
  <2>1. q # p /\ pc'[q] = pc[q] /\ GoneOK(q)
    BY <1>12 DEF Erasing, Removal, SafeInv, GoneInv
  <2>2. loc[q].cur # r
    BY <1>6, <2>1 DEF Holds, Removal, Erasing
  <2>3. /\ loc[q].cur \in Published' => loc[q].cur \in Published
        /\ loc[q].cur \in Published => records'[loc[q].cur] = records[loc[q].cur]
    BY <1>7, <1>8, <2>2 DEF Published
  <2>4. faults' = faults
    BY DEF Publish, world
  <2> QED
    BY <1>1, <1>9, <2>1, <2>3, <2>4 DEF GoneOK, Deleting, Overlooked
<1>14. TimeInv'
  <2> SUFFICES ASSUME NEW q \in Procs,
                      pc'[q] \in {"expire", "rename", "read_data"}
               PROVE  TimeOK(q)'
    BY DEF TimeInv, TimeOK
  <2>1. pc'[q] = pc[q] /\ TimeOK(q)
    BY <1>12 DEF Removal, SafeInv, TimeInv
  <2>2. /\ pc[q] \in {"expire", "rename"} => loc[q].cur # r
        /\ pc[q] = "read_data" => loc[q].run # r
    BY <1>6 DEF Holds, Removal
  <2>3. \A x \in Published' : x # r => x \in Published
                                       /\ records'[x] = records[x]
    BY <1>7, <1>8 DEF Published
  <2> QED
    BY <1>1, <1>9, <2>1, <2>2, <2>3 DEF TimeOK, Deleting
<1>15. TombstoneMeansGone'
  <2> SUFFICES ASSUME NEW x \in RunIds, NEW w \in Procs \cup {Final},
                      tomb'[<<x, w>>] # NoFile, records'[x] # Absent
               PROVE  Overlooked(x)' /\ tomb'[<<x, w>>].state # "deleted"
    BY DEF TombstoneMeansGone, Entries
  <2>1. x # r /\ <<x, w>> \in Entries /\ <<x, w>>[1] = x
    BY <1>1, <1>6 DEF Entries
  <2>2. records'[x] = records[x] /\ clock' = clock /\ faults' = faults
    BY <1>7, <1>9, <2>1 DEF Publish, world
  <2> QED
    BY <1>1, <2>1, <2>2 DEF SafeInv, TombstoneMeansGone, Overlooked
<1>16. ExclusiveRemoval'
  BY <1>1, <1>12 DEF SafeInv, ExclusiveRemoval, Removal
<1> QED
  BY <1>4, <1>11, <1>13, <1>14, <1>15, <1>16 DEF SafeInv

\* No step of an operation moves the clock or counts as an error.
LEMMA StepWorld ==
  ASSUME NEW p \in Procs, Step(p)
  PROVE  UNCHANGED world
<1>1. SweepStep(p) \/ RemoveStep(p) => UNCHANGED world
  BY DEF SweepStep, SweepSkip, SweepExpire, SweepDone, RemoveStep, ExpireFind,
         MoveAside, MoveAsideLost, RemoveDir, TombCreate, TombWrite,
         TombRename, TombRenameLost
<1>2. UsageStep(p) \/ CommitStep(p) => UNCHANGED world
  BY DEF UsageStep, StreamTooBig, UsageList, UsageLost, UsageStatus, UsageRoom,
         UsageSweep, UsageFull, CommitStep, Stage, WriteFiles, Publish,
         WriteLastRun, SyncRoot, Unstage, Unpublish, UnpublishGone, DropFailed,
         IndexTooBig
<1>3. LookupStep(p) \/ PurgeStep(p) => UNCHANGED world
  BY DEF LookupStep, ReportNothing, ReadTombstone, DropTombstone, FindRecord,
         ReadManifest, ReadData, ReadNothing, PurgeStep, DeleteFind, DeleteGone,
         PurgeList, PurgeRecord, PurgeListFiles, PurgeFile, PurgeUnreadable,
         PurgeDone
<1> QED
  BY <1>1, <1>2, <1>3 DEF Step

\* I/O errors are counted and never forgotten.
LEMMA FaultsGrow ==
  ASSUME TypeInv, [Next]_vars
  PROVE  faults > 0 => faults' > 0
<1>1. CASE faults' = faults
  BY <1>1
<1>2. CASE \E p \in Procs : IoFault(p)
  BY <1>2 DEF IoFault, TypeInv, WorldOK
<1>3. ASSUME NEW p \in Procs, Step(p)
      PROVE  UNCHANGED world
  BY <1>3, StepWorld
<1> QED
  BY <1>1, <1>2, <1>3 DEF Next, Tick, Open, Crash, vars, world

\* Every step keeps the shared part.
LEMMA SafeNext == TypeInv /\ LocalInv /\ SafeInv /\ [Next]_vars => SafeInv'
<1> SUFFICES ASSUME TypeInv, LocalInv, SafeInv, [Next]_vars PROVE SafeInv'
  OBVIOUS
<1>1. CASE Tick
  <2>1. /\ clock \in Nat /\ clock' = clock + 1
        /\ UNCHANGED <<records, tomb, pc, loc, receipt>>
    BY <1>1 DEF Tick, disk, TypeInv, WorldOK
  <2>2. TimeInv'
    <3> SUFFICES ASSUME NEW p \in Procs PROVE TimeOK(p)'
      BY DEF TimeInv
    <3>1. TimeOK(p) /\ \A r \in Published : records[r] \in Nat
      BY DEF SafeInv, TimeInv, TypeInv, DiskOK, Published
    <3> QED
      BY <2>1, <3>1 DEF TimeOK, Deleting, Published
  <2>3. \A r \in Published : Overlooked(r) => Overlooked(r)'
    BY <1>1, <2>1 DEF Tick, Overlooked, Published, TypeInv, DiskOK
  <2>4. GoneInv'
    BY <2>1, <2>3 DEF SafeInv, GoneInv, GoneOK, Deleting, Published
  <2>5. TombstoneMeansGone'
    <3>1. \A r \in RunIds : records[r] # Absent => r \in Published
      BY DEF Published
    <3> QED
      BY <2>1, <2>3, <3>1 DEF SafeInv, TombstoneMeansGone, Entries
  <2> QED
    BY <2>1, <2>2, <2>4, <2>5
    DEF SafeInv, DrawnInv, ComeInv, ExclusiveRemoval, MayCome, Coming, Holds,
        Published
<1>2. CASE UNCHANGED vars
  BY <1>2
  DEF vars, SafeInv, DrawnInv, ComeInv, GoneInv, GoneOK, TimeInv, TimeOK,
      Deleting, Overlooked, TombstoneMeansGone, ExclusiveRemoval, MayCome, Coming, Holds, Published
<1>3. ASSUME NEW p \in Procs, Open(p) \/ Step(p) \/ IoFault(p) \/ Crash(p)
      PROVE  SafeInv'
  <2>1. Alone(p)
    BY <1>3, StepLocal
  <2>2. CASE Open(p)
    BY <2>1, <2>2, OpenKeeps
  <2>3. CASE Publish(p)
    BY <2>1, <2>3, PublishSound
  <2>4. CASE ~Open(p) /\ ~Publish(p)
    <3>1. Moves(p) /\ Enters(p) /\ Tidy
      BY <1>3, <2>1, <2>4, SweepSound, RemoveSound, UsageSound, CommitSound,
         LookupSound, PurgeSound, FaultSound DEF Step
    <3> QED
      BY <3>1, MovesKeep, FaultsGrow
  <2> QED
    BY <2>2, <2>3, <2>4
<1> QED
  BY <1>1, <1>2, <1>3 DEF Next

-------------------------------------------------------------------------------
(* The theorems.                                                             *)

Safe == TypeInv /\ LocalInv /\ SafeInv

\* An empty store, and nobody at work.
LEMMA SafeInit == Init => Safe
<1> SUFFICES ASSUME Init PROVE Safe
  OBVIOUS
<1>1. /\ Published = {} /\ \A p \in Procs : pc[p] = "idle" /\ loc[p].now = 0
      /\ \A e \in Entries : tomb[e] = NoFile
  BY DEF Init, Published, Fresh
<1>2. LocalInv
  BY <1>1 DEF Init, LocalInv, LocalOK
<1>3. \A p \in Procs : ~Coming(p) /\ \A r : ~Holds(p, r)
  BY <1>1 DEF Coming, Past, Holds, Removal
<1>4. DrawnInv /\ ComeInv
  BY <1>1, <1>3 DEF DrawnInv, ComeInv, Entries
<1>5. GoneInv /\ TimeInv /\ TombstoneMeansGone /\ ExclusiveRemoval
  BY <1>1
  DEF GoneInv, TimeInv, TimeOK, TombstoneMeansGone, ExclusiveRemoval, Erasing,
      GoneOK
<1> QED
  BY <1>2, <1>4, <1>5, TypeInit DEF Safe, SafeInv

\* The inductive invariant.
THEOREM SafeInvariant == Spec => []Safe
<1>1. Safe /\ [Next]_vars => Safe'
  BY TypeNext, LocalNext, SafeNext DEF Safe
<1> QED
  BY <1>1, SafeInit, PTL DEF Spec

\* Whoever races to remove a record, with the sweeps of all processes and with
\* any errors and kills: one of them erases it.
THEOREM ExclusiveRemovalHolds == Spec => []ExclusiveRemoval
<1>1. Safe => ExclusiveRemoval
  BY DEF Safe, SafeInv
<1> QED
  BY <1>1, SafeInvariant, PTL

\* No tombstone, and no file that is about to become one, hides a live record.
THEOREM TombstoneMeansGoneHolds == Spec => []TombstoneMeansGone
<1>1. Safe => TombstoneMeansGone
  BY DEF Safe, SafeInv
<1> QED
  BY <1>1, SafeInvariant, PTL

\* The steps that take a record away.
LEMMA LossStep ==
  ASSUME Safe, [Next]_vars, NEW r \in RunIds, records[r] # Absent,
         records'[r] = Absent
  PROVE  \E p \in Procs :
            \/ MoveAside(p) /\ loc[p].cur = r
            \/ pc[p] = "unpublish" /\ loc[p].run = r
<1>1. PICK p \in Procs : Step(p) /\ records' # records
  BY DEF Next, Tick, Open, IoFault, Crash, disk, vars
<1>2. MoveAside(p) \/ Publish(p) \/ Unpublish(p)
  <2>1. ~SweepStep(p) /\ ~UsageStep(p)
    BY <1>1 DEF SweepStep, SweepSkip, SweepExpire, SweepDone, UsageStep,
         StreamTooBig, UsageList, UsageLost, UsageStatus, UsageRoom,
         UsageSweep, UsageFull, disk
  <2>2. ~LookupStep(p) /\ ~PurgeStep(p)
    BY <1>1 DEF LookupStep, ReportNothing, ReadTombstone, DropTombstone,
         FindRecord, ReadManifest, ReadData, ReadNothing, PurgeStep, DeleteFind, DeleteGone,
         PurgeList, PurgeRecord, PurgeListFiles, PurgeFile, PurgeUnreadable,
         PurgeDone, disk
  <2>3. RemoveStep(p) => MoveAside(p)
    BY <1>1 DEF RemoveStep, ExpireFind, MoveAsideLost, RemoveDir, TombCreate,
         TombWrite, TombRename, TombRenameLost, disk
  <2>4. CommitStep(p) => Publish(p) \/ Unpublish(p)
    BY <1>1 DEF CommitStep, Stage, WriteFiles, WriteLastRun, SyncRoot, Unstage,
         UnpublishGone, DropFailed, IndexTooBig, disk
  <2> QED
    BY <1>1, <2>1, <2>2, <2>3, <2>4 DEF Step
<1>3. records \in [RunIds -> Nat]
  BY DEF Safe, TypeInv, DiskOK
<1>4. CASE MoveAside(p)
  BY <1>3, <1>4 DEF MoveAside
<1>5. CASE Publish(p)
  <2>1. loc[p].now + TTL # Absent
    BY LocalsType, LimitsNat DEF Safe, TypeInv, Absent
  <2> QED
    BY <1>3, <1>5, <2>1 DEF Publish
<1>6. CASE Unpublish(p)
  BY <1>3, <1>6 DEF Unpublish
<1> QED
  BY <1>2, <1>4, <1>5, <1>6

InTime ==
    \A r \in RunIds :
        records[r] # Absent /\ records'[r] = Absent
            => \/ clock >= records[r]
               \/ \E p \in Procs : Removing(p, r)
               \/ \E p \in Procs : pc[p] = "unpublish" /\ loc[p].run = r

\* No interleaving, error or kill takes a record away before its time, unless a
\* delete or a purge of everything asked for it or its own commit takes it back.
THEOREM NoEarlyLossHolds == Spec => NoEarlyLoss
<1>1. Safe /\ [Next]_vars => InTime
  <2> SUFFICES ASSUME Safe, [Next]_vars, NEW r \in RunIds,
                      records[r] # Absent, records'[r] = Absent
               PROVE  \/ clock >= records[r]
                      \/ \E p \in Procs : Removing(p, r)
                      \/ \E p \in Procs : /\ pc[p] = "unpublish"
                                          /\ loc[p].run = r
    BY DEF InTime
  <2>1. PICK p \in Procs : \/ MoveAside(p) /\ loc[p].cur = r
                           \/ pc[p] = "unpublish" /\ loc[p].run = r
    BY LossStep
  <2>2. CASE MoveAside(p) /\ loc[p].cur = r
    <3>1. Deleting(p) \/ clock >= records[r]
      BY <2>2 DEF MoveAside, Safe, SafeInv, TimeInv, TimeOK
    <3> QED
      BY <2>2, <3>1 DEF MoveAside, Removing
  <2> QED
    BY <2>1, <2>2
<1>2. Safe /\ [Next]_vars => [InTime]_vars
  BY <1>1
<1>3. Spec => [][InTime]_vars
  BY <1>2, SafeInvariant, PTL DEF Spec
<1> QED
  BY <1>3 DEF InTime, NoEarlyLoss

Served == {"active", "active_empty"}

\* Only the last step of a lookup answers `active`.
LEMMA ActiveStep ==
  ASSUME Safe, [Next]_vars, NEW p \in Procs, NEW b \in Served,
         result[p] # b, result'[p] = b
  PROVE  ReadManifest(p) \/ ReadData(p) \/ ReadNothing(p)
<1>1. result \in [Procs -> Answers] /\ result' # result
  BY DEF Safe, TypeInv, ControlOK
<1>2. PICK q \in Procs : Open(q) \/ Step(q) \/ IoFault(q) \/ Crash(q)
  BY <1>1 DEF Next, Tick, vars
<1>3. ASSUME NEW a, Finish(q, a), a \notin Served
      PROVE  FALSE
  BY <1>1, <1>3 DEF Finish
<1>4. ASSUME NEW a, Return(q, a), a \notin Served
      PROVE  FALSE
  BY <1>1, <1>3, <1>4 DEF Return, Goto
<1>5. ~Open(q) /\ ~Crash(q)
  BY <1>1 DEF Open, Crash, Served
<1>6. ~IoFault(q)
  BY <1>1, <1>3, SMTT(30) DEF IoFault, Fail, Abort, Goto, Served
<1>7. ~SweepStep(q) /\ ~UsageStep(q)
  BY <1>1, <1>3
  DEF SweepStep, SweepSkip, SweepExpire, SweepDone, UsageStep, StreamTooBig,
      UsageList, UsageLost, UsageStatus, UsageRoom, UsageSweep, UsageFull,
      Abort, Goto, Served
<1>8. ~RemoveStep(q) /\ ~CommitStep(q)
  BY <1>1, <1>3, <1>4
  DEF RemoveStep, ExpireFind, MoveAside, MoveAsideLost, RemoveDir, TombCreate,
      TombWrite, TombRename, TombRenameLost, CommitStep, Stage, WriteFiles,
      Publish, WriteLastRun, SyncRoot, Unstage, Unpublish, UnpublishGone,
      DropFailed, IndexTooBig, Fail, Abort, Goto, Served
<1>9. ~PurgeStep(q)
  BY <1>1, <1>3, <1>4
  DEF PurgeStep, DeleteFind, DeleteGone, PurgeList, PurgeRecord,
      PurgeListFiles, PurgeFile, PurgeUnreadable, PurgeDone, Abort, Goto,
      Served
<1>10. LookupStep(q) => ReadManifest(q) \/ ReadData(q) \/ ReadNothing(q)
  BY <1>1, <1>3, <1>4
  DEF LookupStep, ReportNothing, ReadTombstone, DropTombstone, FindRecord, Goto,
      Served
<1>11. ReadManifest(q) \/ ReadData(q) \/ ReadNothing(q)
  BY <1>2, <1>5, <1>6, <1>7, <1>8, <1>9, <1>10 DEF Step
<1>12. q = p
  BY <1>1, <1>11 DEF ReadManifest, ReadData, ReadNothing, Finish, Goto
<1> QED
  BY <1>11, <1>12

LiveWhenServed ==
    \A p \in Procs :
        LET r == loc[p].run
        IN  /\ result[p] # "active" /\ result'[p] = "active"
                 => /\ records[r] # Absent /\ loc[p].now < records[r]
                    /\ tomb[<<r, Final>>].state # "deleted"
            /\ result[p] # "active_empty" /\ result'[p] = "active_empty"
                 => records[r] = Absent \/ loc[p].now < records[r]

\* A record that is read is on disk and unexpired.
LEMMA ReadFinds ==
  ASSUME Safe, NEW p \in Procs, result[p] # "active", result'[p] = "active",
         ReadManifest(p) \/ ReadData(p)
  PROVE  loc[p].run \in Published /\ loc[p].now < records[loc[p].run]
<1> DEFINE r == loc[p].run
<1>1. result \in [Procs -> Answers]
  BY DEF Safe, TypeInv, ControlOK
<1>2. CASE ReadManifest(p)
  <2>1. r \in Published /\ ~Expired(r, loc[p].now)
    BY <1>1, <1>2 DEF ReadManifest, Finish, Goto, Expired, Published
  <2>2. records[r] \in Nat /\ loc[p].now \in Nat
    BY <2>1, LocalsType DEF Safe, TypeInv, DiskOK, Published
  <2> QED
    BY <2>1, <2>2 DEF Expired, Published
<1>3. CASE ReadData(p)
  <2>1. r \in Published
    BY <1>1, <1>3 DEF ReadData, Finish
  <2> QED
    BY <1>3, <2>1 DEF ReadData, Safe, SafeInv, TimeInv, TimeOK
<1> QED
  BY <1>2, <1>3

\* What a lookup serves is on disk, had not expired when the lookup read the
\* clock, and has not been deleted, whatever happened between its steps; and an
\* empty answer is never of a record that had expired by then and is still there.
THEOREM ServedOnlyWhileLiveHolds == Spec => ServedOnlyWhileLive
<1>1. Safe /\ [Next]_vars => LiveWhenServed
  <2> SUFFICES ASSUME Safe, [Next]_vars, NEW p \in Procs
               PROVE  LET r == loc[p].run
                      IN  /\ result[p] # "active" /\ result'[p] = "active"
                               => /\ records[r] # Absent
                                  /\ loc[p].now < records[r]
                                  /\ tomb[<<r, Final>>].state # "deleted"
                          /\ result[p] # "active_empty" /\ result'[p] = "active_empty"
                               => records[r] = Absent \/ loc[p].now < records[r]
    BY DEF LiveWhenServed
  <2> DEFINE r == loc[p].run
  <2>1. result \in [Procs -> Answers]
    BY DEF Safe, TypeInv, ControlOK
  <2>2. ASSUME result[p] # "active", result'[p] = "active"
        PROVE  /\ records[r] # Absent /\ loc[p].now < records[r]
               /\ tomb[<<r, Final>>].state # "deleted"
    <3>1. ~ReadNothing(p)
      BY <2>1, <2>2 DEF ReadNothing, Finish
    <3>2. r \in Published /\ loc[p].now < records[r]
      BY <2>2, <3>1, ActiveStep, ReadFinds DEF Served
    <3>3. <<r, Final>> \in Entries /\ <<r, Final>>[1] = r /\ records[r] # Absent
      BY <3>2 DEF Entries, Published
    <3>4. tomb[<<r, Final>>] # NoFile => tomb[<<r, Final>>].state # "deleted"
      BY <3>3 DEF Safe, SafeInv, TombstoneMeansGone
    <3> QED
      BY <3>2, <3>3, <3>4 DEF NoFile
  <2>3. ASSUME result[p] # "active_empty", result'[p] = "active_empty"
        PROVE  records[r] = Absent \/ loc[p].now < records[r]
    <3>1. ReadNothing(p)
      BY <2>1, <2>3, ActiveStep DEF Served, ReadManifest, ReadData, Finish, Goto
    <3>2. r \in RunIds
      BY <3>1 DEF ReadNothing, Safe, LocalInv, LocalOK
    <3> QED
      BY <3>1, <3>2 DEF ReadNothing, Safe, SafeInv, TimeInv, TimeOK, Published
  <2> QED
    BY <2>2, <2>3
<1>2. Safe /\ [Next]_vars => [LiveWhenServed]_vars
  BY <1>1
<1>3. Spec => [][LiveWhenServed]_vars
  BY <1>2, SafeInvariant, PTL DEF Spec
<1> QED
  BY <1>3 DEF LiveWhenServed, ServedOnlyWhileLive

-------------------------------------------------------------------------------
(* Receipts.                                                                 *)

Refusals == {"storage_error", "quota_exceeded"}

Busy(p) == loc[p].op = "commit" /\ pc[p] # "idle"

\* A commit under way has a run of its own and has not answered.
BusyInv ==
    \A p \in Procs : Busy(p) =>
        /\ receipt[loc[p].run] = "pending"
        /\ \A q \in Procs : q # p /\ Busy(q) => loc[q].run # loc[p].run

\* What is cleaned up is not, or no longer, published.
TakenBackOK(p) ==
    /\ pc[p] \in {"unstage", "drop_failed"} => loc[p].run \notin Published
    /\ pc[p] = "unpublish" => faults # 0

TakenBackInv == \A p \in Procs : TakenBackOK(p)

ReceiptInv == BusyInv /\ TakenBackInv /\ FailedReceiptUnretrievable

\* A receipt is the answer of the commit that drew the run.
Answered(p) ==
    /\ Busy(p) /\ ~Busy(p)'
    /\ \E a \in Answers :
          /\ receipt' = [receipt EXCEPT ![loc[p].run] = a]
          /\ a \in Refusals => loc[p].run \notin Published'

\* A step that answers truly, or not at all, keeps what is known of receipts.
LEMMA ReceiptKeeps ==
  ASSUME TypeInv, ReceiptInv, NEW p \in Procs, Alone(p),
         Published' \subseteq Published, faults # 0 => faults' # 0,
         TakenBackOK(p)', Busy(p)' => Busy(p) /\ loc'[p].run = loc[p].run,
         receipt' = receipt \/ Answered(p)
  PROVE  ReceiptInv'
<1>1. /\ \A q \in Procs \ {p} : pc'[q] = pc[q] /\ loc'[q] = loc[q]
      /\ receipt \in [RunIds -> Answers \cup {"unused", "pending"}]
  BY DEF Alone, TypeInv, ControlOK
<1>2. \A q \in Procs : Busy(q)' => Busy(q) /\ loc'[q].run = loc[q].run
  BY <1>1 DEF Busy
<1>3. \A q \in Procs : Busy(q) => loc[q].run \in RunIds
  BY DEF Busy, TypeInv, CommitOK
<1>4. BusyInv'
  <2>1. ASSUME NEW q \in Procs, Busy(q)'
        PROVE  receipt'[loc'[q].run] = "pending"
    <3>1. /\ receipt[loc[q].run] = "pending" /\ loc'[q].run = loc[q].run
          /\ Busy(q)
      BY <1>2, <2>1 DEF ReceiptInv, BusyInv
    <3>2. CASE Answered(p)
      <4>1. q # p /\ loc[q].run # loc[p].run
        BY <2>1, <3>1, <3>2 DEF Answered, ReceiptInv, BusyInv
      <4> QED
        BY <1>1, <1>3, <3>1, <3>2, <4>1 DEF Answered
    <3> QED
      BY <3>1, <3>2
  <2> QED
    BY <1>2, <2>1 DEF ReceiptInv, BusyInv
<1>5. TakenBackInv'
  <2>1. ASSUME NEW q \in Procs \ {p}
        PROVE  TakenBackOK(q)'
    <3>1. TakenBackOK(q)
      BY DEF ReceiptInv, TakenBackInv
    <3> QED
      BY <1>1, <3>1 DEF TakenBackOK
  <2> QED
    BY <2>1 DEF TakenBackInv
<1>6. FailedReceiptUnretrievable'
  <2> SUFFICES ASSUME NEW r \in RunIds, receipt'[r] \in Refusals
               PROVE  r \notin Published'
    BY DEF FailedReceiptUnretrievable, Refusals, Published
  <2>1. CASE receipt[r] \in Refusals
    BY <2>1
    DEF ReceiptInv, FailedReceiptUnretrievable, Refusals, Published
  <2>2. CASE receipt[r] \notin Refusals
    BY <1>1, <2>2 DEF Answered
  <2> QED
    BY <2>1, <2>2
<1> QED
  BY <1>4, <1>5, <1>6 DEF ReceiptInv

\* A commit that gives up before it publishes, or once it has taken the record
\* back, leaves nothing to retrieve.
LEMMA RefusalIsTrue ==
  ASSUME TypeInv, SafeInv, ReceiptInv, NEW p \in Procs, Busy(p),
         pc[p] \notin {"last_run", "sync_root", "unpublish"}
  PROVE  loc[p].run \notin Published
<1>1. loc[p].run \in RunIds
  BY DEF Busy, TypeInv, CommitOK
<1>2. CASE Coming(p)
  BY <1>1, <1>2 DEF MayCome, SafeInv, ComeInv
<1>3. CASE ~Coming(p)
  <2>1. pc[p] \in {"unstage", "drop_failed"}
    BY <1>3 DEF Busy, Coming, Past
  <2> QED
    BY <2>1 DEF ReceiptInv, TakenBackInv, TakenBackOK
<1> QED
  BY <1>2, <1>3

\* An answer.
LEMMA FinishReceipt ==
  ASSUME TypeInv, ReceiptInv, NEW p \in Procs, NEW a \in Answers,
         Finish(p, a), Alone(p), pc[p] # "idle", Published' \subseteq Published,
         faults # 0 => faults' # 0,
         Busy(p) /\ a \in Refusals => loc[p].run \notin Published
  PROVE  ReceiptInv'
<1>1. pc'[p] = "idle" /\ ~Busy(p)' /\ TakenBackOK(p)'
  BY FinishLocal DEF Busy, TakenBackOK
<1>2. receipt' = receipt \/ Answered(p)
  BY <1>1 DEF Finish, Busy, Answered
<1> QED
  BY <1>1, <1>2, ReceiptKeeps

\* What the steps other than a commit's own do to receipts.
Common(p) == \/ SweepStep(p) \/ RemoveStep(p) \/ UsageStep(p)
             \/ LookupStep(p) \/ PurgeStep(p)

LEMMA CommonOutcome ==
  ASSUME TypeInv, LocalInv, NEW p \in Procs, Common(p)
  PROVE  /\ pc[p] \notin Past /\ faults' = faults
         /\ \/ \E a \in Answers : Finish(p, a)
            \/ receipt' = receipt /\ pc'[p] \notin Past
<1>1. /\ pc \in [Procs -> Labels] /\ loc[p].ret \notin Past
      /\ loc[p].ret \in {"sweep", "lookup", "delete", "purge"}
  BY LocalsType DEF TypeInv, ControlOK, Past
<1>2. ASSUME NEW a \in Answers, Return(p, a)
      PROVE  (\E b \in Answers : Finish(p, b))
             \/ (receipt' = receipt /\ pc'[p] \notin Past)
  BY <1>1, <1>2 DEF Return, Goto
<1>3. ASSUME NEW l, l \notin Past, Goto(p, l)
      PROVE  receipt' = receipt /\ pc'[p] \notin Past
  BY <1>1, <1>3 DEF Goto
<1>4. CASE SweepStep(p)
  <2>1. AfterSweep(loc[p].op) \notin Past
    BY DEF AfterSweep, Past
  <2> QED
    BY <1>3, <1>4, <2>1
    DEF SweepStep, SweepSkip, SweepExpire, SweepDone, Past, world
<1>5. CASE RemoveStep(p)
  <2>1. "removed" \in Answers /\ "expired" \in Answers
        /\ "storage_error" \in Answers
    BY SMTT(30) DEF Answers
  <2> QED
    BY <1>2, <1>3, <1>5, <2>1
    DEF RemoveStep, ExpireFind, MoveAside, MoveAsideLost, RemoveDir,
        TombCreate, TombWrite, TombRename, TombRenameLost, Abort, Past, world
<1>6. CASE UsageStep(p)
  BY <1>3, <1>6
  DEF UsageStep, StreamTooBig, UsageList, UsageLost, UsageStatus, UsageRoom,
      UsageSweep, UsageFull, Abort, Past, Answers, world
<1>7. CASE LookupStep(p)
  <2>1. \A f \in Files : f.state \in {"expired", "deleted"}
                            => f.state \in Answers
    BY DEF Files, Answers
  <2>2. LookupRun(p) # NoRun => tomb[<<LookupRun(p), Final>>] \in Files
    BY LocalsType DEF LookupRun, Entries, TypeInv, DiskOK
  <2>3. CASE ReadTombstone(p)
    BY <1>3, <2>1, <2>2, <2>3 DEF ReadTombstone, Past, world, Answers
  <2>4. CASE DropTombstone(p)
    BY <1>2, <1>3, <2>4 DEF DropTombstone, Past, world, Answers
  <2> QED
    BY <1>3, <1>7, <2>3, <2>4
    DEF LookupStep, ReportNothing, FindRecord, ReadManifest, ReadData, ReadNothing, Past,
        Answers, world
<1>8. CASE PurgeStep(p)
  BY <1>2, <1>3, <1>8
  DEF PurgeStep, DeleteFind, DeleteGone, PurgeList, PurgeRecord,
      PurgeListFiles, PurgeFile, PurgeUnreadable, PurgeDone, Abort, Past,
      Answers, world
<1> QED
  BY <1>4, <1>5, <1>6, <1>7, <1>8 DEF Common


\* Those steps keep receipts true.
LEMMA CommonReceipt ==
  ASSUME TypeInv, LocalInv, SafeInv, ReceiptInv, NEW p \in Procs, Common(p),
         Alone(p), Moves(p), Published' \subseteq Published
  PROVE  ReceiptInv'
<1>1. /\ pc[p] \notin Past /\ faults' = faults
      /\ \/ \E a \in Answers : Finish(p, a)
         \/ receipt' = receipt /\ pc'[p] \notin Past
  BY CommonOutcome
<1>2. CASE \E a \in Answers : Finish(p, a)
  <2>1. Busy(p) => loc[p].run \notin Published
    BY <1>1, RefusalIsTrue DEF Past
  <2> QED
    BY <1>1, <1>2, <2>1, FinishReceipt DEF Past
<1>3. CASE receipt' = receipt /\ pc'[p] \notin Past
  <2>1. Busy(p)' => Busy(p) /\ loc'[p].run = loc[p].run
    BY <1>1, <1>3 DEF Busy, Moves, Coming, Past
  <2>2. TakenBackOK(p)'
    BY <1>3 DEF TakenBackOK, Past
  <2> QED
    BY <1>1, <1>3, <2>1, <2>2, ReceiptKeeps
<1> QED
  BY <1>1, <1>2, <1>3

\* The steps of a commit that neither publish nor take back.
LEMMA CommitReceipt ==
  ASSUME TypeInv, SafeInv, ReceiptInv, NEW p \in Procs,
         CommitStep(p), ~Publish(p), Alone(p), Published' \subseteq Published
  PROVE  ReceiptInv'
<1>1. /\ faults' = faults /\ pc \in [Procs -> Labels]
      /\ loc \in [Procs -> Locals] /\ records \in [RunIds -> Nat]
  BY DEF CommitStep, Stage, WriteFiles, WriteLastRun, SyncRoot, Unstage,
         Unpublish, UnpublishGone, DropFailed, IndexTooBig, world, TypeInv, ControlOK,
         DiskOK
<1>2. Busy(p) /\ loc[p].run \in RunIds
  BY DEF CommitStep, Stage, WriteFiles, WriteLastRun, SyncRoot, Unstage,
         Unpublish, UnpublishGone, DropFailed, IndexTooBig, Busy, TypeInv, CommitOK,
         CommitLabels
<1>3. CASE Stage(p) \/ WriteFiles(p) \/ WriteLastRun(p)
  <2>1. /\ receipt' = receipt /\ pc'[p] \in {"write", "publish", "sync_root"}
        /\ loc'[p].run = loc[p].run
    BY <1>1, <1>3 DEF Stage, WriteFiles, WriteLastRun, Goto, Locals
  <2>2. TakenBackOK(p)'
    BY <2>1 DEF TakenBackOK
  <2> QED
    BY <1>1, <1>2, <2>1, <2>2, ReceiptKeeps
<1>4. CASE Unpublish(p)
  <2>1. /\ receipt' = receipt /\ pc'[p] = "drop_failed" /\ loc' = loc
        /\ records' = [records EXCEPT ![loc[p].run] = Absent]
    BY <1>1, <1>4 DEF Unpublish, Goto
  <2>2. TakenBackOK(p)'
    BY <1>1, <2>1 DEF TakenBackOK, Published
  <2> QED
    BY <1>1, <1>2, <2>1, <2>2, ReceiptKeeps
<1>5. CASE SyncRoot(p)
  <2>1. "stored" \in Answers \ Refusals /\ Finish(p, "stored")
        /\ pc[p] # "idle"
    BY <1>5 DEF SyncRoot, Answers, Refusals
  <2> QED
    BY <1>1, <2>1, FinishReceipt
<1>6. CASE Unstage(p) \/ DropFailed(p) \/ UnpublishGone(p)
           \/ IndexTooBig(p)
  <2>1. PICK a \in {"storage_error", "quota_exceeded"} : Finish(p, a)
    BY <1>6 DEF Unstage, DropFailed, IndexTooBig, UnpublishGone, Fail, Abort
  <2>3. a \in Answers /\ pc[p] # "idle"
    BY <1>6, <2>1 DEF Unstage, DropFailed, IndexTooBig, UnpublishGone, Answers
  <2>2. loc[p].run \notin Published
    BY <1>2, <1>6, RefusalIsTrue DEF Unstage, DropFailed, IndexTooBig, UnpublishGone
  <2> QED
    BY <1>1, <2>1, <2>2, <2>3, FinishReceipt
<1> QED
  BY <1>3, <1>4, <1>5, <1>6 DEF CommitStep

\* Publishing: nobody has answered for this run.
LEMMA PublishReceipt ==
  ASSUME TypeInv, ReceiptInv, NEW p \in Procs, Publish(p), Alone(p)
  PROVE  ReceiptInv'
<1> DEFINE r == loc[p].run
<1>1. /\ pc[p] = "publish" /\ pc'[p] = "last_run"
      /\ UNCHANGED <<loc, receipt, faults>>
      /\ records' = [records EXCEPT ![r] = loc[p].now + TTL]
      /\ records \in [RunIds -> Nat]
  BY DEF Publish, Goto, world, TypeInv, ControlOK, DiskOK
<1>2. Busy(p) /\ receipt[r] = "pending"
  BY <1>1 DEF Busy, TypeInv, CommitOK, CommitLabels, ReceiptInv, BusyInv
<1>3. \A x \in Published' : x = r \/ x \in Published
  BY <1>1 DEF Published
<1>4. \A q \in Procs \ {p} : pc'[q] = pc[q]
  BY DEF Alone
<1>5. \A q \in Procs : Busy(q)' => Busy(q)
  BY <1>1, <1>2, <1>4 DEF Busy
<1>6. BusyInv'
  BY <1>1, <1>5 DEF ReceiptInv, BusyInv
<1>7. TakenBackInv'
  <2> SUFFICES ASSUME NEW q \in Procs PROVE TakenBackOK(q)'
    BY DEF TakenBackInv
  <2>1. CASE q = p
    BY <1>1, <2>1 DEF TakenBackOK
  <2>2. CASE q # p
    <3>1. pc[q] \in {"unstage", "drop_failed"} => Busy(q)
      BY DEF Busy, TypeInv, CommitOK, CommitLabels
    <3>2. pc[q] \in {"unstage", "drop_failed"} => loc[q].run # r
      BY <1>2, <2>2, <3>1 DEF ReceiptInv, BusyInv
    <3> QED
      BY <1>1, <1>3, <1>4, <2>2, <3>2
      DEF ReceiptInv, TakenBackInv, TakenBackOK
  <2> QED
    BY <2>1, <2>2
<1>8. FailedReceiptUnretrievable'
  BY <1>1, <1>2 DEF ReceiptInv, FailedReceiptUnretrievable
<1> QED
  BY <1>6, <1>7, <1>8 DEF ReceiptInv

\* Opening: a commit draws a run that has no receipt yet.
LEMMA OpenReceipt ==
  ASSUME TypeInv, ReceiptInv, NEW p \in Procs, Open(p), Alone(p)
  PROVE  ReceiptInv'
<1> DEFINE Draws(o, r) ==
       /\ \E listing \in SweepListings :
             loc' = [loc EXCEPT ![p] = [Fresh EXCEPT !.op = o, !.run = r,
                                           !.now = clock, !.todo = listing]]
       /\ IF o = "commit" THEN receipt' = [receipt EXCEPT ![r] = "pending"]
          ELSE UNCHANGED receipt
<1>0. PICK o \in Ops : \E r \in Targets(o) : Draws(o, r)
  BY DEF Open
<1>1. PICK r \in Targets(o) : Draws(o, r)
  BY <1>0
<1>2. /\ pc[p] = "idle" /\ pc'[p] = "sweep" /\ UNCHANGED <<records, faults>>
      /\ loc \in [Procs -> Locals]
      /\ receipt \in [RunIds -> Answers \cup {"unused", "pending"}]
  BY DEF Open, disk, TypeInv, ControlOK
<1>3. loc'[p].op = o /\ loc'[p].run = r
  BY <1>1, <1>2 DEF Fresh
<1>4. /\ \A q \in Procs \ {p} : Busy(q)' => Busy(q)
      /\ \A q \in Procs \ {p} : pc'[q] = pc[q] /\ loc'[q] = loc[q]
  BY DEF Alone, Busy
<1>5. o = "commit" => r \in RunIds /\ receipt[r] = "unused"
  BY DEF Targets
<1>6. \A q \in Procs : Busy(q) => loc[q].run \in RunIds
                                  /\ receipt[loc[q].run] = "pending"
  BY DEF ReceiptInv, BusyInv, Busy, TypeInv, CommitOK
<1>7. \A x \in RunIds : receipt[x] = "pending" => receipt'[x] = "pending"
  BY <1>1, <1>2
<1>8. BusyInv'
  <2>1. Busy(p)' => receipt'[r] = "pending" /\ receipt[r] = "unused"
    BY <1>1, <1>2, <1>3, <1>5 DEF Busy
  <2> QED
    BY <1>3, <1>4, <1>6, <1>7, <2>1 DEF ReceiptInv, BusyInv
<1>9. TakenBackInv'
  <2>1. TakenBackOK(p)'
    BY <1>2 DEF TakenBackOK
  <2>2. ASSUME NEW q \in Procs \ {p}
        PROVE  TakenBackOK(q)'
    BY <1>2, <1>4 DEF ReceiptInv, TakenBackInv, TakenBackOK, Published
  <2> QED
    BY <2>1, <2>2 DEF TakenBackInv
<1>10. FailedReceiptUnretrievable'
  BY <1>1, <1>2 DEF ReceiptInv, FailedReceiptUnretrievable
<1> QED
  BY <1>8, <1>9, <1>10 DEF ReceiptInv

\* An error: at most one in all, so it never hits the clean-up of another.
LEMMA FaultReceipt ==
  ASSUME TypeInv, SafeInv, ReceiptInv, MaxFaults <= 1, NEW p \in Procs,
         IoFault(p), Alone(p)
  PROVE  ReceiptInv'
<1>1. /\ pc \in [Procs -> Labels] /\ loc \in [Procs -> Locals]
      /\ faults \in Nat /\ faults < MaxFaults /\ faults' = faults + 1
      /\ records' = records
  BY DEF IoFault, TypeInv, ControlOK, WorldOK
<1>2. faults = 0 /\ faults' # 0 /\ Published' = Published
  BY <1>1, BoundsNat DEF Published
<1>3. pc[p] # "unpublish"
  BY <1>2 DEF ReceiptInv, TakenBackInv, TakenBackOK
<1>4. CASE /\ pc[p] \notin {"idle", "last_run", "sync_root"}
           /\ \E a \in Answers : Finish(p, a)
  <2>1. Busy(p) => loc[p].run \notin Published
    BY <1>3, <1>4, RefusalIsTrue
  <2> QED
    BY <1>2, <1>4, <2>1, FinishReceipt
<1>5. CASE pc[p] \in {"write", "publish"} /\ Goto(p, "unstage") /\ loc' = loc
  <2>1. pc'[p] = "unstage" /\ receipt' = receipt
    BY <1>1, <1>5 DEF Goto
  <2>2. Busy(p)
    BY <1>5 DEF Busy, TypeInv, CommitOK, CommitLabels
  <2>3. loc[p].run \notin Published
    BY <1>5, <2>2, RefusalIsTrue
  <2>4. TakenBackOK(p)'
    BY <1>2, <1>5, <2>1, <2>3 DEF TakenBackOK
  <2> QED
    BY <1>2, <1>5, <2>1, <2>2, <2>4, ReceiptKeeps
<1>6. CASE /\ pc[p] \in {"last_run", "sync_root"} /\ Goto(p, "unpublish")
           /\ loc' = loc
  <2>1. pc'[p] = "unpublish" /\ receipt' = receipt
    BY <1>1, <1>6 DEF Goto
  <2>2. Busy(p)
    BY <1>6 DEF Busy, TypeInv, CommitOK, CommitLabels
  <2>3. TakenBackOK(p)'
    BY <1>2, <2>1 DEF TakenBackOK
  <2> QED
    BY <1>2, <1>6, <2>1, <2>2, <2>3, ReceiptKeeps
<1>7. CASE /\ pc[p] \in {"sweep", "purge"} /\ UNCHANGED <<pc, receipt>>
           /\ \E r \in loc[p].todo : loc' = [loc EXCEPT ![p].todo = @ \ {r}]
  <2>1. loc'[p].op = loc[p].op /\ loc'[p].run = loc[p].run
    BY <1>1, <1>7 DEF Locals
  <2>2. TakenBackOK(p)' /\ (Busy(p)' => Busy(p))
    BY <1>7, <2>1 DEF TakenBackOK, Busy
  <2> QED
    BY <1>2, <1>7, <2>1, <2>2, ReceiptKeeps
<1>8. CASE pc[p] = "expire" /\ Goto(p, "tomb_create") /\ loc' = loc
  <2>1. pc'[p] = "tomb_create" /\ receipt' = receipt
    BY <1>1, <1>8 DEF Goto
  <2>2. TakenBackOK(p)' /\ (Busy(p)' => Busy(p))
    BY <1>8, <2>1 DEF TakenBackOK, Busy
  <2> QED
    BY <1>2, <1>8, <2>1, <2>2, ReceiptKeeps
<1> QED
  BY <1>3, <1>4, <1>5, <1>6, <1>7, <1>8
  DEF IoFault, Fail, Abort, AbortingSteps, Answers

\* A kill: the run it was about has no receipt.
LEMMA CrashReceipt ==
  ASSUME TypeInv, ReceiptInv, NEW p \in Procs, Crash(p), Alone(p)
  PROVE  ReceiptInv'
<1>1. /\ pc'[p] = "idle" /\ UNCHANGED <<records, receipt, faults>>
  BY DEF Crash, disk, TypeInv, ControlOK
<1> QED
  BY <1>1, ReceiptKeeps DEF Busy, TakenBackOK, Published

\* Every step keeps receipts true.
LEMMA ReceiptNext ==
  Safe /\ ReceiptInv /\ MaxFaults <= 1 /\ [Next]_vars => ReceiptInv'
<1> SUFFICES ASSUME Safe, ReceiptInv, MaxFaults <= 1, [Next]_vars
             PROVE  ReceiptInv'
  OBVIOUS
<1>1. CASE Tick \/ UNCHANGED vars
  BY <1>1
  DEF Tick, vars, disk, ReceiptInv, BusyInv, Busy, TakenBackInv, TakenBackOK,
      FailedReceiptUnretrievable, Published
<1>2. ASSUME NEW p \in Procs, Open(p) \/ Step(p) \/ IoFault(p) \/ Crash(p)
      PROVE  ReceiptInv'
  <2>1. Alone(p) /\ TypeInv /\ LocalInv /\ SafeInv
    BY <1>2, StepLocal DEF Safe
  <2>2. CASE Open(p)
    BY <2>1, <2>2, OpenReceipt
  <2>3. CASE Publish(p)
    BY <2>1, <2>3, PublishReceipt
  <2>4. CASE IoFault(p)
    BY <2>1, <2>4, FaultReceipt
  <2>5. CASE Crash(p)
    BY <2>1, <2>5, CrashReceipt
  <2>6. CASE Step(p) /\ ~Publish(p)
    <3>1. Moves(p) /\ Tidy
      BY <2>1, <2>6, SweepSound, RemoveSound, UsageSound, CommitSound,
         LookupSound, PurgeSound DEF Step
    <3>2. Published' \subseteq Published
      BY <3>1 DEF Tidy, Published
    <3>3. CASE CommitStep(p)
      BY <2>1, <2>6, <3>2, <3>3, CommitReceipt
    <3>4. CASE Common(p)
      BY <2>1, <3>1, <3>2, <3>4, CommonReceipt
    <3> QED
      BY <2>6, <3>3, <3>4 DEF Step, Common
  <2> QED
    BY <1>2, <2>2, <2>3, <2>4, <2>5, <2>6
<1> QED
  BY <1>1, <1>2 DEF Next

\* A receipt that says the run was not stored leaves no body to retrieve,
\* whatever the processes do and wherever they are killed, as long as no second
\* I/O error hits the clean-up after the first.
THEOREM FailedReceiptUnretrievableHolds ==
  ASSUME MaxFaults <= 1
  PROVE  Spec => []FailedReceiptUnretrievable
<1>1. Init => ReceiptInv
  <2> SUFFICES ASSUME Init PROVE ReceiptInv
    OBVIOUS
  <2>1. \A p \in Procs : pc[p] = "idle"
    BY DEF Init
  <2>2. \A r \in RunIds : receipt[r] = "unused"
    BY DEF Init
  <2> QED
    BY <2>1, <2>2
    DEF ReceiptInv, BusyInv, Busy, TakenBackInv, TakenBackOK,
        FailedReceiptUnretrievable
<1>2. Safe /\ ReceiptInv /\ [Next]_vars => ReceiptInv'
  BY ReceiptNext
<1>3. ReceiptInv => FailedReceiptUnretrievable
  BY DEF ReceiptInv
<1> QED
  BY <1>1, <1>2, <1>3, SafeInvariant, PTL DEF Spec

-------------------------------------------------------------------------------
(* Deletes.                                                                  *)

\* A process works for `delete` from the lookup of the record to the tombstone.
DeleteSteps == {"delete", "drop_tomb", "rename", "remove_dir", "tomb_create",
                "tomb_write", "tomb_rename"}
TombSteps == {"tomb_create", "tomb_write", "tomb_rename"}

\* No copy of a run is anywhere under a dot name.
Bare(r) == \A k \in Kinds : <<k, r>> \notin hidden

ErasedOK(p) ==
    /\ loc[p].op = "delete" => loc[p].run \in RunIds
    /\ loc[p].ret = "delete" => /\ loc[p].op = "delete"
                                /\ loc[p].cur = loc[p].run
                                /\ pc[p] \in DeleteSteps
    /\ pc[p] = "remove_dir" =>
          \A k \in Kinds : <<k, loc[p].cur>> \in hidden
                              => <<k, loc[p].cur>> = Aside(p)
    /\ pc[p] \in TombSteps /\ loc[p].ret = "delete" => Bare(loc[p].cur)
    /\ pc[p] = "idle" /\ loc[p].op = "delete" /\ result[p] = "removed"
         => /\ loc[p].run \notin Published /\ ~MayCome(loc[p].run)
            /\ Bare(loc[p].run)

\* A record is in one place only.
PlaceInv ==
    \A r \in RunIds :
        /\ r \in Published => Bare(r)
        /\ MayCome(r) => \A k \in Kinds \ {"tmp"} : <<k, r>> \notin hidden

ErasedInv == PlaceInv /\ \A p \in Procs : ErasedOK(p)

\* What a step does to the places a record can be in: a copy is staged only of a
\* run that may be published, hidden only when the record is taken away, and
\* published with nothing left behind.
Placed ==
    /\ \A k \in Kinds, r \in RunIds : <<k, r>> \in hidden' =>
          \/ <<k, r>> \in hidden
          \/ k = "tmp" /\ MayCome(r)
          \/ r \in Published /\ r \notin Published'
    /\ \A r \in RunIds : r \in Published' =>
          \/ r \in Published
          \/ MayCome(r) /\ ~MayCome(r)' /\ Bare(r)'
    /\ \A r \in RunIds : MayCome(r)' => MayCome(r)

\* The runs that others have erased stay so.
LEMMA ErasedKeeps ==
  ASSUME TypeInv, TypeInv', SafeInv, ErasedInv, NEW p \in Procs, Alone(p),
         \A q \in Procs \ {p} : result'[q] = result[q], Placed, ErasedOK(p)'
  PROVE  ErasedInv'
<1>1. \A r \in RunIds : MayCome(r) => r \notin Published
  BY DEF SafeInv, ComeInv
<1>2. PlaceInv'
  <2> SUFFICES ASSUME NEW r \in RunIds
               PROVE  /\ r \in Published' => Bare(r)'
                      /\ MayCome(r)' => \A k \in Kinds \ {"tmp"} :
                                           <<k, r>> \notin hidden'
    BY DEF PlaceInv
  <2>1. r \in Published' => Bare(r)'
    BY <1>1 DEF Placed, ErasedInv, PlaceInv, Bare
  <2>2. MayCome(r)' => \A k \in Kinds \ {"tmp"} : <<k, r>> \notin hidden'
    BY <1>1 DEF Placed, ErasedInv, PlaceInv
  <2> QED
    BY <2>1, <2>2
<1>3. \A r \in RunIds : r \notin Published /\ ~MayCome(r) =>
        /\ r \notin Published' /\ ~MayCome(r)'
        /\ \A k \in Kinds : <<k, r>> \in hidden' => <<k, r>> \in hidden
  BY DEF Placed
<1>4. ASSUME NEW q \in Procs \ {p}
      PROVE  ErasedOK(q)'
  <2>1. /\ pc'[q] = pc[q] /\ loc'[q] = loc[q] /\ result'[q] = result[q]
        /\ ErasedOK(q) /\ Aside(q)' = Aside(q)
    BY DEF Alone, ErasedInv, Aside, Deleting
  <2>2. ASSUME loc[q].cur \in RunIds,
               \/ pc[q] = "remove_dir"
               \/ pc[q] \in TombSteps /\ loc[q].ret = "delete"
        PROVE  loc[q].cur \notin Published /\ ~MayCome(loc[q].cur)
    <3>1. pc[q] \in Erasing /\ GoneOK(q)
      BY <2>2 DEF Erasing, TombSteps, SafeInv, GoneInv
    <3>2. loc[q].cur \notin Published
      BY <2>2, <3>1 DEF GoneOK, Deleting, TombSteps
    <3>3. Holds(q, loc[q].cur)
      BY <3>1 DEF Holds, Removal, Erasing
    <3> QED
      BY <2>2, <3>2, <3>3 DEF SafeInv, ComeInv
  <2>3. pc[q] = "remove_dir" =>
           \A k \in Kinds : <<k, loc[q].cur>> \in hidden'
                               => <<k, loc[q].cur>> = Aside(q)
    <3>1. \A k : <<k, loc[q].cur>> \in hidden' => loc[q].cur \in RunIds
      BY DEF TypeInv, DiskOK
    <3> QED
      BY <1>3, <2>1, <2>2, <3>1 DEF ErasedOK, Erasing
  <2>4. pc[q] \in TombSteps /\ loc[q].ret = "delete" => Bare(loc[q].cur)'
    BY <1>3, <2>1, <2>2 DEF ErasedOK, TombSteps, Erasing, Bare
  <2>5. pc[q] = "idle" /\ loc[q].op = "delete" /\ result[q] = "removed"
           => /\ loc[q].run \notin Published' /\ ~MayCome(loc[q].run)'
              /\ Bare(loc[q].run)'
    BY <1>3, <2>1 DEF ErasedOK, Bare
  <2> QED
    BY <2>1, <2>3, <2>4, <2>5 DEF ErasedOK, Bare
<1> QED
  BY <1>2, <1>4 DEF ErasedInv

\* A step answers for one process only.
LEMMA ResultAlone ==
  ASSUME NEW p \in Procs, TypeInv, Open(p) \/ Step(p) \/ IoFault(p) \/ Crash(p)
  PROVE  \A q \in Procs \ {p} : result'[q] = result[q]
<1>1. result \in [Procs -> Answers]
  BY DEF TypeInv, ControlOK
<1>2. ASSUME NEW a, Finish(p, a)
      PROVE  \A q \in Procs \ {p} : result'[q] = result[q]
  BY <1>1, <1>2 DEF Finish
<1>3. ASSUME NEW a, Return(p, a)
      PROVE  \A q \in Procs \ {p} : result'[q] = result[q]
  BY <1>2, <1>3 DEF Return, Goto
<1>4. CASE Open(p) \/ Crash(p)
  BY <1>1, <1>4 DEF Open, Crash
<1>5. CASE IoFault(p)
  BY <1>2, <1>5, SMTT(30) DEF IoFault, Fail, Abort, Goto
<1>6. CASE SweepStep(p) \/ UsageStep(p)
  BY <1>2, <1>6
  DEF SweepStep, SweepSkip, SweepExpire, SweepDone, UsageStep, StreamTooBig,
      UsageList, UsageLost, UsageStatus, UsageRoom, UsageSweep, UsageFull,
      Abort, Goto
<1>7. CASE RemoveStep(p) \/ CommitStep(p)
  BY <1>2, <1>3, <1>7
  DEF RemoveStep, ExpireFind, MoveAside, MoveAsideLost, RemoveDir, TombCreate,
      TombWrite, TombRename, TombRenameLost, CommitStep, Stage, WriteFiles,
      Publish, WriteLastRun, SyncRoot, Unstage, Unpublish, UnpublishGone,
      DropFailed, IndexTooBig, Fail, Abort, Goto
<1>8. CASE LookupStep(p) \/ PurgeStep(p)
  BY <1>2, <1>3, <1>8
  DEF LookupStep, ReportNothing, ReadTombstone, DropTombstone, FindRecord,
      ReadManifest, ReadData, ReadNothing, PurgeStep, DeleteFind, DeleteGone, PurgeList,
      PurgeRecord, PurgeListFiles, PurgeFile, PurgeUnreadable, PurgeDone,
      Abort, Goto
<1> QED
  BY <1>4, <1>5, <1>6, <1>7, <1>8 DEF Step

\* Where the steps that take nothing from a new run put its copies.
LEMMA StepPlaced ==
  ASSUME TypeInv, NEW p \in Procs, Step(p) \/ IoFault(p) \/ Crash(p),
         ~Publish(p), Moves(p), Tidy
  PROVE  Placed
<1>1. /\ records \in [RunIds -> Nat] /\ hidden \subseteq Kinds \X RunIds
      /\ \A r \in RunIds : r \in Published' => r \in Published
  BY DEF TypeInv, DiskOK, Tidy, Published
<1>2. \A r \in RunIds : MayCome(r)' => MayCome(r)
  <2>1. \A q \in Procs : Coming(q)' => Coming(q) /\ loc'[q].run = loc[q].run
    BY DEF Moves, Alone, Coming
  <2> QED
    BY <2>1 DEF Moves, MayCome
<1>3. CASE hidden' \subseteq hidden
  BY <1>1, <1>2, <1>3 DEF Placed
<1>4. CASE MoveAside(p)
  <2>1. /\ loc[p].cur \in Published /\ loc[p].cur \notin Published'
        /\ hidden' = hidden \cup {Aside(p)}
    BY <1>1, <1>4 DEF MoveAside, Published
  <2>2. \A k, r : <<k, r>> = Aside(p) => r = loc[p].cur
    BY DEF Aside
  <2> QED
    BY <1>1, <1>2, <2>1, <2>2 DEF Placed
<1>5. CASE Unpublish(p)
  <2>1. /\ loc[p].run \in Published /\ loc[p].run \notin Published'
        /\ hidden' = hidden \cup {<<"failed", loc[p].run>>}
    BY <1>1, <1>5 DEF Unpublish, Published
  <2> QED
    BY <1>1, <1>2, <2>1 DEF Placed
<1>6. CASE Stage(p)
  <2>1. MayCome(loc[p].run) /\ hidden' = hidden \cup {<<"tmp", loc[p].run>>}
    BY <1>6
    DEF Stage, MayCome, Coming, Past, TypeInv, CommitOK, CommitLabels
  <2> QED
    BY <1>1, <1>2, <2>1 DEF Placed
<1>7. hidden' \subseteq hidden \/ MoveAside(p) \/ Unpublish(p) \/ Stage(p)
  <2>1. CASE SweepStep(p) \/ UsageStep(p) \/ IoFault(p) \/ Crash(p)
    BY <2>1
    DEF SweepStep, SweepSkip, SweepExpire, SweepDone, UsageStep, StreamTooBig,
        UsageList, UsageLost, UsageStatus, UsageRoom, UsageSweep, UsageFull,
        IoFault, Crash, disk
  <2>2. CASE RemoveStep(p) \/ CommitStep(p)
    BY <2>2
    DEF RemoveStep, ExpireFind, MoveAsideLost, RemoveDir, TombCreate,
        TombWrite, TombRename, TombRenameLost, CommitStep, WriteFiles,
        WriteLastRun, SyncRoot, Unstage, UnpublishGone, DropFailed, IndexTooBig, disk
  <2>3. CASE LookupStep(p) \/ PurgeStep(p)
    BY <2>3
    DEF LookupStep, ReportNothing, ReadTombstone, DropTombstone, FindRecord,
        ReadManifest, ReadData, ReadNothing, PurgeStep, DeleteFind, DeleteGone, PurgeList,
        PurgeRecord, PurgeListFiles, PurgeFile, PurgeUnreadable, PurgeDone,
        disk
  <2> QED
    BY <2>1, <2>2, <2>3, SMTT(30) DEF Step
<1> QED
  BY <1>3, <1>4, <1>5, <1>6, <1>7

\* Publishing renames the staged copy, the only one there is.
LEMMA PublishPlaced ==
  ASSUME TypeInv, SafeInv, ErasedInv, NEW p \in Procs, Publish(p), Alone(p)
  PROVE  Placed
<1>0. PICK r : r = loc[p].run
  OBVIOUS
<1>1. /\ pc[p] = "publish" /\ pc'[p] = "last_run" /\ UNCHANGED <<loc, receipt>>
      /\ records' = [records EXCEPT ![r] = loc[p].now + TTL]
      /\ records \in [RunIds -> Nat] /\ hidden' = hidden \ {<<"tmp", r>>}
  BY <1>0 DEF Publish, Goto, TypeInv, ControlOK, DiskOK
<1>2. Coming(p) /\ ~Coming(p)' /\ r \in RunIds
  BY <1>0, <1>1 DEF TypeInv, CommitOK, CommitLabels, Coming, Past
<1>3. \A q \in Procs : Coming(q)' => Coming(q) /\ q # p
  BY <1>1, <1>2 DEF Alone, Coming
<1>4. MayCome(r) /\ \A x \in RunIds : MayCome(x)' => MayCome(x) /\ x # r
  BY <1>0, <1>1, <1>2, <1>3 DEF MayCome, SafeInv, DrawnInv
<1>5. Bare(r)'
  BY <1>1, <1>2, <1>4 DEF ErasedInv, PlaceInv, Bare
<1>6. \A x \in RunIds : x \in Published' => x = r \/ x \in Published
  BY <1>1 DEF Published
<1>7. ~MayCome(r)'
  BY <1>2, <1>4
<1> QED
  BY <1>1, <1>4, <1>5, <1>6, <1>7 DEF Placed

\* Opening puts nothing anywhere.
LEMMA OpenPlaced ==
  ASSUME TypeInv, NEW p \in Procs, Open(p), Alone(p)
  PROVE  /\ Placed /\ pc'[p] = "sweep" /\ loc'[p].ret = "sweep"
         /\ loc'[p].op = "delete" => loc'[p].run \in RunIds
<1> DEFINE Draws(o, r) ==
       /\ \E listing \in SweepListings :
             loc' = [loc EXCEPT ![p] = [Fresh EXCEPT !.op = o, !.run = r,
                                           !.now = clock, !.todo = listing]]
       /\ IF o = "commit" THEN receipt' = [receipt EXCEPT ![r] = "pending"]
          ELSE UNCHANGED receipt
<1>0. PICK o \in Ops : \E r \in Targets(o) : Draws(o, r)
  BY DEF Open
<1>1. PICK r \in Targets(o) : Draws(o, r)
  BY <1>0
<1>2. /\ pc'[p] = "sweep" /\ UNCHANGED <<records, hidden>>
      /\ loc \in [Procs -> Locals]
      /\ receipt \in [RunIds -> Answers \cup {"unused", "pending"}]
  BY DEF Open, disk, TypeInv, ControlOK
<1>3. loc'[p].op = o /\ loc'[p].run = r /\ loc'[p].ret = "sweep"
  BY <1>1, <1>2 DEF Fresh
<1>4. /\ o = "commit" => r \in RunIds /\ receipt[r] = "unused"
      /\ o = "delete" => r \in RunIds
  BY DEF Targets
<1>5. \A x \in RunIds : receipt'[x] = "unused" => receipt[x] = "unused"
  BY <1>1, <1>2
<1>6. \A q \in Procs \ {p} : Coming(q)' => Coming(q) /\ loc'[q] = loc[q]
  BY DEF Alone, Coming
<1>7. \A x \in RunIds : MayCome(x)' => MayCome(x)
  BY <1>3, <1>4, <1>5, <1>6 DEF MayCome, Coming
<1> QED
  BY <1>2, <1>3, <1>4, <1>7 DEF Placed, Published

\* What a process that has moved on, and not for a delete, has to show.
Plain(p) ==
    /\ pc'[p] \notin {"idle", "remove_dir"}
    /\ loc'[p].op = "delete" => loc'[p].run \in RunIds
    /\ loc'[p].ret # "delete"

\* Nothing more.
LEMMA PlainErased ==
  ASSUME NEW p \in Procs, Plain(p)
  PROVE  ErasedOK(p)'
  BY DEF Plain, ErasedOK, TombSteps

\* A process that goes on with the same variables stays on its way.
LEMMA SameErased ==
  ASSUME TypeInv, NEW p \in Procs, ErasedOK(p), NEW l, Goto(p, l),
         loc'[p].op = loc[p].op, loc'[p].run = loc[p].run,
         loc'[p].cur = loc[p].cur, loc'[p].ret = loc[p].ret,
         l \notin {"idle", "remove_dir"},
         pc[p] \in DeleteSteps => l \in DeleteSteps,
         l \in TombSteps /\ pc[p] \in DeleteSteps
            => hidden' \subseteq hidden /\ pc[p] \in TombSteps
  PROVE  ErasedOK(p)'
<1>1. pc'[p] = l
  BY DEF Goto, TypeInv, ControlOK
<1> QED
  BY <1>1 DEF ErasedOK, TombSteps, Bare

\* An answer: `removed` must be true.
LEMMA FinishErased ==
  ASSUME TypeInv, NEW p \in Procs, ErasedOK(p), NEW a, Finish(p, a),
         \A r \in RunIds :
            loc[p].op = "delete" /\ loc[p].run = r /\ a = "removed"
               => r \notin Published' /\ ~MayCome(r)' /\ Bare(r)'
  PROVE  ErasedOK(p)'
<1>1. /\ pc'[p] = "idle" /\ loc'[p].op = loc[p].op /\ loc'[p].run = loc[p].run
      /\ loc'[p].ret = "sweep" /\ result'[p] = a
  BY LocalsType DEF Finish, Fresh, TypeInv, ControlOK
<1>2. loc[p].op = "delete" => loc[p].run \in RunIds
  BY DEF ErasedOK
<1> QED
  BY <1>1, <1>2 DEF ErasedOK, TombSteps, MayCome, Bare

\* Going back to a loop, or answering.
LEMMA ReturnErased ==
  ASSUME TypeInv, NEW p \in Procs, ErasedOK(p), NEW a, Return(p, a),
         \A r \in RunIds :
            loc[p].op = "delete" /\ loc[p].run = r /\ a = "removed"
               => r \notin Published' /\ ~MayCome(r)' /\ Bare(r)'
  PROVE  ErasedOK(p)'
<1>1. CASE Finish(p, a)
  BY <1>1, FinishErased
<1>2. CASE /\ pc'[p] = loc[p].ret /\ loc[p].ret \in {"sweep", "purge"}
           /\ loc'[p].ret = loc[p].ret
           /\ loc'[p].op = loc[p].op /\ loc'[p].run = loc[p].run
  <2>1. Plain(p)
    BY <1>2 DEF Plain, ErasedOK
  <2> QED
    BY <2>1, PlainErased
<1> QED
  BY <1>1, <1>2, ReturnLocal

\* An answer other than `removed`.
LEMMA OtherErased ==
  ASSUME TypeInv, NEW p \in Procs, ErasedOK(p), NEW a, a # "removed",
         Finish(p, a) \/ Return(p, a)
  PROVE  ErasedOK(p)'
  BY FinishErased, ReturnErased

\* A removal: the record is moved aside from where its only copy was, that copy
\* is removed, and `removed` is answered after that.
LEMMA RemoveErased ==
  ASSUME TypeInv, SafeInv, ErasedInv, NEW p \in Procs, RemoveStep(p), Placed,
         Tidy
  PROVE  ErasedOK(p)'
<1>1. /\ loc \in [Procs -> Locals] /\ pc \in [Procs -> Labels]
      /\ ErasedOK(p) /\ records \in [RunIds -> Nat]
  BY DEF TypeInv, ControlOK, DiskOK, ErasedInv
<1>2. CASE ExpireFind(p)
  <2>1. /\ pc[p] = "expire" /\ UNCHANGED loc
        /\ pc'[p] \in {"rename", "tomb_create"}
    BY <1>1, <1>2 DEF ExpireFind, Goto
  <2>2. Plain(p)
    BY <1>1, <2>1 DEF Plain, ErasedOK, DeleteSteps
  <2> QED
    BY <2>2, PlainErased
<1>3. CASE MoveAside(p)
  <2>1. /\ pc[p] = "rename" /\ pc'[p] = "remove_dir" /\ UNCHANGED loc
        /\ loc[p].cur \in Published /\ hidden' = hidden \cup {Aside(p)}
        /\ Aside(p)' = Aside(p)
    BY <1>1, <1>3 DEF MoveAside, Goto, Aside, Deleting
  <2>2. Bare(loc[p].cur)
    BY <2>1 DEF Published, ErasedInv, PlaceInv
  <2>3. \A k \in Kinds : <<k, loc[p].cur>> \in hidden'
                            => <<k, loc[p].cur>> = Aside(p)
    BY <2>1, <2>2 DEF Bare
  <2> QED
    BY <1>1, <2>1, <2>3 DEF ErasedOK, DeleteSteps, TombSteps
<1>4. CASE MoveAsideLost(p) \/ TombRenameLost(p)
  BY <1>1, <1>4, OtherErased DEF MoveAsideLost, TombRenameLost, Abort
<1>5. CASE RemoveDir(p)
  <2>1. /\ pc[p] = "remove_dir" /\ pc'[p] = "tomb_create"
        /\ hidden' = hidden \ {Aside(p)}
        /\ loc'[p].op = loc[p].op /\ loc'[p].run = loc[p].run
        /\ loc'[p].cur = loc[p].cur /\ loc'[p].ret = loc[p].ret
    BY <1>1, <1>5 DEF RemoveDir, Goto, Locals
  <2>2. \A k \in Kinds : <<k, loc[p].cur>> \notin hidden'
    BY <1>1, <2>1 DEF ErasedOK
  <2> QED
    BY <1>1, <2>1, <2>2 DEF ErasedOK, DeleteSteps, TombSteps, Bare
<1>6. CASE TombCreate(p) \/ TombWrite(p)
  <2>1. /\ pc[p] \in {"tomb_create", "tomb_write"} /\ UNCHANGED <<loc, hidden>>
        /\ Goto(p, "tomb_write") \/ Goto(p, "tomb_rename")
    BY <1>6 DEF TombCreate, TombWrite
  <2> QED
    BY <1>1, <2>1, SameErased DEF TombSteps, DeleteSteps
<1>7. CASE TombRename(p)
  <2>1. /\ pc[p] = "tomb_rename" /\ UNCHANGED <<hidden, records>>
        /\ Return(p, IF Deleting(p) THEN "removed" ELSE "expired")
    BY <1>7 DEF TombRename
  <2>2. ASSUME NEW r \in RunIds, loc[p].op = "delete", loc[p].run = r,
               Deleting(p)
        PROVE  r \notin Published' /\ ~MayCome(r)' /\ Bare(r)'
    <3>1. loc[p].ret = "delete" /\ loc[p].cur = r /\ Bare(r)
      BY <1>1, <2>1, <2>2 DEF Deleting, ErasedOK, TombSteps
    <3>2. r \notin Published /\ ~MayCome(r)
      BY <2>1, <2>2, <3>1
      DEF SafeInv, GoneInv, GoneOK, ComeInv, Holds, Removal, Erasing
    <3> QED
      BY <2>1, <3>1, <3>2 DEF Placed, Bare, Published
  <2> QED
    BY <1>1, <2>1, <2>2, ReturnErased
<1> QED
  BY <1>2, <1>3, <1>4, <1>5, <1>6, <1>7 DEF RemoveStep

\* Sweeping, usage() and committing are not part of a delete.
LEMMA SweepErased ==
  ASSUME TypeInv, ErasedInv, NEW p \in Procs,
         SweepStep(p) \/ UsageStep(p) \/ CommitStep(p)
  PROVE  ErasedOK(p)'
<1>1. /\ loc \in [Procs -> Locals] /\ pc \in [Procs -> Labels] /\ ErasedOK(p)
  BY DEF TypeInv, ControlOK, ErasedInv
<1>2. loc[p].ret # "delete"
  <2>1. pc[p] \notin DeleteSteps
    BY DEF SweepStep, SweepSkip, SweepExpire, SweepDone, UsageStep,
           StreamTooBig, UsageList, UsageLost, UsageStatus, UsageRoom,
           UsageSweep, UsageFull, CommitStep, Stage, WriteFiles, Publish,
           WriteLastRun, SyncRoot, Unstage, Unpublish, UnpublishGone,
           DropFailed, IndexTooBig, DeleteSteps
  <2> QED
    BY <1>1, <2>1, SMTT(30) DEF ErasedOK
<1>3. CASE SweepDone(p)
  <2>1. /\ loc'[p].op = loc[p].op /\ loc'[p].run = loc[p].run
        /\ loc'[p].cur = loc[p].run /\ pc'[p] = AfterSweep(loc[p].op)
        /\ loc'[p].ret = IF loc[p].op = "delete" THEN "delete" ELSE "lookup"
    BY <1>1, <1>3 DEF SweepDone, Goto, Locals
  <2>2. /\ AfterSweep(loc[p].op) \in {"usage", "lookup", "delete", "purge_list"}
        /\ loc[p].op = "delete" => AfterSweep(loc[p].op) = "delete"
    BY DEF AfterSweep
  <2> QED
    BY <1>1, <2>1, <2>2 DEF ErasedOK, DeleteSteps, TombSteps
<1>4. CASE /\ loc'[p].op = loc[p].op /\ loc'[p].run = loc[p].run
           /\ loc'[p].ret # "delete" /\ pc'[p] \notin {"idle", "remove_dir"}
  <2>1. Plain(p)
    BY <1>1, <1>4 DEF Plain, ErasedOK
  <2> QED
    BY <2>1, PlainErased
<1>5. CASE \E a : a # "removed" /\ Finish(p, a)
  BY <1>1, <1>5, OtherErased
<1>6. CASE SweepSkip(p)
  BY <1>1, <1>2, <1>4, <1>6 DEF SweepSkip, Locals
<1>7. CASE SweepExpire(p)
  BY <1>1, <1>4, <1>7 DEF SweepExpire, Goto, Locals
<1>8. CASE UsageList(p) \/ UsageRoom(p)
  BY <1>1, <1>2, <1>4, <1>8 DEF UsageList, UsageRoom, Goto, Locals
<1>9. CASE UsageSweep(p)
  BY <1>1, <1>2, <1>4, <1>9 DEF UsageSweep, Goto, Locals
<1>10. CASE StreamTooBig(p) \/ UsageLost(p) \/ UsageStatus(p) \/ UsageFull(p)
  BY <1>5, <1>10 DEF StreamTooBig, UsageLost, UsageStatus, UsageFull, Abort
<1>11. CASE Stage(p) \/ Publish(p) \/ WriteLastRun(p) \/ Unpublish(p)
  BY <1>1, <1>2, <1>4, <1>11
  DEF Stage, Publish, WriteLastRun, Unpublish, Goto
<1>12. CASE WriteFiles(p)
  BY <1>1, <1>2, <1>4, <1>12 DEF WriteFiles, Goto, Locals
<1>13. CASE SyncRoot(p) \/ Unstage(p) \/ UnpublishGone(p) \/ DropFailed(p)
           \/ IndexTooBig(p)
  BY <1>5, <1>13 DEF SyncRoot, Unstage, UnpublishGone, DropFailed, IndexTooBig, Fail, Abort
<1> QED
  BY <1>3, <1>6, <1>7, <1>8, <1>9, <1>10, <1>11, <1>12, <1>13
  DEF SweepStep, UsageStep, CommitStep

\* Lookups answer `removed` no more than they delete.
LEMMA LookupErased ==
  ASSUME TypeInv, ErasedInv, NEW p \in Procs, LookupStep(p)
  PROVE  ErasedOK(p)'
<1>1. /\ loc \in [Procs -> Locals] /\ pc \in [Procs -> Labels] /\ ErasedOK(p)
  BY SMTT(30) DEF TypeInv, ControlOK, ErasedInv
<1>2. CASE ReadTombstone(p)
  <2>1. CASE \E a : a # "removed" /\ Finish(p, a)
    BY <1>1, <2>1, OtherErased
  <2>2. CASE /\ \E l \in {"find_record", "drop_tomb"} : Goto(p, l)
             /\ \E r \in RunIds \cup {NoRun} :
                   /\ r # NoRun
                   /\ loc' = [loc EXCEPT ![p].run = r, ![p].cur = r,
                                         ![p].now = clock]
    <3>1. /\ pc[p] = "lookup" /\ pc'[p] \in {"find_record", "drop_tomb"}
          /\ loc'[p].ret = loc[p].ret /\ loc'[p].run \in RunIds
      BY <1>1, <1>2, <2>2 DEF ReadTombstone, Goto, Locals
    <3>2. Plain(p)
      BY <1>1, <3>1 DEF Plain, ErasedOK, DeleteSteps
    <3> QED
      BY <3>2, PlainErased
  <2>3. LookupRun(p) \in RunIds \cup {NoRun}
    BY LocalsType DEF LookupRun, TypeInv, DiskOK
  <2> QED
    BY <1>2, <2>1, <2>2, <2>3 DEF ReadTombstone
<1>3. CASE DropTombstone(p)
  <2>1. CASE \E a : a # "removed" /\ Return(p, a)
    BY <1>1, <2>1, OtherErased
  <2>2. CASE /\ loc[p].ret = "lookup" /\ Goto(p, "find_record")
             /\ UNCHANGED loc
    <3>1. Plain(p)
      BY <1>1, <2>2 DEF Plain, Goto, ErasedOK
    <3> QED
      BY <3>1, PlainErased
  <2> QED
    BY <1>3, <2>1, <2>2 DEF DropTombstone
<1>4. CASE \E a : a # "removed" /\ Finish(p, a)
  BY <1>1, <1>4, OtherErased
<1>5. CASE /\ pc[p] \in {"find_record", "read_manifest"} /\ UNCHANGED loc
           /\ \E l \in {"read_manifest", "expire", "read_data"} : Goto(p, l)
  <2>1. Plain(p)
    BY <1>1, <1>5 DEF Plain, Goto, ErasedOK, DeleteSteps
  <2> QED
    BY <2>1, PlainErased
<1>6. CASE ReportNothing(p) \/ ReadData(p) \/ ReadNothing(p)
  BY <1>4, <1>6 DEF ReportNothing, ReadData, ReadNothing
<1>7. CASE FindRecord(p) \/ ReadManifest(p)
  BY <1>4, <1>5, <1>7 DEF FindRecord, ReadManifest
<1> QED
  BY <1>2, <1>3, <1>6, <1>7 DEF LookupStep

\* Deletes and purges, before they remove anything.
LEMMA PurgeErased ==
  ASSUME TypeInv, LocalInv, ErasedInv, NEW p \in Procs, PurgeStep(p)
  PROVE  ErasedOK(p)'
<1>1. /\ loc \in [Procs -> Locals] /\ pc \in [Procs -> Labels]
      /\ ErasedOK(p) /\ LocalOK(p)
  BY DEF TypeInv, ControlOK, ErasedInv, LocalInv
<1>2. CASE DeleteFind(p)
  BY <1>1, <1>2, SameErased DEF DeleteFind, DeleteSteps, TombSteps
<1>3. CASE DeleteGone(p)
  <2>1. CASE \E a : a # "removed" /\ Return(p, a)
    BY <1>1, <2>1, OtherErased
  <2>2. CASE Goto(p, "drop_tomb") /\ UNCHANGED loc
    BY <1>1, <2>2, SameErased DEF DeleteSteps, TombSteps
  <2> QED
    BY <1>3, <2>1, <2>2 DEF DeleteGone
<1>4. CASE /\ loc'[p].op = loc[p].op /\ loc'[p].run = loc[p].run
           /\ loc'[p].ret # "delete" /\ pc'[p] \notin {"idle", "remove_dir"}
  <2>1. Plain(p)
    BY <1>1, <1>4 DEF Plain, ErasedOK
  <2> QED
    BY <2>1, PlainErased
<1>5. CASE PurgeList(p)
  BY <1>1, <1>4, <1>5 DEF PurgeList, Goto, Locals
<1>6. CASE PurgeRecord(p)
  <2>1. /\ loc'[p].op = loc[p].op /\ loc'[p].run = loc[p].run
        /\ loc'[p].ret = loc[p].ret /\ loc[p].ret = "purge"
        /\ pc'[p] \in {"delete", "expire", "purge"}
    BY <1>1, <1>6 DEF PurgeRecord, Goto, Locals, LocalOK
  <2> QED
    BY <1>4, <2>1
<1>7. CASE PurgeListFiles(p)
  BY <1>1, <1>4, <1>7 DEF PurgeListFiles, Goto, Locals, LocalOK
<1>8. CASE PurgeFile(p)
  <2>1. /\ loc'[p].op = loc[p].op /\ loc'[p].run = loc[p].run
        /\ loc'[p].ret = loc[p].ret /\ pc'[p] = pc[p] /\ pc[p] = "purge_files"
    BY <1>1, <1>8 DEF PurgeFile, Locals
  <2> QED
    BY <1>1, <1>4, <2>1 DEF ErasedOK, DeleteSteps
<1>9. CASE PurgeUnreadable(p) \/ PurgeDone(p)
  BY <1>1, <1>9, OtherErased DEF PurgeUnreadable, PurgeDone, Abort
<1> QED
  BY <1>2, <1>3, <1>5, <1>6, <1>7, <1>8, <1>9 DEF PurgeStep

\* Errors and kills answer something else.
LEMMA FaultErased ==
  ASSUME TypeInv, ErasedInv, NEW p \in Procs, IoFault(p) \/ Crash(p)
  PROVE  ErasedOK(p)'
<1>1. /\ loc \in [Procs -> Locals] /\ pc \in [Procs -> Labels]
      /\ result \in [Procs -> Answers] /\ ErasedOK(p)
  BY DEF TypeInv, ControlOK, ErasedInv
<1>2. CASE Crash(p)
  <2>1. pc'[p] = "idle" /\ loc'[p].op = "none" /\ loc'[p].ret = "sweep"
    BY <1>1, <1>2 DEF Crash, Fresh
  <2> QED
    BY <2>1 DEF ErasedOK, TombSteps
<1>3. CASE IoFault(p)
  <2>1. CASE \E a : a # "removed" /\ Finish(p, a)
    BY <1>1, <2>1, OtherErased
  <2>2. CASE /\ pc[p] \notin DeleteSteps /\ UNCHANGED loc
             /\ Goto(p, "unstage") \/ Goto(p, "unpublish")
    <3>1. Plain(p)
      BY <1>1, <2>2 DEF Plain, Goto, ErasedOK
    <3> QED
      BY <3>1, PlainErased
  <2>3. CASE /\ pc[p] \in {"sweep", "purge"} /\ UNCHANGED pc
             /\ \E r \in loc[p].todo : loc' = [loc EXCEPT ![p].todo = @ \ {r}]
    <3>1. /\ loc'[p].op = loc[p].op /\ loc'[p].run = loc[p].run
          /\ loc'[p].ret = loc[p].ret
      BY <1>1, <2>3 DEF Locals
    <3>2. Plain(p)
      BY <1>1, <2>3, <3>1 DEF Plain, ErasedOK, DeleteSteps
    <3> QED
      BY <3>2, PlainErased
  <2>4. CASE pc[p] = "expire" /\ UNCHANGED loc /\ Goto(p, "tomb_create")
    <3>1. pc'[p] = "tomb_create" /\ loc' = loc /\ loc[p].ret # "delete"
      BY <1>1, <2>4 DEF Goto, ErasedOK, DeleteSteps
    <3> QED
      BY <1>1, <3>1 DEF ErasedOK, TombSteps
  <2> QED
    BY <1>3, <2>1, <2>2, <2>3, <2>4 DEF IoFault, Fail, Abort, DeleteSteps
<1> QED
  BY <1>2, <1>3

\* Every step keeps what was erased erased.
LEMMA ErasedNext ==
  Safe /\ Safe' /\ ErasedInv /\ [Next]_vars => ErasedInv'
<1> SUFFICES ASSUME Safe, Safe', ErasedInv, [Next]_vars
             PROVE  ErasedInv'
  OBVIOUS
<1>1. CASE Tick \/ UNCHANGED vars
  <2>1. UNCHANGED <<records, hidden, pc, loc, result, receipt>>
    BY <1>1 DEF Tick, vars, disk
  <2> QED
    BY <2>1
    DEF ErasedInv, PlaceInv, ErasedOK, Bare, Published, MayCome, Coming,
        Aside, Deleting
<1>2. ASSUME NEW p \in Procs, Open(p) \/ Step(p) \/ IoFault(p) \/ Crash(p)
      PROVE  ErasedInv'
  <2>1. /\ Alone(p) /\ TypeInv /\ LocalInv /\ SafeInv /\ TypeInv'
        /\ \A q \in Procs \ {p} : result'[q] = result[q]
    BY <1>2, StepLocal, ResultAlone DEF Safe
  <2>2. CASE Open(p)
    <3>1. Placed /\ Plain(p)
      BY <2>1, <2>2, OpenPlaced DEF Plain
    <3> QED
      BY <2>1, <3>1, PlainErased, ErasedKeeps
  <2>3. CASE Publish(p)
    <3>1. Placed /\ ErasedOK(p)'
      BY <2>1, <2>3, PublishPlaced, SweepErased DEF CommitStep
    <3> QED
      BY <2>1, <3>1, ErasedKeeps
  <2>4. CASE ~Open(p) /\ ~Publish(p)
    <3>1. Moves(p) /\ Tidy
      BY <1>2, <2>1, <2>4, SweepSound, RemoveSound, UsageSound, CommitSound,
         LookupSound, PurgeSound, FaultSound DEF Step
    <3>2. Placed
      BY <1>2, <2>1, <2>4, <3>1, StepPlaced
    <3>3. ErasedOK(p)'
      BY <1>2, <2>1, <2>4, <3>1, <3>2, SweepErased, RemoveErased,
         LookupErased, PurgeErased, FaultErased DEF Step
    <3> QED
      BY <2>1, <3>2, <3>3, ErasedKeeps
  <2> QED
    BY <2>2, <2>3, <2>4
<1> QED
  BY <1>1, <1>2 DEF Next

\* A delete that answers `removed` has left no copy of the body, staged,
\* published or moved aside, and none appears later, through every interleaving,
\* I/O error and kill.
THEOREM DeletedMeansErasedHolds == Spec => []DeletedMeansErased
<1>1. Init => ErasedInv
  <2> SUFFICES ASSUME Init PROVE ErasedInv
    OBVIOUS
  <2>1. /\ hidden = {} /\ Published = {}
        /\ \A p \in Procs : /\ pc[p] = "idle" /\ loc[p].op = "none"
                            /\ loc[p].ret = "sweep"
    BY DEF Init, Published, Fresh
  <2> QED
    BY <2>1 DEF ErasedInv, PlaceInv, ErasedOK, Bare, TombSteps
<1>2. ErasedInv => DeletedMeansErased
  BY DEF ErasedInv, ErasedOK, DeletedMeansErased, Bare, Published
<1> QED
  BY <1>1, <1>2, ErasedNext, SafeInvariant, PTL DEF Spec

-------------------------------------------------------------------------------
(* Leftovers.                                                                *)

\* Process p is at work on the dot-named directory of this kind and run.
Works(p, k, r) ==
    \/ /\ pc[p] \in {"write", "publish", "unstage"}
       /\ <<k, r>> = <<"tmp", loc[p].run>>
    \/ pc[p] = "drop_failed" /\ <<k, r>> = <<"failed", loc[p].run>>
    \/ pc[p] = "remove_dir" /\ <<k, r>> = Aside(p)

Writes(p, r) == pc[p] \in {"tomb_write", "tomb_rename"} /\ loc[p].cur = r

\* Without errors and kills, every directory and every temporary tombstone has
\* somebody who is about to remove or rename it.
OwnedInv ==
    faults = 0 /\ crashes = 0 =>
        /\ \A k \in Kinds, r \in RunIds :
              <<k, r>> \in hidden => \E p \in Procs : Works(p, k, r)
        /\ \A r \in RunIds, p \in Procs :
              tomb[<<r, p>>] # NoFile => Writes(p, r)

\* A step leaves behind only what its process is still at work on.
Tends(p) ==
    /\ \A k \in Kinds, r \in RunIds : <<k, r>> \in hidden' =>
          \/ Works(p, k, r)'
          \/ <<k, r>> \in hidden /\ ~Works(p, k, r)
    /\ \A r \in RunIds, q \in Procs : tomb'[<<r, q>>] # NoFile =>
          IF q = p THEN Writes(p, r)' ELSE tomb[<<r, q>>] # NoFile

\* Then nothing is ever left to nobody.
LEMMA TendsKeeps ==
  ASSUME TypeInv, OwnedInv, NEW p \in Procs, Alone(p), faults' = faults,
         crashes' = crashes, faults = 0 /\ crashes = 0 => Tends(p)
  PROVE  OwnedInv'
<1> SUFFICES ASSUME faults = 0, crashes = 0
             PROVE  /\ \A k \in Kinds, r \in RunIds :
                          <<k, r>> \in hidden'
                             => \E q \in Procs : Works(q, k, r)'
                    /\ \A r \in RunIds, q \in Procs :
                          tomb'[<<r, q>>] # NoFile => Writes(q, r)'
  BY DEF OwnedInv
<1>1. \A q \in Procs \ {p} : \A k, r : Works(q, k, r)' <=> Works(q, k, r)
  BY DEF Alone, Works, Aside, Deleting
<1>2. \A q \in Procs \ {p} : \A r : Writes(q, r)' <=> Writes(q, r)
  BY DEF Alone, Writes
<1>3. ASSUME NEW k \in Kinds, NEW r \in RunIds, <<k, r>> \in hidden'
      PROVE  \E q \in Procs : Works(q, k, r)'
  BY <1>1, <1>3 DEF Tends, OwnedInv
<1>4. ASSUME NEW r \in RunIds, NEW q \in Procs, tomb'[<<r, q>>] # NoFile
      PROVE  Writes(q, r)'
  BY <1>2, <1>4 DEF Tends, OwnedInv
<1> QED
  BY <1>3, <1>4

WorkSteps == {"write", "publish", "unstage", "drop_failed", "remove_dir",
              "tomb_write", "tomb_rename"}

\* A process that is at work on nothing leaves nothing.
LEMMA RestTends ==
  ASSUME OwnedInv, faults = 0, crashes = 0, NEW p \in Procs,
         pc[p] \notin WorkSteps, hidden' = hidden,
         \A r \in RunIds, q \in Procs :
            tomb'[<<r, q>>] # NoFile => tomb[<<r, q>>] # NoFile
  PROVE  Tends(p)
<1>1. \A k, r : ~Works(p, k, r) /\ ~Writes(p, r)
  BY DEF Works, Writes, WorkSteps
<1> QED
  BY <1>1 DEF Tends, OwnedInv

\* Nor does one that is at work and cleans up.
LEMMA WorkTends ==
  ASSUME TypeInv, OwnedInv, faults = 0, crashes = 0, NEW p \in Procs,
         Step(p), pc[p] \in WorkSteps
  PROVE  Tends(p)
<1>1. /\ loc \in [Procs -> Locals] /\ pc \in [Procs -> Labels]
      /\ tomb \in [Entries -> Files] /\ p # Final
      /\ \A r \in RunIds, q \in Procs : tomb[<<r, q>>] # NoFile => Writes(q, r)
  BY ProcsFinite DEF TypeInv, ControlOK, DiskOK, OwnedInv
<1>2. CASE WriteFiles(p)
  <2>1. /\ pc[p] = "write" /\ pc'[p] = "publish" /\ loc'[p].run = loc[p].run
        /\ UNCHANGED <<hidden, tomb>>
    BY <1>1, <1>2 DEF WriteFiles, Goto, Locals, disk
  <2>2. \A k, r : Works(p, k, r) => Works(p, k, r)'
    BY <2>1 DEF Works
  <2>3. \A r \in RunIds : tomb[<<r, p>>] = NoFile
    BY <1>1, <2>1 DEF Writes
  <2> QED
    BY <2>1, <2>2, <2>3 DEF Tends
<1>3. CASE Publish(p) \/ Unstage(p) \/ IndexTooBig(p)
  <2>1. /\ pc[p] \in {"write", "publish", "unstage"} /\ tomb' = tomb
        /\ hidden' = hidden \ {<<"tmp", loc[p].run>>}
    BY <1>3 DEF Publish, Unstage, IndexTooBig
  <2> QED
    BY <1>1, <2>1 DEF Tends, Works, Writes
<1>4. CASE DropFailed(p)
  <2>1. /\ pc[p] = "drop_failed" /\ tomb' = tomb
        /\ hidden' = hidden \ {<<"failed", loc[p].run>>}
    BY <1>4 DEF DropFailed
  <2> QED
    BY <1>1, <2>1 DEF Tends, Works, Writes
<1>5. CASE RemoveDir(p)
  <2>1. /\ pc[p] = "remove_dir" /\ tomb' = tomb
        /\ hidden' = hidden \ {Aside(p)}
    BY <1>5 DEF RemoveDir
  <2> QED
    BY <1>1, <2>1 DEF Tends, Works, Writes
<1>6. CASE TombWrite(p)
  <2>1. /\ pc[p] = "tomb_write" /\ pc'[p] = "tomb_rename" /\ loc' = loc
        /\ hidden' = hidden
        /\ \A r \in RunIds, q \in Procs :
              tomb'[<<r, q>>] # NoFile => tomb[<<r, q>>] # NoFile
    BY <1>1, <1>6 DEF TombWrite, Goto, Entries
  <2> QED
    BY <1>1, <2>1 DEF Tends, Works, Writes
<1>7. CASE TombRename(p)
  <2>1. /\ pc[p] = "tomb_rename" /\ hidden' = hidden
        /\ \A r \in RunIds, q \in Procs :
              tomb'[<<r, q>>] # NoFile =>
                 tomb[<<r, q>>] # NoFile /\ <<r, q>> # <<loc[p].cur, p>>
    BY <1>1, <1>7, ProcsFinite DEF TombRename, Entries
  <2>2. \A k, r : ~Works(p, k, r)
    BY <2>1 DEF Works
  <2>3. \A r \in RunIds : tomb'[<<r, p>>] = NoFile
    BY <1>1, <2>1 DEF Writes
  <2> QED
    BY <2>1, <2>2, <2>3 DEF Tends
<1>8. CASE TombRenameLost(p)
  <2>1. /\ pc[p] = "tomb_rename" /\ UNCHANGED <<hidden, tomb>>
        /\ tomb[<<loc[p].cur, p>>] = NoFile
    BY <1>8 DEF TombRenameLost, disk
  <2> QED
    BY <1>1, <2>1 DEF Tends, Works, Writes
<1>9. \/ WriteFiles(p) \/ Publish(p) \/ Unstage(p) \/ DropFailed(p) \/ IndexTooBig(p)
      \/ RemoveDir(p) \/ TombWrite(p) \/ TombRename(p) \/ TombRenameLost(p)
  <2>1. ~SweepStep(p) /\ ~UsageStep(p)
    BY DEF SweepStep, SweepSkip, SweepExpire, SweepDone, UsageStep,
           StreamTooBig, UsageList, UsageLost, UsageStatus, UsageRoom,
           UsageSweep, UsageFull, WorkSteps
  <2>2. ~LookupStep(p) /\ ~PurgeStep(p)
    BY DEF LookupStep, ReportNothing, ReadTombstone, DropTombstone,
           FindRecord, ReadManifest, ReadData, ReadNothing, PurgeStep, DeleteFind,
           DeleteGone, PurgeList, PurgeRecord, PurgeListFiles, PurgeFile,
           PurgeUnreadable, PurgeDone, WorkSteps
  <2> QED
    BY <2>1, <2>2, SMTT(30)
    DEF Step, RemoveStep, ExpireFind, MoveAside, MoveAsideLost, TombCreate,
        CommitStep, Stage, WriteLastRun, SyncRoot, Unpublish, UnpublishGone,
        WorkSteps
<1> QED
  BY <1>2, <1>3, <1>4, <1>5, <1>6, <1>7, <1>8, <1>9

\* What a process makes it is at work on from then.
LEMMA MakeTends ==
  ASSUME TypeInv, OwnedInv, faults = 0, crashes = 0, NEW p \in Procs,
         Stage(p) \/ Unpublish(p) \/ MoveAside(p) \/ TombCreate(p)
  PROVE  Tends(p)
<1>1. /\ pc \in [Procs -> Labels] /\ tomb \in [Entries -> Files]
      /\ \A k, r : ~Works(p, k, r) /\ ~Writes(p, r)
      /\ \A r \in RunIds, q \in Procs : tomb[<<r, q>>] # NoFile => Writes(q, r)
  BY DEF TypeInv, ControlOK, DiskOK, OwnedInv, Works, Writes, Stage, Unpublish,
         MoveAside, TombCreate
<1>2. CASE Stage(p)
  <2>1. /\ pc'[p] = "write" /\ loc' = loc /\ tomb' = tomb
        /\ hidden' = hidden \cup {<<"tmp", loc[p].run>>}
    BY <1>1, <1>2 DEF Stage, Goto
  <2> QED
    BY <1>1, <2>1 DEF Tends, Works
<1>3. CASE Unpublish(p)
  <2>1. /\ pc'[p] = "drop_failed" /\ loc' = loc /\ tomb' = tomb
        /\ hidden' = hidden \cup {<<"failed", loc[p].run>>}
    BY <1>1, <1>3 DEF Unpublish, Goto
  <2> QED
    BY <1>1, <2>1 DEF Tends, Works
<1>4. CASE MoveAside(p)
  <2>1. /\ pc'[p] = "remove_dir" /\ tomb' = tomb /\ Aside(p)' = Aside(p)
        /\ hidden' = hidden \cup {Aside(p)}
    BY <1>1, <1>4 DEF MoveAside, Goto, Aside, Deleting
  <2> QED
    BY <1>1, <2>1 DEF Tends, Works
<1>5. CASE TombCreate(p)
  <2>1. /\ pc'[p] = "tomb_write" /\ loc' = loc /\ hidden' = hidden
        /\ \A r \in RunIds, q \in Procs : <<r, q>> # <<loc[p].cur, p>>
              => tomb'[<<r, q>>] = tomb[<<r, q>>]
    BY <1>1, <1>5 DEF TombCreate, Goto, Entries
  <2> QED
    BY <1>1, <2>1 DEF Tends, Works, Writes
<1> QED
  BY <1>2, <1>3, <1>4, <1>5

\* Every other step puts nothing on disk but under its final name.
LEMMA OtherTends ==
  ASSUME TypeInv, OwnedInv, faults = 0, crashes = 0, NEW p \in Procs,
         Open(p) \/ Step(p), pc[p] \notin WorkSteps,
         ~Stage(p), ~Unpublish(p), ~MoveAside(p), ~TombCreate(p)
  PROVE  Tends(p)
<1>1. tomb \in [Entries -> Files] /\ p # Final /\ Final \notin Procs
  BY ProcsFinite, SMTT(30) DEF TypeInv, DiskOK
<1>2. CASE Open(p) \/ SweepStep(p) \/ UsageStep(p)
  BY <1>2, RestTends
  DEF Open, SweepStep, SweepSkip, SweepExpire, SweepDone, UsageStep,
      StreamTooBig, UsageList, UsageLost, UsageStatus, UsageRoom, UsageSweep,
      UsageFull, disk
<1>3. CASE RemoveStep(p) \/ CommitStep(p)
  <2>1. hidden' = hidden /\ tomb' = tomb
    BY <1>3
    DEF RemoveStep, ExpireFind, MoveAsideLost, RemoveDir, TombWrite,
        TombRename, TombRenameLost, CommitStep, WriteFiles, Publish,
        WriteLastRun, SyncRoot, Unstage, UnpublishGone, DropFailed, IndexTooBig, disk,
        WorkSteps
  <2> QED
    BY <2>1, RestTends
<1>4. CASE LookupStep(p)
  <2>1. /\ hidden' = hidden
        /\ tomb' = tomb
           \/ tomb' = [tomb EXCEPT ![<<loc[p].cur, Final>>] = NoFile]
    BY <1>4
    DEF LookupStep, ReportNothing, ReadTombstone, DropTombstone, FindRecord,
        ReadManifest, ReadData, ReadNothing, disk
  <2>2. \A r \in RunIds, q \in Procs :
           tomb'[<<r, q>>] # NoFile => tomb[<<r, q>>] # NoFile
    BY <1>1, <2>1 DEF Entries
  <2> QED
    BY <2>1, <2>2, RestTends
<1>5. CASE PurgeStep(p)
  <2>1. /\ hidden' = hidden
        /\ \/ tomb' = tomb
           \/ \E e \in Entries : tomb' = [tomb EXCEPT ![e] = NoFile]
    BY <1>5, LocalsType
    DEF PurgeStep, DeleteFind, DeleteGone, PurgeList, PurgeRecord,
        PurgeListFiles, PurgeFile, PurgeUnreadable, PurgeDone, disk, TypeInv
  <2>2. \A r \in RunIds, q \in Procs :
           tomb'[<<r, q>>] # NoFile => tomb[<<r, q>>] # NoFile
    BY <1>1, <2>1 DEF Entries
  <2> QED
    BY <2>1, <2>2, RestTends
<1> QED
  BY <1>2, <1>3, <1>4, <1>5 DEF Step

\* Every step keeps the owners.
LEMMA OwnedNext == Safe /\ OwnedInv /\ [Next]_vars => OwnedInv'
<1> SUFFICES ASSUME Safe, OwnedInv, [Next]_vars PROVE OwnedInv'
  OBVIOUS
<1>1. CASE Tick \/ UNCHANGED vars
  <2>1. UNCHANGED <<hidden, tomb, pc, loc, faults, crashes>>
    BY <1>1 DEF Tick, vars, disk
  <2> QED
    BY <2>1 DEF OwnedInv, Works, Writes, Aside, Deleting
<1>2. ASSUME NEW p \in Procs, IoFault(p) \/ Crash(p)
      PROVE  OwnedInv'
  <2>1. faults' # 0 \/ crashes' # 0
    BY <1>2 DEF IoFault, Crash, Safe, TypeInv, WorldOK
  <2> QED
    BY <2>1 DEF OwnedInv
<1>3. ASSUME NEW p \in Procs, Open(p) \/ Step(p)
      PROVE  OwnedInv'
  <2>1. Alone(p) /\ TypeInv
    BY <1>3, StepLocal DEF Safe
  <2>2. faults' = faults /\ crashes' = crashes
    BY <1>3, StepWorld DEF Open, world
  <2>3. ASSUME faults = 0, crashes = 0
        PROVE  Tends(p)
    <3>1. pc[p] \in WorkSteps => ~Open(p)
      BY DEF Open, WorkSteps
    <3> QED
      BY <1>3, <2>1, <2>3, <3>1, WorkTends, MakeTends, OtherTends
  <2> QED
    BY <2>1, <2>2, <2>3, TendsKeeps
<1> QED
  BY <1>1, <1>2, <1>3 DEF Next

\* Without I/O errors and kills, whatever the interleaving, processes that have
\* all finished leave no dot-named directory and no temporary tombstone.
THEOREM NoLeftoversHolds == Spec => []NoLeftovers
<1>1. Init => OwnedInv
  BY DEF Init, OwnedInv, Entries
<1>2. Safe /\ OwnedInv => NoLeftovers
  <2> SUFFICES ASSUME Safe, OwnedInv, faults = 0, crashes = 0,
                      \A p \in Procs : pc[p] = "idle"
               PROVE  /\ hidden = {}
                      /\ \A e \in Entries : tomb[e] # NoFile => e[2] = Final
    BY DEF NoLeftovers
  <2>1. hidden = {}
    BY DEF OwnedInv, Works, Safe, TypeInv, DiskOK
  <2>2. ASSUME NEW r \in RunIds, NEW w \in Procs, tomb[<<r, w>>] # NoFile
        PROVE  FALSE
    BY <2>2 DEF OwnedInv, Writes
  <2> QED
    BY <2>1, <2>2 DEF Entries
<1> QED
  BY <1>1, <1>2, OwnedNext, SafeInvariant, PTL DEF Spec
-------------------------------------------------------------------------------
(* A process that is alone.                                                  *)

Watched == Removal \cup {"usage_read", "read_manifest", "read_data", "unstage",
                         "unpublish", "drop_failed"}

\* What a process found it finds again, and none of its errors is a surprise.
LoneOK(p) ==
    /\ pc[p] \notin {"unstage", "unpublish", "drop_failed"}
    /\ pc[p] \in Removal => loc[p].cur \in RunIds
    /\ pc[p] = "rename" => loc[p].cur \in Published
    /\ pc[p] \in {"tomb_write", "tomb_rename"}
         => tomb[<<loc[p].cur, p>>] # NoFile
    /\ pc[p] = "usage_read" => loc[p].todo \subseteq Published
    /\ pc[p] = "read_manifest" => loc[p].run \in RunIds
    /\ pc[p] = "read_data" => loc[p].run \in Published
    /\ result[p] = "storage_error" => loc[p].op = "purge_expired"

LoneInv == faults = 0 => \A p \in Procs : LoneOK(p)

\* A step to a place where nothing has to be found again.
LEMMA PlainLone ==
  ASSUME NEW p \in Procs, pc'[p] \notin Watched,
         result'[p] = "storage_error" => loc'[p].op = "purge_expired"
  PROVE  LoneOK(p)'
  BY DEF LoneOK, Watched, Removal

LEMMA FinishLone ==
  ASSUME TypeInv, NEW p \in Procs, NEW a, Finish(p, a),
         a = "storage_error" => loc[p].op = "purge_expired"
  PROVE  LoneOK(p)'
<1>1. pc'[p] = "idle" /\ loc'[p].op = loc[p].op
  BY FinishLocal
<1>2. result'[p] = a
  BY DEF Finish, TypeInv, ControlOK
<1> QED
  BY <1>1, <1>2, PlainLone DEF Watched, Removal

LEMMA ReturnLone ==
  ASSUME TypeInv, NEW p \in Procs, LoneOK(p), NEW a, Return(p, a),
         a # "storage_error"
  PROVE  LoneOK(p)'
<1>1. CASE loc[p].ret \in {"lookup", "delete"}
  BY <1>1, FinishLone DEF Return
<1>2. CASE loc[p].ret \in {"sweep", "purge"}
  <2>1. pc'[p] = loc[p].ret /\ result' = result /\ loc'[p].op = loc[p].op
    BY <1>2 DEF Return, Goto, TypeInv, ControlOK, Locals
  <2> QED
    BY <1>2, <2>1, PlainLone DEF LoneOK, Watched, Removal
<1> QED
  BY <1>1, <1>2, LocalsType DEF TypeInv

\* A step that goes on with the same operation.
LEMMA GotoLone ==
  ASSUME TypeInv, NEW p \in Procs, LoneOK(p), NEW label, Goto(p, label),
         label \notin Watched, loc'[p].op = loc[p].op
  PROVE  LoneOK(p)'
<1>1. pc'[p] = label /\ result' = result
  BY DEF Goto, TypeInv, ControlOK
<1> QED
  BY <1>1, PlainLone DEF LoneOK

LEMMA SweepLone ==
  ASSUME TypeInv, NEW p \in Procs, LoneOK(p), SweepStep(p)
  PROVE  LoneOK(p)'
<1>1. /\ loc \in [Procs -> Locals] /\ pc \in [Procs -> Labels]
      /\ loc[p].todo \subseteq RunIds
  BY LocalsType DEF TypeInv, ControlOK
<1>2. CASE SweepSkip(p)
  <2>1. pc'[p] = "sweep" /\ result' = result /\ loc'[p].op = loc[p].op
    BY <1>1, <1>2 DEF SweepSkip, Locals
  <2> QED
    BY <2>1, PlainLone DEF LoneOK, Watched, Removal
<1>3. CASE SweepExpire(p)
  <2>1. /\ pc'[p] = "expire" /\ result' = result /\ loc'[p].op = loc[p].op
        /\ loc'[p].cur \in RunIds
    BY <1>1, <1>3 DEF SweepExpire, Goto, Locals
  <2> QED
    BY <2>1 DEF LoneOK, Removal
<1>4. CASE SweepDone(p)
  <2>1. loc'[p].op = loc[p].op /\ Goto(p, AfterSweep(loc[p].op))
    BY <1>1, <1>4 DEF SweepDone, Locals
  <2>2. AfterSweep(loc[p].op) \notin Watched
    BY DEF AfterSweep, Watched, Removal
  <2> QED
    BY <2>1, <2>2, GotoLone
<1> QED
  BY <1>2, <1>3, <1>4 DEF SweepStep, SweepSkip

\* The removal of a record that nobody else removes.
LEMMA RemoveLone ==
  ASSUME TypeInv, NEW p \in Procs, LoneOK(p), RemoveStep(p)
  PROVE  LoneOK(p)'
<1>1. /\ loc \in [Procs -> Locals] /\ pc \in [Procs -> Labels]
      /\ tomb \in [Entries -> Files]
  BY DEF TypeInv, ControlOK, DiskOK
<1>2. pc[p] \in Removal /\ loc[p].cur \in RunIds
  BY DEF LoneOK, RemoveStep, ExpireFind, MoveAside, MoveAsideLost, RemoveDir,
         TombCreate, TombWrite, TombRename, TombRenameLost, Removal
<1>3. <<loc[p].cur, p>> \in Entries
  BY <1>2 DEF Entries
<1>4. CASE ExpireFind(p)
  BY <1>1, <1>2, <1>4 DEF ExpireFind, Goto, LoneOK, disk, Published
<1>5. CASE MoveAside(p)
  BY <1>1, <1>2, <1>5 DEF MoveAside, Goto, LoneOK
<1>6. CASE RemoveDir(p)
  <2>1. loc'[p].cur = loc[p].cur /\ loc'[p].op = loc[p].op
    BY <1>1, <1>6 DEF RemoveDir, Locals
  <2> QED
    BY <1>1, <1>2, <1>6, <2>1 DEF RemoveDir, Goto, LoneOK
<1>7. CASE TombCreate(p)
  <2>1. tomb'[<<loc[p].cur, p>>] = Partial
    BY <1>1, <1>3, <1>7 DEF TombCreate
  <2>2. Partial # NoFile
    BY DEF Partial, NoFile
  <2> QED
    BY <1>1, <1>2, <1>7, <2>1, <2>2 DEF TombCreate, Goto, LoneOK
<1>8. CASE TombWrite(p)
  <2>1. tomb[<<loc[p].cur, p>>] # NoFile
    BY <1>8 DEF TombWrite, LoneOK
  <2>2. tomb'[<<loc[p].cur, p>>] # NoFile
    BY <1>1, <1>3, <1>8, <2>1 DEF TombWrite, NoFile
  <2> QED
    BY <1>1, <1>2, <1>8, <2>2 DEF TombWrite, Goto, LoneOK
<1>9. CASE TombRename(p)
  BY <1>9, ReturnLone DEF TombRename
<1>10. ~MoveAsideLost(p) /\ ~TombRenameLost(p)
  BY DEF LoneOK, MoveAsideLost, TombRenameLost
<1> QED
  BY <1>4, <1>5, <1>6, <1>7, <1>8, <1>9, <1>10 DEF RemoveStep

LEMMA UsageLone ==
  ASSUME TypeInv, NEW p \in Procs, LoneOK(p), UsageStep(p)
  PROVE  LoneOK(p)'
<1>1. /\ loc \in [Procs -> Locals] /\ pc \in [Procs -> Labels]
  BY DEF TypeInv, ControlOK
<1>2. CASE StreamTooBig(p) \/ UsageStatus(p) \/ UsageFull(p)
  BY <1>2, FinishLone DEF StreamTooBig, UsageStatus, UsageFull
<1>3. CASE UsageList(p)
  <2>1. /\ pc'[p] = "usage_read" /\ result' = result /\ loc'[p].op = loc[p].op
        /\ loc'[p].todo = Published /\ records' = records
    BY <1>1, <1>3 DEF UsageList, Goto, Locals, disk
  <2> QED
    BY <2>1 DEF LoneOK, Removal, Published
<1>4. CASE UsageRoom(p)
  <2>1. loc'[p].op = loc[p].op /\ Goto(p, "stage")
    BY <1>1, <1>4 DEF UsageRoom, Locals
  <2> QED
    BY <2>1, GotoLone DEF Watched, Removal
<1>5. CASE UsageSweep(p)
  <2>1. loc'[p].op = loc[p].op /\ Goto(p, "sweep")
    BY <1>1, <1>5 DEF UsageSweep, Locals
  <2> QED
    BY <2>1, GotoLone DEF Watched, Removal
<1>6. ~UsageLost(p)
  BY DEF LoneOK, UsageLost
<1> QED
  BY <1>2, <1>3, <1>4, <1>5, <1>6 DEF UsageStep

LEMMA CommitLone ==
  ASSUME TypeInv, NEW p \in Procs, LoneOK(p), CommitStep(p)
  PROVE  LoneOK(p)'
<1>1. loc \in [Procs -> Locals]
  BY DEF TypeInv, ControlOK
<1>2. CASE Stage(p) \/ Publish(p) \/ WriteLastRun(p)
  BY <1>2, GotoLone DEF Stage, Publish, WriteLastRun, Watched, Removal
<1>3. CASE WriteFiles(p)
  <2>1. loc'[p].op = loc[p].op /\ Goto(p, "publish")
    BY <1>1, <1>3 DEF WriteFiles, Locals
  <2> QED
    BY <2>1, GotoLone DEF Watched, Removal
<1>4. CASE SyncRoot(p) \/ IndexTooBig(p)
  BY <1>4, FinishLone DEF SyncRoot, IndexTooBig
<1>5. ~(Unstage(p) \/ Unpublish(p) \/ UnpublishGone(p) \/ DropFailed(p))
  BY DEF LoneOK, Unstage, Unpublish, UnpublishGone, DropFailed
<1> QED
  BY <1>2, <1>3, <1>4, <1>5 DEF CommitStep

LEMMA LookupLone ==
  ASSUME TypeInv, LocalInv, NEW p \in Procs, LoneOK(p), LookupStep(p)
  PROVE  LoneOK(p)'
<1>1. /\ loc \in [Procs -> Locals] /\ pc \in [Procs -> Labels]
  BY DEF TypeInv, ControlOK
<1>2. CASE ReportNothing(p)
  BY <1>2, FinishLone DEF ReportNothing
<1>3. CASE ReadTombstone(p)
  <2> DEFINE r == LookupRun(p)
             f == tomb[<<r, Final>>]
  <2>1. \/ f.state \in {"expired", "deleted"} /\ Finish(p, f.state)
        \/ /\ loc' = [loc EXCEPT ![p].run = r, ![p].cur = r, ![p].now = clock]
           /\ Goto(p, IF f.state = "none" THEN "find_record" ELSE "drop_tomb")
    BY <1>3 DEF ReadTombstone
  <2> HIDE DEF r, f
  <2>2. loc' = [loc EXCEPT ![p].run = r, ![p].cur = r, ![p].now = clock]
           => loc'[p].op = loc[p].op
    BY <1>1 DEF Locals
  <2>3. (IF f.state = "none" THEN "find_record" ELSE "drop_tomb") \notin Watched
    BY DEF Watched, Removal
  <2> QED
    BY <2>1, <2>2, <2>3, FinishLone, GotoLone
<1>4. CASE DropTombstone(p)
  BY <1>4, ReturnLone, GotoLone DEF DropTombstone, Watched, Removal
<1>5. CASE FindRecord(p)
  <2>1. CASE Finish(p, "not_found")
    BY <2>1, FinishLone
  <2>2. CASE loc[p].run \in Published /\ Goto(p, "read_manifest")
             /\ UNCHANGED loc
    BY <1>1, <2>2 DEF Goto, LoneOK, Removal, Published
  <2> QED
    BY <1>5, <2>1, <2>2 DEF FindRecord
<1>6. CASE ReadManifest(p)
  <2>1. CASE Finish(p, "corrupt") \/ Finish(p, "active")
    BY <2>1, FinishLone
  <2>2. CASE Goto(p, "expire") /\ UNCHANGED loc
    <3>1. loc[p].cur = loc[p].run /\ loc[p].run \in RunIds
      BY <1>6 DEF ReadManifest, LoneOK, LocalInv, LocalOK
    <3> QED
      BY <1>1, <2>2, <3>1 DEF Goto, LoneOK, Removal
  <2>3. CASE loc[p].run \in Published /\ Goto(p, "read_data") /\ UNCHANGED loc
    <3>1. Published' = Published
      BY <1>6 DEF ReadManifest, disk, Published
    <3> QED
      BY <1>1, <2>3, <3>1 DEF Goto, LoneOK, Removal
  <2> QED
    BY <1>6, <2>1, <2>2, <2>3 DEF ReadManifest
<1>7. CASE ReadData(p)
  <2>1. Finish(p, "active")
    BY <1>7 DEF ReadData, LoneOK
  <2> QED
    BY <2>1, FinishLone
<1>8. CASE ReadNothing(p)
  BY <1>8, FinishLone DEF ReadNothing
<1> QED
  BY <1>2, <1>3, <1>4, <1>5, <1>6, <1>7, <1>8 DEF LookupStep

LEMMA PurgeLone ==
  ASSUME TypeInv, NEW p \in Procs, LoneOK(p), PurgeStep(p)
  PROVE  LoneOK(p)'
<1>1. /\ loc \in [Procs -> Locals] /\ pc \in [Procs -> Labels]
      /\ loc[p].todo \subseteq RunIds
  BY LocalsType DEF TypeInv, ControlOK
<1>2. CASE DeleteFind(p)
  <2>1. Published' = Published /\ loc[p].cur \in RunIds
    BY <1>2 DEF DeleteFind, disk, Published
  <2> QED
    BY <1>1, <1>2, <2>1 DEF DeleteFind, Goto, LoneOK
<1>3. CASE DeleteGone(p)
  BY <1>3, ReturnLone, GotoLone DEF DeleteGone, Watched, Removal
<1>4. CASE PurgeList(p)
  <2>1. loc'[p].op = loc[p].op /\ Goto(p, "purge")
    BY <1>1, <1>4 DEF PurgeList, Locals
  <2> QED
    BY <2>1, GotoLone DEF Watched, Removal
<1>5. CASE PurgeRecord(p)
  <2>1. PICK r \in loc[p].todo :
           \/ loc' = [loc EXCEPT ![p].cur = r] /\ Goto(p, "delete")
           \/ loc' = [loc EXCEPT ![p].cur = r] /\ Goto(p, "expire")
           \/ loc' = [loc EXCEPT ![p].todo = @ \ {r}] /\ Goto(p, "purge")
    BY <1>5 DEF PurgeRecord
  <2>2. loc'[p].op = loc[p].op
    BY <1>1, <2>1 DEF Locals
  <2>3. CASE Goto(p, "delete") \/ Goto(p, "purge")
    BY <2>2, <2>3, GotoLone DEF Watched, Removal
  <2>4. CASE loc' = [loc EXCEPT ![p].cur = r] /\ Goto(p, "expire")
    <3>1. loc'[p].cur \in RunIds /\ pc'[p] = "expire" /\ result' = result
      BY <1>1, <2>1, <2>4 DEF Goto, Locals
    <3> QED
      BY <2>2, <3>1 DEF LoneOK, Removal
  <2> QED
    BY <2>1, <2>3, <2>4
<1>6. CASE PurgeListFiles(p)
  <2>1. loc'[p].op = loc[p].op /\ Goto(p, "purge_files")
    BY <1>1, <1>6 DEF PurgeListFiles, Locals
  <2> QED
    BY <2>1, GotoLone DEF Watched, Removal
<1>7. CASE PurgeFile(p)
  <2>1. pc'[p] = "purge_files" /\ result' = result /\ loc'[p].op = loc[p].op
    BY <1>1, <1>7 DEF PurgeFile, Locals
  <2> QED
    BY <2>1, PlainLone DEF LoneOK, Watched, Removal
<1>8. CASE PurgeUnreadable(p) \/ PurgeDone(p)
  BY <1>8, FinishLone DEF PurgeUnreadable, PurgeDone, Abort
<1> QED
  BY <1>2, <1>3, <1>4, <1>5, <1>6, <1>7, <1>8 DEF PurgeStep

LEMMA LoneNext ==
  ASSUME TypeInv, LocalInv, LoneInv, NEW p \in Procs, Procs = {p},
         [Next]_vars
  PROVE  LoneInv'
<1>1. SUFFICES ASSUME faults' = 0
               PROVE  LoneOK(p)'
  BY DEF LoneInv
<1>2. faults \in Nat /\ loc \in [Procs -> Locals] /\ pc \in [Procs -> Labels]
      /\ result \in [Procs -> Answers]
  BY DEF TypeInv, WorldOK, ControlOK
<1>3. CASE UNCHANGED vars
  BY <1>1, <1>3 DEF vars, LoneInv, LoneOK, Published
<1>4. CASE Tick
  BY <1>1, <1>4 DEF Tick, disk, LoneInv, LoneOK, Published
<1>5. CASE Open(p)
  <2>1. pc'[p] = "sweep" /\ result'[p] = "none"
    BY <1>2, <1>5 DEF Open
  <2> QED
    BY <2>1, PlainLone DEF Watched, Removal
<1>6. CASE Crash(p)
  <2>1. pc'[p] = "idle" /\ result'[p] = "killed"
    BY <1>2, <1>6 DEF Crash
  <2> QED
    BY <2>1, PlainLone DEF Watched, Removal
<1>7. ~IoFault(p)
  BY <1>1, <1>2 DEF IoFault
<1>8. CASE Step(p)
  <2>1. faults' = faults
    BY <1>8, StepWorld DEF world
  <2>2. LoneOK(p)
    BY <1>1, <2>1 DEF LoneInv
  <2> QED
    BY <1>8, <2>2, SweepLone, RemoveLone, UsageLone, CommitLone, LookupLone,
       PurgeLone DEF Step
<1> QED
  BY <1>3, <1>4, <1>5, <1>6, <1>7, <1>8 DEF Next

\* Kills at any points of any operations, as many as one likes, leave nothing that
\* makes an operation of a process that runs alone fail, but for the half of a
\* tombstone that purge --expired cannot parse.
THEOREM LoneProcessesSucceedHold == Spec => []LoneProcessesSucceed
<1>1. CASE Cardinality(Procs) = 1
  <2>1. PICK p \in Procs : Procs = {p}
    <3>1. PICK q : Procs = {q}
      BY <1>1, ProcsFinite, FS_Singleton
    <3> QED
      BY <3>1
  <2>2. Init => LoneInv
    BY DEF Init, LoneInv, LoneOK, Removal
  <2>3. Safe /\ LoneInv /\ [Next]_vars => LoneInv'
    BY <2>1, LoneNext DEF Safe
  <2>4. LoneInv => LoneProcessesSucceed
    BY DEF LoneInv, LoneOK, LoneProcessesSucceed
  <2> QED
    BY <2>2, <2>3, <2>4, SafeInvariant, PTL DEF Spec
<1>2. CASE Cardinality(Procs) # 1
  <2>1. LoneProcessesSucceed
    BY <1>2 DEF LoneProcessesSucceed
  <2> QED
    BY <2>1, PTL
<1> QED
  BY <1>1, <1>2
===============================================================================
