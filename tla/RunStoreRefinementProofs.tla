----------------------- MODULE RunStoreRefinementProofs -----------------------
(***************************************************************************)
(* RunStore implements RunLifecycle, for every number of processes, runs   *)
(* and kills, as long as at most one file-system step fails.               *)
(***************************************************************************)
EXTENDS RunStoreRefinement, RunStoreSafetyProofs

(* Where a process can be.                                                   *)

CommitPath == {"idle", "sweep", "usage", "usage_read"} \cup CommitLabels
                 \cup Removal

\* Only sweeps take a commit into a removal, a lookup removes what it looks up,
\* and a report has no run before its lookup names one.
PathOK(p) ==
    /\ loc[p].op = "commit" => pc[p] \in CommitPath
    /\ pc[p] \in Removal =>
          /\ loc[p].op = "commit" => loc[p].ret = "sweep"
          /\ loc[p].ret = "lookup" => loc[p].cur = loc[p].run
          /\ loc[p].op = "report" /\ loc[p].ret = "sweep" => loc[p].run = NoRun
    /\ pc[p] \in {"lookup", "find_record", "read_manifest"}
          => loc[p].ret = "lookup"
    /\ pc[p] = "drop_tomb" => loc[p].ret # "sweep"
    /\ pc[p] \in {"sweep", "lookup"} /\ loc[p].op = "report"
          => loc[p].run = NoRun

PathInv == \A p \in Procs : PathOK(p)

\* No step changes what a process was asked to do.
LEMMA OpStays ==
  ASSUME TypeInv, NEW p \in Procs, Step(p)
  PROVE  loc'[p].op = loc[p].op
<1>1. loc \in [Procs -> Locals]
  BY DEF TypeInv, ControlOK
<1>2. ASSUME NEW a, Finish(p, a)
      PROVE  loc'[p].op = loc[p].op
  BY <1>2, FinishLocal
<1>3. ASSUME NEW a, Return(p, a)
      PROVE  loc'[p].op = loc[p].op
  BY <1>2, <1>3, ReturnLocal
<1>4. CASE SweepStep(p)
  <2>1. SweepDone(p) => loc'[p].op = loc[p].op
    BY <1>1 DEF SweepDone, Locals
  <2>2. SweepSkip(p) \/ SweepExpire(p) => loc'[p].op = loc[p].op
    BY <1>1 DEF SweepSkip, SweepExpire, Locals
  <2> QED
    BY <1>4, <2>1, <2>2 DEF SweepStep
<1>5. CASE RemoveStep(p)
  BY <1>1, <1>2, <1>3, <1>5
  DEF RemoveStep, ExpireFind, MoveAside, MoveAsideLost, RemoveDir, TombCreate,
      TombWrite, TombRename, TombRenameLost, Abort, Locals
<1>6. CASE UsageStep(p)
  <2>1. StreamTooBig(p) \/ UsageStatus(p) \/ UsageFull(p)
           => loc'[p].op = loc[p].op
    BY <1>2 DEF StreamTooBig, UsageStatus, UsageFull
  <2>2. UsageLost(p) => loc'[p].op = loc[p].op
    BY <1>1, <1>2 DEF UsageLost, Abort, Locals
  <2>3. UsageList(p) \/ UsageRoom(p) => loc'[p].op = loc[p].op
    BY <1>1 DEF UsageList, UsageRoom, Locals
  <2>4. UsageSweep(p) => loc'[p].op = loc[p].op
    BY <1>1 DEF UsageSweep, Locals
  <2> QED
    BY <1>6, <2>1, <2>2, <2>3, <2>4 DEF UsageStep
<1>7. CASE CommitStep(p)
  BY <1>1, <1>2, <1>7
  DEF CommitStep, Stage, WriteFiles, Publish, WriteLastRun, SyncRoot, Unstage,
      Unpublish, UnpublishGone, DropFailed, IndexTooBig, Fail, Abort, Locals
<1>8. CASE LookupStep(p)
  BY <1>1, <1>2, <1>3, <1>8
  DEF LookupStep, ReportNothing, ReadTombstone, DropTombstone, FindRecord,
      ReadManifest, ReadData, ReadNothing, Locals
<1>9. CASE PurgeStep(p)
  BY <1>1, <1>2, <1>3, <1>9
  DEF PurgeStep, DeleteFind, DeleteGone, PurgeList, PurgeRecord,
      PurgeListFiles, PurgeFile, PurgeUnreadable, PurgeDone, Abort, Locals
<1> QED
  BY <1>4, <1>5, <1>6, <1>7, <1>8, <1>9 DEF Step

\* An answer ends the way.
LEMMA FinishPath ==
  ASSUME TypeInv, NEW p \in Procs, NEW a, Finish(p, a)
  PROVE  PathOK(p)'
<1>1. pc'[p] = "idle"
  BY FinishLocal
<1> QED
  BY <1>1 DEF PathOK, CommitPath, Removal

\* A move within a removal.
LEMMA RemovalPath ==
  ASSUME TypeInv, NEW p \in Procs, PathOK(p), pc[p] \in Removal,
         pc'[p] \in Removal, loc'[p].op = loc[p].op, loc'[p].run = loc[p].run,
         loc'[p].cur = loc[p].cur, loc'[p].ret = loc[p].ret
  PROVE  PathOK(p)'
  BY DEF PathOK, CommitPath, Removal

\* A move to where nothing is known.
LEMMA FreePath ==
  ASSUME NEW p \in Procs, loc'[p].op = "commit" => pc'[p] \in CommitPath,
         pc'[p] \notin Removal,
         pc'[p] \notin {"lookup", "find_record", "read_manifest", "drop_tomb",
                        "sweep"}
  PROVE  PathOK(p)'
  BY DEF PathOK

\* Sweeping and removing.
LEMMA SweepPath ==
  ASSUME TypeInv, NEW p \in Procs, PathOK(p), SweepStep(p) \/ RemoveStep(p)
  PROVE  PathOK(p)'
<1>1. /\ loc \in [Procs -> Locals] /\ pc \in [Procs -> Labels]
      /\ loc'[p].op = loc[p].op
  BY OpStays DEF TypeInv, ControlOK, Step
<1>2. CASE SweepSkip(p)
  <2>1. /\ pc' = pc /\ pc[p] = "sweep" /\ loc'[p].run = loc[p].run
    BY <1>1, <1>2 DEF SweepSkip, Locals
  <2> QED
    BY <1>1, <2>1 DEF PathOK, Removal, CommitPath
<1>3. CASE SweepExpire(p)
  <2>1. /\ pc'[p] = "expire" /\ pc[p] = "sweep" /\ loc'[p].run = loc[p].run
        /\ loc'[p].ret = "sweep"
    BY <1>1, <1>3 DEF SweepExpire, Goto, Locals
  <2> QED
    BY <1>1, <2>1 DEF PathOK, Removal, CommitPath
<1>4. CASE SweepDone(p)
  <2>1. /\ pc[p] = "sweep" /\ pc'[p] = AfterSweep(loc[p].op)
        /\ loc'[p].run = loc[p].run
        /\ loc[p].op # "delete" => loc'[p].ret = "lookup"
    BY <1>1, <1>4 DEF SweepDone, Goto, Locals
  <2>2. /\ AfterSweep(loc[p].op) \in {"usage", "lookup", "delete", "purge_list"}
        /\ loc[p].op = "commit" => AfterSweep(loc[p].op) = "usage"
        /\ AfterSweep(loc[p].op) = "lookup" => loc[p].op # "delete"
    BY DEF AfterSweep
  <2> QED
    BY <1>1, <2>1, <2>2 DEF PathOK, Removal, CommitPath
<1>5. CASE ExpireFind(p) \/ MoveAside(p) \/ TombCreate(p) \/ TombWrite(p)
  <2>1. pc[p] \in Removal /\ pc'[p] \in Removal /\ loc' = loc
    BY <1>1, <1>5
    DEF ExpireFind, MoveAside, TombCreate, TombWrite, Goto, Removal
  <2> QED
    BY <2>1, RemovalPath
<1>6. CASE RemoveDir(p)
  <2>1. /\ pc[p] \in Removal /\ pc'[p] \in Removal
        /\ loc'[p].run = loc[p].run /\ loc'[p].cur = loc[p].cur
        /\ loc'[p].ret = loc[p].ret
    BY <1>1, <1>6 DEF RemoveDir, Goto, Removal, Locals
  <2> QED
    BY <1>1, <2>1, RemovalPath
<1>7. CASE MoveAsideLost(p) \/ TombRenameLost(p)
  BY <1>7, FinishPath DEF MoveAsideLost, TombRenameLost, Abort
<1>8. CASE TombRename(p)
  <2>1. CASE \E a : Finish(p, a)
    BY <2>1, FinishPath
  <2>2. CASE /\ pc'[p] = loc[p].ret /\ loc[p].ret \in {"sweep", "purge"}
             /\ loc'[p].run = loc[p].run
    BY <1>1, <1>8, <2>2 DEF TombRename, PathOK, Removal, CommitPath
  <2>3. \E a : Return(p, a)
    BY <1>8 DEF TombRename
  <2> QED
    BY <2>1, <2>2, <2>3, ReturnLocal
<1> QED
  BY <1>2, <1>3, <1>4, <1>5, <1>6, <1>7, <1>8 DEF SweepStep, RemoveStep

\* usage() and committing.
LEMMA CommitPathKept ==
  ASSUME TypeInv, NEW p \in Procs, PathOK(p), UsageStep(p) \/ CommitStep(p)
  PROVE  PathOK(p)'
<1>1. /\ loc \in [Procs -> Locals] /\ pc \in [Procs -> Labels]
      /\ loc'[p].op = loc[p].op
  BY OpStays DEF TypeInv, ControlOK, Step
<1>2. CASE \E a : Finish(p, a)
  BY <1>2, FinishPath
<1>3. CASE UsageList(p)
  BY <1>1, <1>3, FreePath DEF UsageList, Goto, CommitPath, Removal
<1>4. CASE UsageRoom(p)
  BY <1>1, <1>4, FreePath DEF UsageRoom, Goto, CommitPath, CommitLabels, Removal
<1>5. CASE UsageSweep(p)
  <2>1. pc'[p] = "sweep" /\ loc[p].op = "commit"
    BY <1>1, <1>5 DEF UsageSweep, Goto
  <2> QED
    BY <1>1, <2>1 DEF PathOK, CommitPath, Removal
<1>6. CASE Stage(p) \/ WriteFiles(p) \/ Publish(p) \/ WriteLastRun(p)
           \/ Unpublish(p)
  <2>1. pc'[p] \in CommitLabels
    BY <1>1, <1>6
    DEF Stage, WriteFiles, Publish, WriteLastRun, Unpublish, Goto,
        CommitLabels
  <2> QED
    BY <2>1, FreePath DEF CommitPath, CommitLabels, Removal
<1> QED
  BY <1>2, <1>3, <1>4, <1>5, <1>6
  DEF UsageStep, StreamTooBig, UsageLost, UsageStatus, UsageFull, CommitStep,
      SyncRoot, Unstage, UnpublishGone, DropFailed, IndexTooBig, Fail, Abort

\* Looking up.
LEMMA LookupPath ==
  ASSUME TypeInv, NEW p \in Procs, PathOK(p), LocalOK(p), LookupStep(p)
  PROVE  PathOK(p)'
<1>1. /\ loc \in [Procs -> Locals] /\ pc \in [Procs -> Labels]
      /\ loc'[p].op = loc[p].op /\ loc[p].op # "commit"
  <2>1. pc[p] \notin CommitPath
    BY DEF LookupStep, ReportNothing, ReadTombstone, DropTombstone,
           FindRecord, ReadManifest, ReadData, ReadNothing, CommitPath, CommitLabels,
           Removal
  <2> QED
    BY <2>1, OpStays DEF TypeInv, ControlOK, Step, PathOK
<1>2. CASE \E a : Finish(p, a)
  BY <1>2, FinishPath
<1>3. CASE /\ pc[p] = "lookup" /\ pc'[p] \in {"find_record", "drop_tomb"}
           /\ loc'[p].ret = loc[p].ret
  BY <1>1, <1>3 DEF PathOK, Removal
<1>4. CASE /\ pc[p] = "drop_tomb" /\ loc[p].ret = "lookup" /\ loc' = loc
           /\ pc'[p] = "find_record"
  BY <1>1, <1>4 DEF PathOK, Removal
<1>5. CASE /\ pc[p] = "drop_tomb" /\ loc[p].ret \in {"sweep", "purge"}
           /\ pc'[p] = loc[p].ret
  BY <1>1, <1>5 DEF PathOK, Removal
<1>6. CASE /\ pc[p] \in {"find_record", "read_manifest"} /\ loc' = loc
           /\ pc'[p] \in {"read_manifest", "expire", "read_data"}
  BY <1>1, <1>6 DEF PathOK, LocalOK, Removal
<1>7. CASE ReadTombstone(p)
  BY <1>1, <1>2, <1>3, <1>7 DEF ReadTombstone, Goto, Locals
<1>8. CASE DropTombstone(p)
  <2>1. CASE loc[p].ret = "lookup"
    BY <1>1, <1>2, <1>4, <1>8, <2>1 DEF DropTombstone, Goto
  <2>2. CASE loc[p].ret # "lookup"
    BY <1>2, <1>5, <1>8, <2>2, ReturnLocal DEF DropTombstone
  <2> QED
    BY <2>1, <2>2
<1>9. CASE FindRecord(p) \/ ReadManifest(p)
  BY <1>1, <1>2, <1>6, <1>9 DEF FindRecord, ReadManifest, Goto
<1> QED
  BY <1>2, <1>7, <1>8, <1>9 DEF LookupStep, ReportNothing, ReadData, ReadNothing

\* Deleting and purging.
LEMMA PurgePath ==
  ASSUME TypeInv, NEW p \in Procs, PathOK(p), LocalOK(p), PurgeStep(p)
  PROVE  PathOK(p)'
<1>1. /\ loc \in [Procs -> Locals] /\ pc \in [Procs -> Labels]
      /\ loc'[p].op = loc[p].op /\ loc[p].op # "commit"
  <2>1. pc[p] \notin CommitPath
    BY DEF PurgeStep, DeleteFind, DeleteGone, PurgeList, PurgeRecord,
           PurgeListFiles, PurgeFile, PurgeUnreadable, PurgeDone, CommitPath,
           CommitLabels, Removal
  <2> QED
    BY <2>1, OpStays DEF TypeInv, ControlOK, Step, PathOK
<1>2. CASE \E a : Finish(p, a)
  BY <1>2, FinishPath
<1>3. CASE DeleteFind(p)
  <2>1. /\ pc'[p] = "rename" /\ loc' = loc /\ loc[p].ret \in {"delete", "purge"}
    BY <1>1, <1>3 DEF DeleteFind, Goto, LocalOK, Deleting
  <2> QED
    BY <1>1, <2>1 DEF PathOK, Removal
<1>4. CASE DeleteGone(p)
  <2>1. loc[p].ret \in {"delete", "purge"}
    BY <1>4 DEF DeleteGone, LocalOK, Deleting
  <2>2. CASE pc'[p] = "drop_tomb" /\ loc' = loc
    BY <1>1, <2>1, <2>2 DEF PathOK, Removal
  <2>3. CASE pc'[p] = "purge"
    BY <1>1, <2>3 DEF PathOK, Removal
  <2> QED
    BY <1>1, <1>2, <1>4, <2>1, <2>2, <2>3, ReturnLocal DEF DeleteGone, Goto
<1>5. CASE PurgeRecord(p)
  <2>1. /\ pc'[p] \in {"delete", "expire", "purge"}
        /\ loc'[p].ret = "purge"
    BY <1>1, <1>5 DEF PurgeRecord, Goto, Locals, LocalOK
  <2> QED
    BY <1>1, <2>1 DEF PathOK, Removal
<1>6. CASE PurgeList(p) \/ PurgeListFiles(p)
  BY <1>1, <1>6, FreePath DEF PurgeList, PurgeListFiles, Goto, Removal
<1>7. CASE PurgeFile(p)
  BY <1>1, <1>7, FreePath DEF PurgeFile, Removal
<1> QED
  BY <1>2, <1>3, <1>4, <1>5, <1>6, <1>7
  DEF PurgeStep, PurgeUnreadable, PurgeDone, Abort

\* Opening, failing and being killed.
LEMMA OtherPath ==
  ASSUME TypeInv, NEW p \in Procs, PathOK(p), Open(p) \/ IoFault(p) \/ Crash(p)
  PROVE  PathOK(p)'
<1>1. loc \in [Procs -> Locals] /\ pc \in [Procs -> Labels]
  BY DEF TypeInv, ControlOK
<1>2. CASE Open(p)
  <2>1. PICK o \in Ops : \E r \in Targets(o), listing \in SweepListings :
           loc' = [loc EXCEPT ![p] = [Fresh EXCEPT !.op = o, !.run = r,
                                         !.now = clock, !.todo = listing]]
    BY <1>2 DEF Open
  <2>2. PICK r \in Targets(o) : \E listing \in SweepListings :
           loc' = [loc EXCEPT ![p] = [Fresh EXCEPT !.op = o, !.run = r,
                                         !.now = clock, !.todo = listing]]
    BY <2>1
  <2>3. loc'[p].op = o /\ loc'[p].run = r
    BY <1>1, <2>2 DEF Fresh
  <2>4. o = "report" => r = NoRun
    BY DEF Targets
  <2>5. pc'[p] = "sweep"
    BY <1>1, <1>2 DEF Open
  <2> QED
    BY <2>3, <2>4, <2>5 DEF PathOK, CommitPath, Removal
<1>3. CASE Crash(p)
  <2>1. pc'[p] = "idle"
    BY <1>1, <1>3 DEF Crash
  <2> QED
    BY <2>1, FreePath DEF CommitPath, Removal
<1>4. CASE IoFault(p)
  <2>1. CASE \E a : Finish(p, a)
    BY <2>1, FinishPath
  <2>2. CASE pc'[p] \in {"unstage", "unpublish"}
    BY <2>2, FreePath DEF CommitPath, CommitLabels, Removal
  <2>4. CASE pc[p] = "expire" /\ pc'[p] = "tomb_create" /\ UNCHANGED loc
    BY <2>4, RemovalPath DEF Removal
  <2>3. CASE /\ pc[p] \in {"sweep", "purge"} /\ UNCHANGED pc
             /\ \E r \in loc[p].todo : loc' = [loc EXCEPT ![p].todo = @ \ {r}]
    <3>1. /\ loc'[p].op = loc[p].op /\ loc'[p].run = loc[p].run
          /\ loc'[p].ret = loc[p].ret
      BY <1>1, <2>3 DEF Locals
    <3> QED
      BY <2>3, <3>1 DEF PathOK, Removal
  <2> QED
    BY <1>1, <1>4, <2>1, <2>2, <2>3, <2>4 DEF IoFault, Fail, Abort, Goto
<1> QED
  BY <1>2, <1>3, <1>4

\* Every step keeps every process on its way.
LEMMA PathNext == Safe /\ PathInv /\ [Next]_vars => PathInv'
<1> SUFFICES ASSUME Safe, PathInv, [Next]_vars PROVE PathInv'
  OBVIOUS
<1>1. CASE Tick \/ UNCHANGED vars
  BY <1>1 DEF Tick, vars, PathInv, PathOK
<1>2. ASSUME NEW p \in Procs, Open(p) \/ Step(p) \/ IoFault(p) \/ Crash(p)
      PROVE  PathInv'
  <2>1. Alone(p) /\ TypeInv /\ LocalOK(p) /\ PathOK(p)
    BY <1>2, StepLocal DEF Safe, LocalInv, PathInv
  <2>2. PathOK(p)'
    BY <1>2, <2>1, SweepPath, CommitPathKept, LookupPath, PurgePath, OtherPath
    DEF Step
  <2>3. ASSUME NEW q \in Procs \ {p}
        PROVE  PathOK(q)'
    BY <2>1 DEF Alone, PathInv, PathOK
  <2> QED
    BY <2>2, <2>3 DEF PathInv
<1> QED
  BY <1>1, <1>2 DEF Next

-------------------------------------------------------------------------------
(* What is said of a run.                                                    *)

\* The receipts there are.
TellInv ==
    \A r \in RunIds :
        receipt[r] \in {"unused", "pending", "stored"} \cup Refusals

\* Whose tombstone is being unlinked was published once, and is gone for good
\* where the record was looked for first.
DropInv ==
    \A p \in Procs, r \in RunIds :
        pc[p] = "drop_tomb" /\ loc[p].cur = r
            => /\ ~MayCome(r)
               /\ loc[p].ret # "lookup" => r \notin Published

Known == Safe /\ ReceiptInv /\ ErasedInv /\ PathInv /\ TellInv /\ DropInv

\* A commit answers that it has stored its run, after the last step, or that it
\* has not; nobody else gives receipts.
LEMMA Receipts ==
  ASSUME TypeInv, NEW p \in Procs, PathOK(p), Step(p) \/ IoFault(p) \/ Crash(p)
  PROVE  \/ receipt' = receipt
         \/ /\ Busy(p) /\ pc'[p] = "idle"
            /\ \E a \in {"stored"} \cup Refusals :
                  /\ Finish(p, a)
                  /\ receipt' = [receipt EXCEPT ![loc[p].run] = a]
                  /\ a = "stored" => SyncRoot(p)
<1>1. ASSUME NEW a \in Refusals, Finish(p, a), pc[p] # "idle"
      PROVE  \/ receipt' = receipt
             \/ /\ Busy(p) /\ pc'[p] = "idle"
                /\ \E b \in {"stored"} \cup Refusals :
                      /\ Finish(p, b)
                      /\ receipt' = [receipt EXCEPT ![loc[p].run] = b]
                      /\ b = "stored" => SyncRoot(p)
  <2>1. a # "stored"
    BY DEF Refusals
  <2> QED
    BY <1>1, <2>1, FinishLocal DEF Finish, Busy
<1>2. "storage_error" \in Refusals /\ "quota_exceeded" \in Refusals
  BY DEF Refusals
<1>3. CASE SweepStep(p)
  BY <1>3 DEF SweepStep, SweepSkip, SweepExpire, SweepDone, Goto
<1>4. CASE RemoveStep(p)
  <2>1. CASE MoveAsideLost(p) \/ TombRenameLost(p)
    BY <1>1, <1>2, <2>1 DEF MoveAsideLost, TombRenameLost, Abort
  <2>2. CASE TombRename(p)
    <3>1. loc[p].op = "commit" => loc[p].ret = "sweep"
      BY <2>2, SMTT(30) DEF TombRename, PathOK, Removal
    <3> QED
      BY <2>2, <3>1 DEF TombRename, Return, Goto, Finish
  <2> QED
    BY <1>4, <2>1, <2>2
    DEF RemoveStep, ExpireFind, MoveAside, RemoveDir, TombCreate, TombWrite,
        Goto
<1>5. CASE UsageStep(p)
  <2>1. CASE UsageStatus(p)
    BY <2>1 DEF UsageStatus, Finish
  <2> QED
    BY <1>1, <1>2, <1>5, <2>1
    DEF UsageStep, StreamTooBig, UsageList, UsageLost, UsageRoom, UsageSweep,
        UsageFull, Abort, Goto
<1>6. CASE CommitStep(p)
  <2>1. CASE SyncRoot(p)
    <3>1. Busy(p)
      BY <2>1 DEF SyncRoot, Busy, TypeInv, CommitOK, CommitLabels
    <3> QED
      BY <2>1, <3>1, FinishLocal DEF SyncRoot, Finish, Busy
  <2> QED
    BY <1>1, <1>2, <1>6, <2>1
    DEF CommitStep, Stage, WriteFiles, Publish, WriteLastRun, Unstage,
        Unpublish, UnpublishGone, DropFailed, IndexTooBig, Fail, Abort, Goto
<1>7. CASE LookupStep(p) \/ PurgeStep(p)
  <2>1. pc[p] \notin CommitPath
    BY <1>7
    DEF LookupStep, ReportNothing, ReadTombstone, DropTombstone, FindRecord,
        ReadManifest, ReadData, ReadNothing, PurgeStep, DeleteFind, DeleteGone, PurgeList,
        PurgeRecord, PurgeListFiles, PurgeFile, PurgeUnreadable, PurgeDone,
        CommitPath, CommitLabels, Removal
  <2>2. \A a : Finish(p, a) \/ Return(p, a) => receipt' = receipt
    BY <2>1 DEF PathOK, Finish, Return, Goto
  <2>3. LookupStep(p) => receipt' = receipt
    BY <2>2
    DEF LookupStep, ReportNothing, ReadTombstone, DropTombstone, FindRecord,
        ReadManifest, ReadData, ReadNothing, Goto
  <2>4. PurgeStep(p) => receipt' = receipt
    BY <2>2
    DEF PurgeStep, DeleteFind, DeleteGone, PurgeList, PurgeRecord,
        PurgeListFiles, PurgeFile, PurgeUnreadable, PurgeDone, Abort, Goto
  <2> QED
    BY <1>7, <2>3, <2>4
<1>8. CASE IoFault(p)
  <2>1. CASE pc[p] = "read_manifest"
    BY <1>8, <2>1
    DEF IoFault, AbortingSteps, Finish, PathOK, CommitPath, CommitLabels,
        Removal
  <2> QED
    BY <1>1, <1>2, <1>8, <2>1 DEF IoFault, AbortingSteps, Fail, Abort, Goto
<1>9. CASE Crash(p)
  BY <1>9 DEF Crash
<1> QED
  BY <1>3, <1>4, <1>5, <1>6, <1>7, <1>8, <1>9 DEF Step

\* The two steps that lead to the unlinking of a tombstone.
LEMMA ToDropTomb ==
  ASSUME TypeInv, NEW p \in Procs, Open(p) \/ Step(p) \/ IoFault(p) \/ Crash(p),
         pc'[p] = "drop_tomb"
  PROVE  ReadTombstone(p) \/ DeleteGone(p)
<1>1. pc \in [Procs -> Labels] /\ loc[p].ret # "drop_tomb"
  BY LocalsType DEF TypeInv, ControlOK
<1>2. ASSUME NEW a, Finish(p, a) \/ Return(p, a)
      PROVE  FALSE
  BY <1>1, <1>2 DEF Finish, Return, Goto
<1>3. ~Open(p) /\ ~IoFault(p) /\ ~Crash(p)
  BY <1>1, <1>2 DEF Open, IoFault, Crash, Fail, Abort, Goto
<1>4. ~SweepStep(p)
  <2>1. AfterSweep(loc[p].op) # "drop_tomb"
    BY DEF AfterSweep
  <2> QED
    BY <1>1, <2>1 DEF SweepStep, SweepSkip, SweepExpire, SweepDone, Goto
<1>5. ~RemoveStep(p)
  BY <1>1, <1>2
  DEF RemoveStep, ExpireFind, MoveAside, MoveAsideLost, RemoveDir, TombCreate,
      TombWrite, TombRename, TombRenameLost, Abort, Goto
<1>6. ~UsageStep(p)
  BY <1>1, <1>2
  DEF UsageStep, StreamTooBig, UsageList, UsageLost, UsageStatus, UsageRoom,
      UsageSweep, UsageFull, Abort, Goto
<1>7. ~CommitStep(p)
  BY <1>1, <1>2
  DEF CommitStep, Stage, WriteFiles, Publish, WriteLastRun, SyncRoot, Unstage,
      Unpublish, UnpublishGone, DropFailed, IndexTooBig, Fail, Abort, Goto
<1>8. LookupStep(p) => ReadTombstone(p)
  BY <1>1, <1>2
  DEF LookupStep, ReportNothing, DropTombstone, FindRecord, ReadManifest,
      ReadData, ReadNothing, Goto
<1>9. PurgeStep(p) => DeleteGone(p)
  BY <1>1, <1>2
  DEF PurgeStep, DeleteFind, PurgeList, PurgeRecord, PurgeListFiles, PurgeFile,
      PurgeUnreadable, PurgeDone, Abort, Goto
<1> QED
  BY <1>3, <1>4, <1>5, <1>6, <1>7, <1>8, <1>9 DEF Step

\* A run that has a tombstone is gone for good, or has expired.
LEMMA TombIsEnd ==
  ASSUME SafeInv, NEW r \in RunIds, NEW w \in Procs \cup {Final},
         tomb[<<r, w>>] # NoFile
  PROVE  /\ ~MayCome(r)
         /\ r \in Published => /\ clock >= records[r]
                               /\ tomb[<<r, w>>].state # "deleted"
<1>1. <<r, w>> \in Entries /\ <<r, w>>[1] = r
  BY DEF Entries
<1> QED
  BY <1>1 DEF SafeInv, TombstoneMeansGone, Overlooked, ComeInv, Published

\* Nobody publishes it again.
LEMMA DropKeeps ==
  ASSUME TypeInv, SafeInv, PathInv, DropInv, NEW p \in Procs, Alone(p), Placed,
         Open(p) \/ Step(p) \/ IoFault(p) \/ Crash(p)
  PROVE  DropInv'
<1>1. \A r \in RunIds : ~MayCome(r)
         => ~MayCome(r)' /\ (r \notin Published => r \notin Published')
  BY DEF Placed
<1>2. ASSUME NEW r \in RunIds, pc'[p] = "drop_tomb", loc'[p].cur = r
      PROVE  ~MayCome(r) /\ (loc'[p].ret # "lookup" => r \notin Published)
  <2>1. loc \in [Procs -> Locals] /\ pc \in [Procs -> Labels]
    BY DEF TypeInv, ControlOK
  <2>2. /\ tomb[<<r, Final>>] # NoFile
        /\ loc'[p].ret # "lookup" => r \notin Published
    <3>1. CASE ReadTombstone(p)
      <4>1. /\ tomb[<<LookupRun(p), Final>>].state # "none"
            /\ loc'[p].cur = LookupRun(p)
            /\ pc[p] = "lookup" /\ loc'[p].ret = loc[p].ret
        BY <1>2, <2>1, <3>1 DEF ReadTombstone, Finish, Goto, Locals
      <4>2. loc[p].ret = "lookup"
        BY <4>1 DEF PathInv, PathOK
      <4> QED
        BY <1>2, <4>1, <4>2 DEF NoFile
    <3>2. CASE DeleteGone(p)
      <4>1. Return(p, "not_found") \/ Return(p, "already_gone") => FALSE
        BY <1>2, <2>1, LocalsType DEF Return, Finish, Goto, TypeInv
      <4>2. /\ tomb[<<loc[p].cur, Final>>].state # "none" /\ loc' = loc
            /\ loc[p].cur \notin Published
        BY <3>2, <4>1 DEF DeleteGone
      <4> QED
        BY <1>2, <4>2 DEF NoFile
    <3> QED
      BY <1>2, <3>1, <3>2, ToDropTomb
  <2> QED
    BY <2>2, TombIsEnd
<1>3. ASSUME NEW q \in Procs, NEW r \in RunIds, pc'[q] = "drop_tomb",
             loc'[q].cur = r
      PROVE  ~MayCome(r) /\ (loc'[q].ret # "lookup" => r \notin Published)
  BY <1>2, <1>3 DEF Alone, DropInv
<1> QED
  BY <1>1, <1>3 DEF DropInv

-------------------------------------------------------------------------------
(* The steps of RunLifecycle, said of PhaseOf, receipt and HeardBy.           *)

Stored == {"live", "lapsed"}

\* What becomes of run r, and of no other run.
RunMove(r) ==
    /\ \A s \in RunIds \ {r} :
          PhaseOf(s)' = PhaseOf(s) /\ receipt'[s] = receipt[s]
    /\ \/ /\ PhaseOf(r) = "unused" /\ PhaseOf(r)' = "pending"
          /\ receipt'[r] = "pending"
       \/ /\ PhaseOf(r) = "pending" /\ PhaseOf(r)' \in Stored
          /\ receipt'[r] = receipt[r]
       \/ /\ PhaseOf(r) \in Stored /\ PhaseOf(r)' = "gone"
          /\ receipt'[r] = receipt[r]
       \/ /\ PhaseOf(r) \in Stored \cup {"pending", "gone"}
          /\ PhaseOf(r)' = "void"
          /\ receipt[r] = "pending" /\ receipt'[r] = receipt[r]
       \/ /\ PhaseOf(r) \in Stored \cup {"gone"} /\ PhaseOf(r)' = PhaseOf(r)
          /\ receipt[r] = "pending" /\ receipt'[r] = "stored"
       \/ /\ PhaseOf(r) \in {"pending", "gone", "void"} /\ PhaseOf(r)' = "void"
          /\ receipt[r] = "pending" /\ receipt'[r] \in Refusals

\* No process but p has heard anything new.
OthersMute(p) == \A q \in Procs \ {p} : HeardBy(q)' = HeardBy(q)
Mute(p) == OthersMute(p) /\ HeardBy(p)' = HeardBy(p)

\* No run changes.
Steady == receipt' = receipt /\ \A s \in RunIds : PhaseOf(s)' = PhaseOf(s)

\* What is heard of a run is true.
Claims(r, a) ==
    /\ a = "active" => PhaseOf(r) \in Stored
    /\ a = "active_empty" => PhaseOf(r) \in Stored \cup {"gone", "void"}
    /\ a = "not_found" => PhaseOf(r) \notin Stored
    /\ a = "expired" => PhaseOf(r) \in {"lapsed", "gone", "void"}
    /\ a \in {"deleted", "removed", "already_gone"}
         => PhaseOf(r) \in {"gone", "void"}

Said == {"active", "active_empty", "not_found", "expired", "deleted", "removed",
         "already_gone"}

\* One run moves, and its process has nothing to say, or falls silent.
LEMMA MoveMaps ==
  ASSUME NEW p \in Procs, NEW r \in RunIds, RunMove(r), TypeInv, TypeInv',
         \/ Mute(p)
         \/ OthersMute(p) /\ HeardBy(p)' = NoAnswer
  PROVE  Lifecycle!Next
<1> DEFINE phase == [s \in RunIds |-> PhaseOf(s)]
           heard == [q \in Procs |-> HeardBy(q)]
<1>1. /\ receipt \in [RunIds -> Answers \cup {"unused", "pending"}]
      /\ receipt' \in [RunIds -> Answers \cup {"unused", "pending"}]
  BY DEF TypeInv, ControlOK
<1>2. phase' = [phase EXCEPT ![r] = PhaseOf(r)'] /\ phase[r] = PhaseOf(r)
  BY DEF RunMove
<1>3. receipt' = [receipt EXCEPT ![r] = receipt'[r]]
  BY <1>1 DEF RunMove
<1>4. heard' = heard \/ heard' = [heard EXCEPT ![p] = NoAnswer]
  BY DEF Mute, OthersMute
<1>5. receipt'[r] = receipt[r] => receipt' = receipt
  BY <1>1, <1>3
<1>6. PhaseOf(r)' = PhaseOf(r) => phase' = phase
  BY <1>2
<1> HIDE DEF phase, heard
<1>7. Lifecycle!RunStep(r)
  BY <1>2, <1>3, <1>5, <1>6
  DEF phase, RunMove, Refusals, Lifecycle!RunStep, Lifecycle!Draw,
      Lifecycle!Publish, Lifecycle!Remove, Lifecycle!GiveUp,
      Lifecycle!Confirm, Lifecycle!Refuse, Lifecycle!Move, Lifecycle!Refusals,
      Stored, Lifecycle!Stored
<1> QED
  BY <1>4, <1>7 DEF heard, Lifecycle!Next

\* One process hears the truth, or nothing.
LEMMA HearMaps ==
  ASSUME NEW p \in Procs, Steady, OthersMute(p),
         \/ HeardBy(p)' = NoAnswer
         \/ \E r \in RunIds, a \in Said :
               HeardBy(p)' = <<r, a>> /\ Claims(r, a)
  PROVE  Lifecycle!Next
<1> DEFINE phase == [s \in RunIds |-> PhaseOf(s)]
           heard == [q \in Procs |-> HeardBy(q)]
<1>1. phase' = phase /\ receipt' = receipt
  BY DEF Steady
<1>2. heard' = [heard EXCEPT ![p] = HeardBy(p)']
  BY DEF OthersMute
<1>3. \A r \in RunIds, a \in Said : Claims(r, a) => Lifecycle!Truthful(r, a)
  BY DEF Claims, Said, Stored, Lifecycle!Stored, Lifecycle!Truthful
<1> HIDE DEF phase, heard
<1>4. Lifecycle!Hear(p)
  BY <1>2, <1>3, ZenonT(40) DEF heard, Said, Lifecycle!Hear, Lifecycle!Answers
<1> QED
  BY <1>1, <1>4 DEF phase, Lifecycle!Next

\* And nothing happens when nothing changes.
LEMMA StutterMaps ==
  ASSUME NEW p \in Procs, Steady, Mute(p)
  PROVE  UNCHANGED Lifecycle!lifecycle
<1>1. \A q \in Procs : HeardBy(q)' = HeardBy(q)
  BY DEF Mute, OthersMute
<1> QED
  BY <1>1 DEF Steady, Lifecycle!lifecycle

-------------------------------------------------------------------------------
(* What is known stays known.                                                *)

\* What every step of a process does to the places a record can be in.
LEMMA AllPlaced ==
  ASSUME Known, NEW p \in Procs, Open(p) \/ Step(p) \/ IoFault(p) \/ Crash(p)
  PROVE  Alone(p) /\ Placed
<1>1. Alone(p) /\ TypeInv /\ LocalInv /\ SafeInv /\ ErasedInv
  BY StepLocal DEF Known, Safe
<1>2. CASE Open(p)
  BY <1>1, <1>2, OpenPlaced
<1>3. CASE Publish(p)
  BY <1>1, <1>3, PublishPlaced
<1>4. CASE ~Open(p) /\ ~Publish(p)
  <2>1. Moves(p) /\ Tidy
    BY <1>1, <1>4, SweepSound, RemoveSound, UsageSound, CommitSound,
       LookupSound, PurgeSound, FaultSound DEF Step
  <2> QED
    BY <1>1, <1>4, <2>1, StepPlaced
<1> QED
  BY <1>1, <1>2, <1>3, <1>4

\* Every step keeps it.
LEMMA KnownNext ==
  ASSUME Known, MaxFaults <= 1, [Next]_vars
  PROVE  Known'
<1>1. Safe' /\ ReceiptInv' /\ ErasedInv' /\ PathInv'
  BY TypeNext, LocalNext, SafeNext, ReceiptNext, ErasedNext, PathNext
  DEF Known, Safe
<1>2. CASE Tick \/ UNCHANGED vars
  <2>1. UNCHANGED <<records, pc, loc, receipt>>
    BY <1>2 DEF Tick, vars, disk
  <2>2. TellInv'
    BY <2>1 DEF Known, TellInv
  <2>3. DropInv'
    BY <2>1 DEF Known, DropInv, Published, MayCome, Coming
  <2> QED
    BY <1>1, <2>2, <2>3 DEF Known
<1>3. ASSUME NEW p \in Procs, Open(p) \/ Step(p) \/ IoFault(p) \/ Crash(p)
      PROVE  Known'
  <2>1. TypeInv /\ PathOK(p) /\ SafeInv
        /\ receipt \in [RunIds -> Answers \cup {"unused", "pending"}]
    BY DEF Known, Safe, PathInv, TypeInv, ControlOK
  <2>2. TellInv'
    <3>1. CASE Open(p)
      <4>1. \/ receipt' = receipt
            \/ \E r : receipt' = [receipt EXCEPT ![r] = "pending"]
        BY <3>1 DEF Open
      <4> QED
        BY <2>1, <4>1 DEF Known, TellInv
    <3>2. CASE ~Open(p)
      <4>1. \/ receipt' = receipt
            \/ \E r, a : /\ a \in {"stored"} \cup Refusals
                         /\ receipt' = [receipt EXCEPT ![r] = a]
        BY <1>3, <2>1, <3>2, Receipts
      <4> QED
        BY <2>1, <4>1 DEF Known, TellInv
    <3> QED
      BY <3>1, <3>2
  <2>3. DropInv'
    BY <1>3, <2>1, AllPlaced, DropKeeps DEF Known
  <2> QED
    BY <1>1, <2>2, <2>3 DEF Known
<1> QED
  BY <1>2, <1>3 DEF Next

\* It is known of the empty store.
LEMMA KnownInit == Init => Known
<1> SUFFICES ASSUME Init PROVE Known
  OBVIOUS
<1>1. /\ hidden = {} /\ Published = {}
      /\ \A p \in Procs : /\ pc[p] = "idle" /\ loc[p].op = "none"
                          /\ loc[p].ret = "sweep"
      /\ \A r \in RunIds : receipt[r] = "unused"
  BY DEF Init, Published, Fresh
<1>2. ReceiptInv
  BY <1>1
  DEF ReceiptInv, BusyInv, Busy, TakenBackInv, TakenBackOK,
      FailedReceiptUnretrievable
<1>3. ErasedInv
  BY <1>1 DEF ErasedInv, PlaceInv, ErasedOK, Bare, TombSteps
<1>4. PathInv
  BY <1>1 DEF PathInv, PathOK, Removal
<1>5. TellInv /\ DropInv
  BY <1>1 DEF TellInv, DropInv
<1> QED
  BY <1>2, <1>3, <1>4, <1>5, SafeInit DEF Known

-------------------------------------------------------------------------------
(* The phase of a run.                                                       *)

Comes(p, r) == Coming(p) /\ loc[p].run = r
Backs(p, r) == /\ loc[p].op = "commit" /\ loc[p].run = r
               /\ pc[p] \in Confirming

Shape(r) ==
    IF receipt[r] = "unused" THEN "unused"
    ELSE IF records[r] # Absent
    THEN IF clock < records[r] THEN "live" ELSE "lapsed"
    ELSE IF receipt[r] = "stored" \/ \E p \in Procs : Backs(p, r) THEN "gone"
    ELSE IF \E p \in Procs : Comes(p, r) THEN "pending"
    ELSE "void"

\* The labels of PhaseOf are those of a commit that may still publish, and of
\* one that has published and not answered.
LEMMA PhaseShape ==
  ASSUME TypeInv, TypeInv', NEW r \in RunIds
  PROVE  PhaseOf(r) = Shape(r) /\ PhaseOf(r)' = Shape(r)'
<1>1. /\ pc \in [Procs -> Labels] /\ pc' \in [Procs -> Labels]
      /\ Past = {"idle"} \cup Withdrawing \cup Confirming
  BY DEF TypeInv, ControlOK, Past, Withdrawing, Confirming
<1>2. CommitAt(r, Confirming) <=> \E p \in Procs : Backs(p, r)
  BY DEF CommitAt, Backs
<1>3. CommitAt(r, Labels \ ({"idle"} \cup Withdrawing \cup Confirming))
         <=> \E p \in Procs : Comes(p, r)
  BY <1>1 DEF CommitAt, Comes, Coming
<1>4. CommitAt(r, Confirming)' <=> \E p \in Procs : Backs(p, r)'
  BY DEF CommitAt, Backs
<1>5. CommitAt(r, Labels \ ({"idle"} \cup Withdrawing \cup Confirming))'
         <=> \E p \in Procs : Comes(p, r)'
  BY <1>1 DEF CommitAt, Comes, Coming
<1> QED
  BY <1>2, <1>3, <1>4, <1>5 DEF PhaseOf, Shape

\* A run of which nothing has changed.
LEMMA PhaseSame ==
  ASSUME TypeInv, TypeInv', NEW p \in Procs, Alone(p), NEW r \in RunIds,
         receipt'[r] = receipt[r], records'[r] = records[r],
         Backs(p, r)' <=> Backs(p, r), Comes(p, r)' <=> Comes(p, r)
  PROVE  PhaseOf(r)' = PhaseOf(r)
<1>1. \A q \in Procs : /\ Backs(q, r)' <=> Backs(q, r)
                       /\ Comes(q, r)' <=> Comes(q, r)
  BY DEF Alone, Backs, Comes, Coming
<1>2. Shape(r)' = Shape(r)
  BY <1>1 DEF Shape, Alone
<1> QED
  BY <1>2, PhaseShape

\* A process moves no run but the one of its commit.
LEMMA OthersSame ==
  ASSUME TypeInv, TypeInv', NEW p \in Procs, Alone(p), NEW r,
         loc[p].op = "commit" => loc[p].run = r \/ pc[p] = "idle",
         loc'[p].op = "commit" => loc'[p].run = r \/ pc'[p] = "idle",
         \A s \in RunIds \ {r} : receipt'[s] = receipt[s]
                                 /\ records'[s] = records[s]
  PROVE  \A s \in RunIds \ {r} : PhaseOf(s)' = PhaseOf(s)
<1> SUFFICES ASSUME NEW s \in RunIds \ {r} PROVE PhaseOf(s)' = PhaseOf(s)
  OBVIOUS
<1>1. ~Backs(p, s) /\ ~Backs(p, s)' /\ ~Comes(p, s) /\ ~Comes(p, s)'
  BY DEF Backs, Comes, Coming, Confirming, Past
<1> QED
  BY <1>1, PhaseSame

\* What is known of the phase of a run.
LEMMA PhaseFacts ==
  ASSUME Known, Known', NEW r \in RunIds
  PROVE  /\ r \in Published => PhaseOf(r) \in Stored
         /\ r \in Published /\ clock >= records[r] => PhaseOf(r) = "lapsed"
         /\ r \notin Published => PhaseOf(r) \notin Stored
         /\ r \notin Published /\ ~MayCome(r) => PhaseOf(r) \in {"gone", "void"}
<1>1. TypeInv /\ TypeInv' /\ SafeInv
  BY DEF Known, Safe
<1>2. PhaseOf(r) = Shape(r)
  BY <1>1, PhaseShape
<1>3. receipt[r] = "unused" => MayCome(r) /\ r \notin Published
  BY <1>1 DEF MayCome, SafeInv, ComeInv
<1>4. (\E p \in Procs : Comes(p, r)) => MayCome(r)
  BY DEF Comes, MayCome
<1>5. r \in Published /\ clock >= records[r] => ~(clock < records[r])
  BY <1>1 DEF TypeInv, WorldOK, DiskOK
<1> QED
  BY <1>2, <1>3, <1>4, <1>5 DEF Shape, Stored, Published

-------------------------------------------------------------------------------
(* Every step is a step of RunLifecycle, or none.                            *)

\* Only three steps change records.
LEMMA RecordSteps ==
  ASSUME NEW p \in Procs, Step(p) \/ IoFault(p) \/ Crash(p),
         records' # records
  PROVE  MoveAside(p) \/ Publish(p) \/ Unpublish(p)
<1>1. Step(p)
  BY SMTT(30) DEF IoFault, Crash, disk
<1>2. ~SweepStep(p) /\ ~UsageStep(p)
  BY DEF SweepStep, SweepSkip, SweepExpire, SweepDone, UsageStep,
         StreamTooBig, UsageList, UsageLost, UsageStatus, UsageRoom,
         UsageSweep, UsageFull, disk
<1>3. ~LookupStep(p) /\ ~PurgeStep(p)
  BY DEF LookupStep, ReportNothing, ReadTombstone, DropTombstone, FindRecord,
         ReadManifest, ReadData, ReadNothing, PurgeStep, DeleteFind, DeleteGone, PurgeList,
         PurgeRecord, PurgeListFiles, PurgeFile, PurgeUnreadable, PurgeDone,
         disk
<1>4. RemoveStep(p) => MoveAside(p)
  BY DEF RemoveStep, ExpireFind, MoveAsideLost, RemoveDir, TombCreate,
         TombWrite, TombRename, TombRenameLost, disk
<1>5. CommitStep(p) => Publish(p) \/ Unpublish(p)
  BY DEF CommitStep, Stage, WriteFiles, WriteLastRun, SyncRoot, Unstage,
         UnpublishGone, DropFailed, IndexTooBig, disk
<1> QED
  BY <1>1, <1>2, <1>3, <1>4, <1>5 DEF Step

\* Others hear nothing, and a process at work has said nothing.
LEMMA Voices ==
  ASSUME TypeInv, NEW p \in Procs, Alone(p),
         Open(p) \/ Step(p) \/ IoFault(p) \/ Crash(p)
  PROVE  /\ OthersMute(p)
         /\ pc[p] # "idle" => HeardBy(p) = NoAnswer
         /\ pc'[p] # "idle" => HeardBy(p)' = NoAnswer
<1>1. \A q \in Procs \ {p} : /\ result'[q] = result[q] /\ pc'[q] = pc[q]
                             /\ loc'[q] = loc[q]
  BY ResultAlone DEF Alone
<1> QED
  BY <1>1 DEF OthersMute, HeardBy

\* Nobody else is committing the run of a commit.
LEMMA OwnRun ==
  ASSUME Known, NEW p \in Procs, Busy(p)
  PROVE  /\ loc[p].run \in RunIds /\ receipt[loc[p].run] = "pending"
         /\ \A q \in Procs \ {p} : /\ ~Backs(q, loc[p].run)
                                   /\ ~Comes(q, loc[p].run)
<1>1. /\ loc[p].run \in RunIds /\ receipt[loc[p].run] = "pending"
      /\ \A q \in Procs : q # p /\ Busy(q) => loc[q].run # loc[p].run
  BY DEF Known, Safe, TypeInv, CommitOK, Busy, ReceiptInv, BusyInv
<1>2. \A q \in Procs : \A r : Backs(q, r) \/ Comes(q, r)
                             => Busy(q) /\ loc[q].run = r
  BY DEF Backs, Comes, Coming, Busy, Confirming, Past
<1> QED
  BY <1>1, <1>2

\* A record is moved aside: the run is gone, and void if nobody was told of it.
LEMMA MoveAsideMaps ==
  ASSUME Known, Known', NEW p \in Procs, MoveAside(p), Alone(p),
         NEW r \in RunIds, r = loc[p].cur
  PROVE  RunMove(r)
<1>1. /\ pc[p] = "rename" /\ pc'[p] = "remove_dir" /\ UNCHANGED <<loc, receipt>>
      /\ r \in Published /\ records' = [records EXCEPT ![r] = Absent]
      /\ records \in [RunIds -> Nat] /\ TypeInv /\ TypeInv' /\ SafeInv
  BY DEF MoveAside, Goto, Known, Safe, TypeInv, ControlOK, DiskOK
<1>2. r \in RunIds /\ records'[r] = Absent
  BY <1>1 DEF Published
<1>3. \A q \in Procs, s \in RunIds : /\ Backs(q, s)' <=> Backs(q, s)
                                     /\ Comes(q, s)' <=> Comes(q, s)
  BY <1>1 DEF Alone, Backs, Comes, Coming, Confirming, Past
<1>4. ASSUME NEW s \in RunIds \ {r}
      PROVE  PhaseOf(s)' = PhaseOf(s) /\ receipt'[s] = receipt[s]
  BY <1>1, <1>3, PhaseSame
<1>5. PhaseOf(r) \in Stored
  BY <1>1, <1>2, PhaseFacts
<1>6. \/ PhaseOf(r)' = "gone"
      \/ PhaseOf(r)' = "void" /\ receipt[r] = "pending"
  <2>1. ~MayCome(r)
    BY <1>1, <1>2 DEF SafeInv, ComeInv
  <2>2. receipt[r] # "unused" /\ \A q \in Procs : ~Comes(q, r)
    BY <2>1 DEF MayCome, Comes
  <2>3. receipt[r] \in {"pending", "stored"}
    BY <1>1, <1>2, <2>2
    DEF Known, TellInv, ReceiptInv, FailedReceiptUnretrievable, Refusals,
        Published
  <2>4. PhaseOf(r)' = Shape(r)'
    BY <1>1, <1>2, PhaseShape
  <2> QED
    BY <1>1, <1>2, <1>3, <2>2, <2>3, <2>4 DEF Shape
<1> QED
  BY <1>1, <1>4, <1>5, <1>6 DEF RunMove

\* Publishing.
LEMMA PublishMaps ==
  ASSUME Known, Known', NEW p \in Procs, Publish(p), Alone(p),
         NEW r \in RunIds, r = loc[p].run
  PROVE  RunMove(r)
<1>1. /\ pc[p] = "publish" /\ pc'[p] = "last_run" /\ UNCHANGED <<loc, receipt>>
      /\ records' = [records EXCEPT ![r] = loc[p].now + TTL]
      /\ records \in [RunIds -> Nat] /\ TypeInv /\ TypeInv' /\ SafeInv
      /\ records[r] = Absent /\ loc[p].now + TTL # Absent
  <2>1. loc[p].now + TTL # Absent
    BY LocalsType, LimitsNat DEF Known, Safe, TypeInv, Absent
  <2> QED
    BY <2>1 DEF Publish, Goto, Known, Safe, TypeInv, ControlOK, DiskOK
<1>2. Busy(p) /\ loc[p].op = "commit" /\ Comes(p, r)
  BY <1>1 DEF TypeInv, CommitOK, CommitLabels, Busy, Comes, Coming, Past
<1>3. /\ r \in RunIds /\ receipt[r] = "pending"
      /\ \A q \in Procs \ {p} : ~Backs(q, r)
  BY <1>2, OwnRun
<1>4. ~Backs(p, r)
  BY <1>1 DEF Backs, Confirming
<1>5. \A s \in RunIds \ {r} : PhaseOf(s)' = PhaseOf(s)
                              /\ receipt'[s] = receipt[s]
  BY <1>1, OthersSame
<1>6. PhaseOf(r) = Shape(r) /\ PhaseOf(r)' = Shape(r)'
  BY <1>1, <1>3, PhaseShape
<1>7. PhaseOf(r) = "pending"
  BY <1>1, <1>2, <1>3, <1>4, <1>6 DEF Shape
<1>8. PhaseOf(r)' \in Stored
  BY <1>1, <1>3, <1>6 DEF Shape, Stored
<1> QED
  BY <1>1, <1>5, <1>7, <1>8 DEF RunMove

\* A run that its commit no longer stands for, and for which nobody was told
\* anything, is void.
LEMMA VoidShape ==
  ASSUME Known, Known', NEW p \in Procs, Alone(p), Busy(p),
         NEW r \in RunIds, r = loc[p].run,
         loc'[p].op = "commit" => loc'[p].run = r \/ pc'[p] = "idle",
         \A s \in RunIds \ {r} : /\ receipt'[s] = receipt[s]
                                 /\ records'[s] = records[s],
         pc'[p] \in {"idle", "unstage", "drop_failed"},
         receipt'[r] \in {"pending"} \cup Refusals, records'[r] = Absent
  PROVE  /\ PhaseOf(r)' = "void"
         /\ \A s \in RunIds \ {r} : PhaseOf(s)' = PhaseOf(s)
<1>1. TypeInv /\ TypeInv'
  BY DEF Known, Safe
<1>2. \A q \in Procs \ {p} : ~Backs(q, r) /\ ~Comes(q, r)
  BY OwnRun
<1>3. \A s \in RunIds \ {r} : PhaseOf(s)' = PhaseOf(s)
  <2>1. loc[p].op = "commit" => loc[p].run = r \/ pc[p] = "idle"
    OBVIOUS
  <2> QED
    BY <1>1, <2>1, OthersSame
<1>4. \A q \in Procs : ~Backs(q, r)' /\ ~Comes(q, r)'
  BY <1>2 DEF Alone, Backs, Comes, Coming, Confirming, Past
<1>5. PhaseOf(r)' = "void"
  <2>1. PhaseOf(r)' = Shape(r)'
    BY <1>1, PhaseShape
  <2>2. receipt'[r] \notin {"unused", "stored"} /\ records'[r] = Absent
    BY DEF Refusals
  <2> QED
    BY <1>4, <2>1, <2>2 DEF Shape
<1> QED
  BY <1>3, <1>5

\* What the run of a commit under way can be.
LEMMA BusyShape ==
  ASSUME Known, Known', NEW p \in Procs, Busy(p), NEW r \in RunIds,
         r = loc[p].run
  PROVE  /\ PhaseOf(r) \in Stored \cup {"pending", "gone", "void"}
         /\ records[r] # Absent <=> PhaseOf(r) \in Stored
         /\ Coming(p) => PhaseOf(r) = "pending"
         /\ pc[p] \in Confirming => PhaseOf(r) \in Stored \cup {"gone"}
<1>1. /\ receipt[r] = "pending" /\ PhaseOf(r) = Shape(r)
      /\ \A q \in Procs \ {p} : ~Backs(q, r)
  BY OwnRun, PhaseShape DEF Known, Safe
<1>2. CASE Coming(p)
  <2>1. r \notin Published /\ ~Backs(p, r) /\ Comes(p, r)
    BY <1>2
    DEF MayCome, Known, Safe, SafeInv, ComeInv, Comes, Coming, Backs,
        Confirming, Past
  <2>2. records[r] = Absent /\ ~\E q \in Procs : Backs(q, r)
    BY <1>1, <2>1 DEF Published
  <2>3. PhaseOf(r) = "pending"
    BY <1>1, <2>1, <2>2 DEF Shape, Stored
  <2>4. pc[p] \notin Confirming
    BY <1>2 DEF Coming, Confirming, Past
  <2> QED
    BY <2>2, <2>3, <2>4 DEF Stored
<1>3. CASE pc[p] \in Confirming
  <2>1. Backs(p, r) /\ ~Coming(p)
    BY <1>3 DEF Backs, Busy, Coming, Confirming, Past
  <2> QED
    BY <1>1, <2>1 DEF Shape, Stored
<1>4. CASE pc[p] \notin Confirming /\ ~Coming(p)
  BY <1>1, <1>4 DEF Shape, Stored
<1> QED
  BY <1>2, <1>3, <1>4

\* A record is taken away, or published.
LEMMA RecordMaps ==
  ASSUME Known, Known', NEW p \in Procs, Alone(p),
         MoveAside(p) \/ Publish(p) \/ Unpublish(p), OthersMute(p)
  PROVE  Lifecycle!Next
<1>1. TypeInv /\ TypeInv' /\ pc \in [Procs -> Labels]
      /\ records \in [RunIds -> Nat]
  BY DEF Known, Safe, TypeInv, ControlOK, DiskOK
<1>2. HeardBy(p)' = NoAnswer
  BY <1>1 DEF MoveAside, Publish, Unpublish, Goto, HeardBy
<1>3. CASE MoveAside(p)
  <2>1. PICK r \in RunIds : r = loc[p].cur
    BY <1>3 DEF MoveAside, Published
  <2>2. RunMove(r)
    BY <1>3, <2>1, MoveAsideMaps
  <2> QED
    BY <1>1, <1>2, <2>2, MoveMaps
<1>4. CASE Publish(p)
  <2>1. PICK r \in RunIds : r = loc[p].run
    BY <1>1, <1>4 DEF Publish, TypeInv, CommitOK, CommitLabels
  <2>2. RunMove(r)
    BY <1>4, <2>1, PublishMaps
  <2> QED
    BY <1>1, <1>2, <2>2, MoveMaps
<1>5. CASE Unpublish(p)
  <2>1. PICK r \in RunIds : r = loc[p].run
    BY <1>1, <1>5 DEF Unpublish, TypeInv, CommitOK, CommitLabels
  <2>2. /\ pc[p] = "unpublish" /\ pc'[p] = "drop_failed"
        /\ UNCHANGED <<loc, receipt>> /\ r \in Published
        /\ records' = [records EXCEPT ![r] = Absent]
    BY <1>1, <1>5, <2>1 DEF Unpublish, Goto
  <2>3. Busy(p)
    BY <1>1, <2>2 DEF Busy, TypeInv, CommitOK, CommitLabels
  <2>4. receipt[r] = "pending" /\ PhaseOf(r) \in Stored
    BY <2>1, <2>2, <2>3, OwnRun, PhaseFacts
  <2>5. /\ PhaseOf(r)' = "void"
        /\ \A s \in RunIds \ {r} : PhaseOf(s)' = PhaseOf(s)
    BY <1>1, <2>1, <2>2, <2>3, <2>4, VoidShape
  <2>6. RunMove(r)
    BY <2>2, <2>4, <2>5 DEF RunMove
  <2> QED
    BY <1>1, <1>2, <2>6, MoveMaps
<1> QED
  BY <1>3, <1>4, <1>5

\* A commit answers.
LEMMA AnswerMaps ==
  ASSUME Known, Known', NEW p \in Procs, Alone(p), Busy(p), pc'[p] = "idle",
         NEW a \in {"stored"} \cup Refusals,
         receipt' = [receipt EXCEPT ![loc[p].run] = a],
         a = "stored" => SyncRoot(p), records' = records, Mute(p)
  PROVE  Lifecycle!Next
<1>1. TypeInv /\ TypeInv'
      /\ receipt \in [RunIds -> Answers \cup {"unused", "pending"}]
  BY DEF Known, Safe, TypeInv, ControlOK
<1>2. PICK r \in RunIds : r = loc[p].run
  BY OwnRun
<1>3. receipt[r] = "pending" /\ receipt'[r] = a
      /\ \A s \in RunIds \ {r} : receipt'[s] = receipt[s]
  BY <1>1, <1>2, OwnRun
<1>4. CASE a = "stored"
  <2>1. \A s \in RunIds \ {r} : PhaseOf(s)' = PhaseOf(s)
    BY <1>1, <1>2, <1>3, OthersSame
  <2>2. /\ PhaseOf(r) \in Stored \cup {"gone"}
        /\ records[r] # Absent <=> PhaseOf(r) \in Stored
    BY <1>2, <1>4, BusyShape DEF SyncRoot, Confirming
  <2>3. PhaseOf(r) = Shape(r) /\ PhaseOf(r)' = Shape(r)'
    BY <1>1, PhaseShape
  <2>4. PhaseOf(r)' = PhaseOf(r)
    BY <1>3, <1>4, <2>2, <2>3 DEF Shape, Stored, Alone
  <2>5. RunMove(r)
    BY <1>3, <1>4, <2>1, <2>2, <2>4 DEF RunMove
  <2> QED
    BY <1>1, <2>5, MoveMaps
<1>5. CASE a \in Refusals
  <2>1. records'[r] = Absent
    BY <1>3, <1>5 DEF Known, ReceiptInv, FailedReceiptUnretrievable, Refusals
  <2>2. PhaseOf(r) \in {"pending", "gone", "void"}
    BY <1>2, <2>1, BusyShape DEF Stored
  <2>3. /\ PhaseOf(r)' = "void"
        /\ \A s \in RunIds \ {r} : PhaseOf(s)' = PhaseOf(s)
    BY <1>2, <1>3, <1>5, <2>1, VoidShape
  <2>4. RunMove(r)
    BY <1>3, <1>5, <2>2, <2>3 DEF RunMove
  <2> QED
    BY <1>1, <2>4, MoveMaps
<1> QED
  BY <1>4, <1>5

\* A process is killed.
LEMMA CrashMaps ==
  ASSUME Known, Known', NEW p \in Procs, Alone(p), Crash(p), OthersMute(p)
  PROVE  Lifecycle!Next \/ UNCHANGED Lifecycle!lifecycle
<1>1. /\ TypeInv /\ TypeInv' /\ pc[p] # "idle" /\ pc'[p] = "idle"
      /\ UNCHANGED <<records, receipt>> /\ result'[p] = "killed"
  BY DEF Crash, disk, Known, Safe, TypeInv, ControlOK
<1>2. Mute(p)
  BY <1>1 DEF Mute, HeardBy
<1>3. CASE ~Busy(p)
  <2>1. \A s : ~Backs(p, s) /\ ~Comes(p, s) /\ ~Backs(p, s)' /\ ~Comes(p, s)'
    BY <1>1, <1>3 DEF Busy, Backs, Comes, Coming, Confirming, Past
  <2>2. Steady
    BY <1>1, <2>1, PhaseSame DEF Steady
  <2> QED
    BY <1>2, <2>2, StutterMaps
<1>4. CASE Busy(p)
  <2>1. PICK r \in RunIds : r = loc[p].run
    BY <1>4, OwnRun
  <2>2. receipt[r] = "pending"
    BY <1>4, <2>1, OwnRun
  <2>3. CASE records[r] # Absent
    <3>1. PhaseOf(r) = Shape(r) /\ PhaseOf(r)' = Shape(r)'
      BY <1>1, PhaseShape
    <3>2. PhaseOf(r)' = PhaseOf(r)
      BY <1>1, <2>2, <2>3, <3>1 DEF Shape, Alone
    <3>3. \A s \in RunIds \ {r} : PhaseOf(s)' = PhaseOf(s)
      BY <1>1, <2>1, OthersSame
    <3> QED
      BY <1>1, <1>2, <3>2, <3>3, StutterMaps DEF Steady
  <2>4. CASE records[r] = Absent
    <3>1. /\ PhaseOf(r)' = "void"
          /\ \A s \in RunIds \ {r} : PhaseOf(s)' = PhaseOf(s)
      BY <1>1, <1>4, <2>1, <2>2, <2>4, VoidShape
    <3>2. PhaseOf(r) \in {"pending", "gone", "void"}
      BY <1>4, <2>1, <2>4, BusyShape DEF Stored
    <3>3. CASE PhaseOf(r) = "void"
      BY <1>1, <1>2, <3>1, <3>3, StutterMaps DEF Steady
    <3>4. CASE PhaseOf(r) # "void"
      <4>1. RunMove(r)
        BY <1>1, <2>2, <3>1, <3>2, <3>4 DEF RunMove
      <4> QED
        BY <1>1, <1>2, <4>1, MoveMaps
    <3> QED
      BY <3>3, <3>4
  <2> QED
    BY <2>3, <2>4
<1> QED
  BY <1>3, <1>4

\* A process starts.
LEMMA OpenMaps ==
  ASSUME Known, Known', NEW p \in Procs, Alone(p), Open(p), OthersMute(p)
  PROVE  Lifecycle!Next
<1> DEFINE Draws(o, r) ==
       /\ \E listing \in SweepListings :
             loc' = [loc EXCEPT ![p] = [Fresh EXCEPT !.op = o, !.run = r,
                                           !.now = clock, !.todo = listing]]
       /\ IF o = "commit" THEN receipt' = [receipt EXCEPT ![r] = "pending"]
          ELSE UNCHANGED receipt
<1>1. PICK o \in Ops : \E r \in Targets(o) : Draws(o, r)
  BY DEF Open
<1>2. PICK r \in Targets(o) : Draws(o, r)
  BY <1>1
<1>3. /\ pc[p] = "idle" /\ pc'[p] = "sweep" /\ UNCHANGED records
      /\ loc \in [Procs -> Locals] /\ TypeInv /\ TypeInv'
      /\ receipt \in [RunIds -> Answers \cup {"unused", "pending"}]
  BY DEF Open, disk, Known, Safe, TypeInv, ControlOK
<1>4. loc'[p].op = o /\ loc'[p].run = r
  BY <1>2, <1>3 DEF Fresh
<1>5. HeardBy(p)' = NoAnswer
  BY <1>3 DEF HeardBy
<1>6. CASE o # "commit"
  <2>1. \A s : ~Backs(p, s) /\ ~Comes(p, s) /\ ~Backs(p, s)' /\ ~Comes(p, s)'
    BY <1>3, <1>4, <1>6 DEF Backs, Comes, Coming, Confirming, Past
  <2>2. receipt' = receipt
    BY <1>2, <1>6
  <2>3. Steady
    BY <1>3, <2>1, <2>2, PhaseSame DEF Steady
  <2> QED
    BY <1>5, <2>3, HearMaps
<1>7. CASE o = "commit"
  <2>1. r \in RunIds /\ receipt[r] = "unused"
    BY <1>7 DEF Targets
  <2>2. receipt' = [receipt EXCEPT ![r] = "pending"]
    BY <1>2, <1>7
  <2>3. \A s \in RunIds \ {r} : PhaseOf(s)' = PhaseOf(s)
    <3>1. \A s \in RunIds \ {r} : /\ receipt'[s] = receipt[s]
                                  /\ records'[s] = records[s]
      BY <1>3, <2>2
    <3>2. loc[p].op = "commit" => loc[p].run = r \/ pc[p] = "idle"
      BY <1>3
    <3>3. loc'[p].op = "commit" => loc'[p].run = r \/ pc'[p] = "idle"
      BY <1>4
    <3> QED
      BY <1>3, <3>1, <3>2, <3>3, OthersSame
  <2>4. r \notin Published
    BY <2>1 DEF Known, Safe, SafeInv, ComeInv, MayCome
  <2>5. \A q \in Procs : ~Backs(q, r)'
    <3>1. ~Backs(p, r)'
      BY <1>3 DEF Backs, Confirming
    <3>2. ASSUME NEW q \in Procs \ {p}, Backs(q, r)'
          PROVE  FALSE
      <4>1. Busy(q) /\ loc[q].run = r
        BY <3>2 DEF Backs, Alone, Busy, Confirming
      <4> QED
        BY <2>1, <4>1, OwnRun
    <3> QED
      BY <3>1, <3>2
  <2>6. Comes(p, r)'
    BY <1>3, <1>4, <1>7 DEF Comes, Coming, Past
  <2>7. PhaseOf(r) = "unused" /\ PhaseOf(r)' = "pending"
    <3>1. PhaseOf(r) = Shape(r) /\ PhaseOf(r)' = Shape(r)'
      BY <1>3, <2>1, PhaseShape
    <3>2. receipt'[r] = "pending" /\ records'[r] = Absent
      BY <1>3, <2>1, <2>2, <2>4 DEF Published
    <3> QED
      BY <2>1, <2>5, <2>6, <3>1, <3>2 DEF Shape
  <2>8. RunMove(r)
    BY <1>3, <2>1, <2>2, <2>3, <2>7 DEF RunMove
  <2> QED
    BY <1>3, <1>5, <2>1, <2>8, MoveMaps
<1> QED
  BY <1>6, <1>7

\* A commit that has not answered goes on, or begins to clean up.
LEMMA BusyStep ==
  ASSUME Known, NEW p \in Procs, Busy(p), Step(p) \/ IoFault(p),
         receipt' = receipt
  PROVE  /\ pc'[p] # "idle" /\ loc'[p].op = "commit"
         /\ loc'[p].run = loc[p].run
         /\ \/ Publish(p) \/ Unpublish(p)
            \/ Coming(p) /\ Coming(p)'
            \/ Coming(p) /\ pc'[p] = "unstage"
            \/ pc[p] \in Confirming /\ pc'[p] \in Confirming
<1>1. /\ pc \in [Procs -> Labels] /\ loc \in [Procs -> Locals] /\ TypeInv
      /\ LocalInv /\ SafeInv /\ loc[p].op = "commit"
      /\ receipt \in [RunIds -> Answers \cup {"unused", "pending"}]
  BY DEF Known, Safe, TypeInv, ControlOK, Busy
<1>2. loc[p].run \in RunIds /\ receipt[loc[p].run] = "pending"
  BY OwnRun
<1>3. \A a : Finish(p, a) => a = "pending"
  BY <1>1, <1>2 DEF Finish
<1>4. "pending" \notin Answers
  BY DEF Answers
<1>5. CASE Common(p)
  <2>1. pc[p] \notin Past /\ pc'[p] \notin Past
    BY <1>1, <1>3, <1>4, <1>5, CommonOutcome
  <2>2. loc'[p].op = "commit"
    BY <1>1, <1>5, OpStays DEF Common, Step
  <2>3. Coming(p) /\ Coming(p)'
    BY <1>1, <2>1, <2>2 DEF Coming
  <2>4. Moves(p)
    <3>1. Alone(p)
      BY <1>1, <1>5, StepLocal DEF Common, Step
    <3> QED
      BY <1>1, <1>5, <3>1, SweepSound, RemoveSound, UsageSound, LookupSound,
         PurgeSound DEF Common
  <2> QED
    BY <2>1, <2>2, <2>3, <2>4 DEF Moves, Past
<1>6. CASE CommitStep(p)
  <2>1. ~SyncRoot(p) /\ ~Unstage(p) /\ ~UnpublishGone(p) /\ ~DropFailed(p)
        /\ ~IndexTooBig(p)
    BY <1>3 DEF SyncRoot, Unstage, UnpublishGone, DropFailed, IndexTooBig, Fail, Abort
  <2>2. CASE Stage(p) \/ WriteFiles(p)
    BY <1>1, <2>2 DEF Stage, WriteFiles, Goto, Coming, Past, Locals
  <2>3. CASE WriteLastRun(p)
    BY <1>1, <2>3 DEF WriteLastRun, Goto, Confirming
  <2>4. CASE Publish(p) \/ Unpublish(p)
    BY <1>1, <2>4 DEF Publish, Unpublish, Goto
  <2> QED
    BY <1>6, <2>1, <2>2, <2>3, <2>4 DEF CommitStep
<1>7. CASE IoFault(p)
  <2>1. ~Fail(p) /\ ~Finish(p, "corrupt")
    BY <1>3 DEF Fail, Abort
  <2>2. CASE pc[p] \in {"write", "publish"} /\ Goto(p, "unstage") /\ loc' = loc
    BY <1>1, <2>2 DEF Goto, Coming, Past
  <2>3. CASE /\ pc[p] \in {"last_run", "sync_root"} /\ Goto(p, "unpublish")
             /\ loc' = loc
    BY <1>1, <2>3 DEF Goto, Confirming
  <2>4. CASE /\ pc[p] \in {"sweep", "purge"} /\ pc' = pc
             /\ \E r \in loc[p].todo : loc' = [loc EXCEPT ![p].todo = @ \ {r}]
    <3>1. loc'[p].op = loc[p].op /\ loc'[p].run = loc[p].run
      BY <1>1, <2>4 DEF Locals
    <3> QED
      BY <1>1, <2>4, <3>1 DEF Coming, Past
  <2>5. CASE pc[p] = "expire" /\ Goto(p, "tomb_create") /\ loc' = loc
    BY <1>1, <2>5 DEF Goto, Coming, Past
  <2> QED
    BY <1>7, <2>1, <2>2, <2>3, <2>4, <2>5 DEF IoFault
<1> QED
  BY <1>5, <1>6, <1>7 DEF Step, Common

\* Nobody sees it, unless it gives up.
LEMMA BusyMaps ==
  ASSUME Known, Known', NEW p \in Procs, Alone(p), Busy(p),
         Step(p) \/ IoFault(p), receipt' = receipt, records' = records,
         OthersMute(p)
  PROVE  Lifecycle!Next \/ UNCHANGED Lifecycle!lifecycle
<1>1. /\ TypeInv /\ TypeInv' /\ records \in [RunIds -> Nat]
  BY DEF Known, Safe, TypeInv, DiskOK
<1>2. /\ pc'[p] # "idle" /\ loc'[p].op = "commit"
      /\ loc'[p].run = loc[p].run
      /\ \/ Publish(p) \/ Unpublish(p)
         \/ Coming(p) /\ Coming(p)'
         \/ Coming(p) /\ pc'[p] = "unstage"
         \/ pc[p] \in Confirming /\ pc'[p] \in Confirming
  BY BusyStep
<1>3. Mute(p)
  BY <1>2 DEF Mute, HeardBy, Busy
<1>4. ~Publish(p) /\ ~Unpublish(p)
  <2>1. loc[p].now + TTL # Absent
    BY <1>1, LocalsType, LimitsNat DEF TypeInv, Absent
  <2>2. loc[p].run \in RunIds
    BY OwnRun
  <2> QED
    BY <1>1, <2>1, <2>2 DEF Publish, Unpublish, Published
<1>5. CASE Coming(p) /\ Coming(p)'
  <2>1. \A s : /\ ~Backs(p, s) /\ ~Backs(p, s)'
               /\ Comes(p, s)' <=> Comes(p, s)
    BY <1>2, <1>5 DEF Comes, Coming, Backs, Confirming, Past
  <2>2. Steady
    BY <1>1, <2>1, PhaseSame DEF Steady
  <2> QED
    BY <1>3, <2>2, StutterMaps
<1>6. CASE pc[p] \in Confirming /\ pc'[p] \in Confirming
  <2>1. \A s : /\ ~Comes(p, s) /\ ~Comes(p, s)'
               /\ Backs(p, s)' <=> Backs(p, s)
    BY <1>2, <1>6 DEF Busy, Comes, Coming, Backs, Confirming, Past
  <2>2. Steady
    BY <1>1, <2>1, PhaseSame DEF Steady
  <2> QED
    BY <1>3, <2>2, StutterMaps
<1>7. CASE Coming(p) /\ pc'[p] = "unstage"
  <2>1. PICK r \in RunIds : r = loc[p].run
    BY OwnRun
  <2>2. receipt[r] = "pending" /\ PhaseOf(r) = "pending"
        /\ records[r] = Absent
    BY <1>7, <2>1, OwnRun, BusyShape DEF Stored
  <2>3. /\ PhaseOf(r)' = "void"
        /\ \A s \in RunIds \ {r} : PhaseOf(s)' = PhaseOf(s)
    BY <1>2, <1>7, <2>1, <2>2, VoidShape
  <2>4. RunMove(r)
    BY <2>2, <2>3 DEF RunMove
  <2> QED
    BY <1>1, <1>3, <2>4, MoveMaps
<1> QED
  BY <1>2, <1>4, <1>5, <1>6, <1>7

\* A process without a commit tells the truth.
LEMMA Truth ==
  ASSUME Known, Known', NEW p \in Procs, Common(p), loc[p].op # "commit",
         pc'[p] = "idle", NEW a \in Said, a = result'[p], NEW r \in RunIds,
         r = loc[p].run
  PROVE  Claims(r, a)
<1>1. /\ pc \in [Procs -> Labels] /\ loc \in [Procs -> Locals] /\ TypeInv
      /\ LocalOK(p) /\ SafeInv /\ PathOK(p) /\ ErasedOK(p)
      /\ result \in [Procs -> Answers] /\ NoRun \notin RunIds
  BY RunIdsFinite
  DEF Known, Safe, LocalInv, PathInv, ErasedInv, TypeInv, ControlOK
<1>2. ASSUME NEW b, Finish(p, b)
      PROVE  a = b
  BY <1>1, <1>2 DEF Finish
<1>3. ASSUME NEW b, Return(p, b)
      PROVE  a = b /\ loc[p].ret \in {"lookup", "delete"}
  BY <1>1, <1>2, <1>3 DEF Return, Goto
<1>4. ASSUME NEW l, Goto(p, l)
      PROVE  l = "idle"
  BY <1>1, <1>4 DEF Goto
<1>5. ASSUME r \notin Published, ~MayCome(r), a # "active"
      PROVE  Claims(r, a)
  BY <1>5, PhaseFacts DEF Claims, Stored
<1>6. ASSUME r \notin Published, a = "not_found"
      PROVE  Claims(r, a)
  BY <1>6, PhaseFacts DEF Claims
<1>7. ASSUME r \in Published, a \in {"active", "active_empty"}
      PROVE  Claims(r, a)
  BY <1>7, PhaseFacts DEF Claims
<1>13. ASSUME r \in Published, clock >= records[r], a = "expired"
       PROVE  Claims(r, a)
  BY <1>13, PhaseFacts DEF Claims, Stored
<1>8. CASE SweepStep(p)
  <2>1. AfterSweep(loc[p].op) # "idle"
    BY DEF AfterSweep
  <2> QED
    BY <1>4, <1>8, <2>1 DEF SweepStep, SweepSkip, SweepExpire, SweepDone
<1>9. CASE RemoveStep(p)
  <2>1. CASE TombRename(p)
    <3>1. /\ pc[p] = "tomb_rename"
          /\ a = IF Deleting(p) THEN "removed" ELSE "expired"
          /\ loc[p].ret \in {"lookup", "delete"}
      BY <1>3, <2>1 DEF TombRename
    <3>2. loc[p].cur = r
      BY <1>1, <3>1 DEF PathOK, ErasedOK, Removal
    <3>3. ~MayCome(r)
      BY <1>1, <3>1, <3>2 DEF SafeInv, ComeInv, Holds, Removal
    <3>4. r \in Published => ~Deleting(p) /\ clock >= records[r]
      BY <1>1, <3>1, <3>2
      DEF SafeInv, GoneInv, GoneOK, Erasing, Overlooked
    <3> QED
      BY <1>5, <1>13, <3>1, <3>3, <3>4
  <2>2. CASE MoveAsideLost(p) \/ TombRenameLost(p)
    BY <1>2, <2>2, SMTT(30) DEF MoveAsideLost, TombRenameLost, Abort, Said
  <2> QED
    BY <1>4, <1>9, <2>1, <2>2
    DEF RemoveStep, ExpireFind, MoveAside, RemoveDir, TombCreate, TombWrite
<1>10. CASE UsageStep(p)
  BY <1>2, <1>4, <1>10
  DEF UsageStep, StreamTooBig, UsageList, UsageLost, UsageStatus, UsageRoom,
      UsageSweep, UsageFull, Abort, Said
<1>11. CASE LookupStep(p)
  <2>1. ~ReportNothing(p)
    BY <1>1 DEF ReportNothing, LookupRun, PathOK
  <2>2. CASE ReadTombstone(p)
    <3>1. /\ pc[p] = "lookup" /\ a \in {"expired", "deleted"}
          /\ tomb[<<LookupRun(p), Final>>].state = a
      BY <1>2, <1>4, <2>2 DEF ReadTombstone
    <3>2. LookupRun(p) = r
      BY <1>1, <3>1 DEF LookupRun, PathOK
    <3>3. tomb[<<r, Final>>] # NoFile
      BY <3>1, <3>2 DEF NoFile
    <3>4. /\ ~MayCome(r)
          /\ r \in Published => clock >= records[r] /\ a = "expired"
      BY <1>1, <3>1, <3>2, <3>3, TombIsEnd
    <3> QED
      BY <1>5, <1>13, <3>1, <3>4
  <2>3. CASE DropTombstone(p)
    <3>1. /\ pc[p] = "drop_tomb" /\ a = "not_found"
          /\ loc[p].ret = "delete"
      BY <1>3, <1>4, <2>3 DEF DropTombstone
    <3>2. loc[p].cur = r
      BY <1>1, <3>1 DEF ErasedOK
    <3>3. r \notin Published
      BY <3>1, <3>2 DEF Known, DropInv
    <3> QED
      BY <1>6, <3>1, <3>3
  <2>4. CASE FindRecord(p)
    BY <1>2, <1>4, <1>6, <2>4 DEF FindRecord
  <2>5. CASE ReadManifest(p)
    <3>1. a \in {"corrupt", "active"} /\ (a = "active" => r \in Published)
      BY <1>2, <1>4, <2>5 DEF ReadManifest
    <3> QED
      BY <1>7, <3>1 DEF Said
  <2>6. CASE ReadData(p)
    <3>1. a \in {"storage_error", "active"} /\ (a = "active" => r \in Published)
      BY <1>2, <2>6 DEF ReadData
    <3> QED
      BY <1>7, <3>1 DEF Said
  <2>7. CASE ReadNothing(p)
    <3>1. a = "active_empty" /\ pc[p] = "read_data"
      BY <1>2, <2>7 DEF ReadNothing
    <3>2. ~MayCome(r)
      BY <1>1, <3>1 DEF SafeInv, ComeInv, Holds
    <3> QED
      BY <1>5, <1>7, <3>1, <3>2
  <2> QED
    BY <1>11, <2>1, <2>2, <2>3, <2>4, <2>5, <2>6, <2>7 DEF LookupStep
<1>12. CASE PurgeStep(p)
  <2>1. CASE DeleteGone(p)
    <3>1. /\ pc[p] = "delete" /\ loc[p].cur \notin Published
          /\ loc[p].ret \in {"lookup", "delete"}
          /\ \/ a = "not_found"
             \/ /\ a = "already_gone"
                /\ tomb[<<loc[p].cur, Final>>].state # "none"
      BY <1>3, <1>4, <2>1 DEF DeleteGone
    <3>2. loc[p].cur = r
      BY <1>1, <3>1 DEF LocalOK, Deleting, ErasedOK
    <3>3. CASE a = "already_gone"
      <4>1. tomb[<<r, Final>>] # NoFile
        BY <3>1, <3>2, <3>3 DEF NoFile
      <4>2. ~MayCome(r)
        BY <1>1, <4>1, TombIsEnd
      <4> QED
        BY <1>5, <3>1, <3>2, <3>3, <4>2
    <3> QED
      BY <1>6, <3>1, <3>2, <3>3
  <2>2. ~DeleteFind(p) /\ ~PurgeList(p) /\ ~PurgeRecord(p)
        /\ ~PurgeListFiles(p) /\ ~PurgeFile(p)
    BY <1>4
    DEF DeleteFind, PurgeList, PurgeRecord, PurgeListFiles, PurgeFile
  <2> QED
    BY <1>2, <1>12, <2>1, <2>2
    DEF PurgeStep, PurgeUnreadable, PurgeDone, Abort, Said
<1> QED
  BY <1>8, <1>9, <1>10, <1>11, <1>12 DEF Common

\* Only a process that has started takes steps, or fails.
LEMMA NotIdle ==
  ASSUME Known, NEW p \in Procs, Step(p) \/ IoFault(p)
  PROVE  pc[p] # "idle"
<1>1. Common(p) => pc[p] # "idle"
  BY CommonOutcome DEF Known, Safe, Past
<1>2. CommitStep(p) => pc[p] # "idle"
  BY DEF CommitStep, Stage, WriteFiles, Publish, WriteLastRun, SyncRoot,
         Unstage, Unpublish, UnpublishGone, DropFailed, IndexTooBig
<1>3. IoFault(p) => pc[p] # "idle"
  BY DEF IoFault, AbortingSteps
<1> QED
  BY <1>1, <1>2, <1>3 DEF Step, Common

\* A process that has no commit changes no run.
LEMMA OtherMaps ==
  ASSUME Known, Known', NEW p \in Procs, Alone(p), loc[p].op # "commit",
         Step(p) \/ IoFault(p), receipt' = receipt, records' = records,
         OthersMute(p)
  PROVE  Lifecycle!Next \/ UNCHANGED Lifecycle!lifecycle
<1>1. /\ pc \in [Procs -> Labels] /\ loc \in [Procs -> Locals] /\ TypeInv
      /\ TypeInv' /\ LocalInv /\ result \in [Procs -> Answers]
  BY DEF Known, Safe, TypeInv, ControlOK
<1>2. ~CommitStep(p)
  BY <1>1
  DEF CommitStep, Stage, WriteFiles, Publish, WriteLastRun, SyncRoot, Unstage,
      Unpublish, UnpublishGone, DropFailed, IndexTooBig, TypeInv, CommitOK, CommitLabels
<1>3. \/ Common(p)
      \/ Finish(p, "storage_error") \/ Finish(p, "corrupt")
      \/ Goto(p, "tomb_create") /\ loc' = loc
      \/ /\ pc' = pc
         /\ \E r \in loc[p].todo : loc' = [loc EXCEPT ![p].todo = @ \ {r}]
  BY <1>1, <1>2
  DEF Step, Common, IoFault, Fail, Abort, TypeInv, CommitOK, CommitLabels
<1>4. pc[p] # "idle"
  BY NotIdle
<1>5. loc'[p].op # "commit"
  <2>1. CASE Step(p)
    BY <1>1, <2>1, OpStays
  <2>2. CASE ~Step(p)
    <3>1. CASE \E a : Finish(p, a)
      BY <1>1, <3>1, FinishLocal
    <3>2. CASE \E r \in loc[p].todo : loc' = [loc EXCEPT ![p].todo = @ \ {r}]
      BY <1>1, <3>2 DEF Locals
    <3>3. CASE loc' = loc
      BY <3>3
    <3> QED
      BY <1>2, <1>3, <2>2, <3>1, <3>2, <3>3 DEF Step, Common
  <2> QED
    BY <2>1, <2>2
<1>6. Steady
  <2>1. \A s : ~Backs(p, s) /\ ~Comes(p, s) /\ ~Backs(p, s)' /\ ~Comes(p, s)'
    BY <1>5 DEF Backs, Comes, Coming
  <2> QED
    BY <1>1, <2>1, PhaseSame DEF Steady
<1>7. CASE HeardBy(p)' = NoAnswer
  BY <1>6, <1>7, HearMaps
<1>8. CASE HeardBy(p)' # NoAnswer
  <2>1. PICK a, r : a = result'[p] /\ r = loc'[p].run
    OBVIOUS
  <2>2. /\ pc'[p] = "idle" /\ r # NoRun /\ a \in Said
        /\ HeardBy(p)' = <<r, a>>
    BY <1>8, <2>1 DEF HeardBy, Said
  <2>3. r \in RunIds
    BY <1>1, <2>1, <2>2, LocalsType DEF TypeInv, ControlOK, Locals
  <2>4. Common(p)
    <3>1. ASSUME NEW b, Finish(p, b)
          PROVE  a = b
      BY <1>1, <2>1, <3>1 DEF Finish
    <3>2. ~Goto(p, "tomb_create")
      BY <1>1, <2>2 DEF Goto
    <3> QED
      BY <1>3, <1>4, <2>2, <3>1, <3>2 DEF Said
  <2>5. r = loc[p].run
    <3>1. \E b : Finish(p, b)
      BY <1>1, <2>2, <2>4, CommonOutcome DEF Past
    <3> QED
      BY <1>1, <2>1, <3>1, FinishLocal
  <2>6. Claims(r, a)
    BY <2>1, <2>2, <2>3, <2>4, <2>5, Truth
  <2> QED
    BY <1>6, <2>2, <2>3, <2>6, HearMaps
<1> QED
  BY <1>7, <1>8

\* Time passes.
LEMMA TickMaps ==
  ASSUME Known, Tick
  PROVE  Lifecycle!Next
<1> DEFINE S == {r \in RunIds : PhaseOf(r) = "live" /\ PhaseOf(r)' = "lapsed"}
           phase == [r \in RunIds |-> PhaseOf(r)]
<1>1. /\ UNCHANGED <<records, pc, loc, receipt, result>>
      /\ clock \in Nat /\ clock' = clock + 1 /\ records \in [RunIds -> Nat]
  BY DEF Tick, disk, Known, Safe, TypeInv, WorldOK, DiskOK
<1>2. ASSUME NEW r \in RunIds
      PROVE  \/ PhaseOf(r)' = PhaseOf(r) /\ r \notin S
             \/ PhaseOf(r)' = "lapsed" /\ r \in S
  <2>1. \A L : CommitAt(r, L)' <=> CommitAt(r, L)
    BY <1>1 DEF CommitAt
  <2>2. clock' < records[r] => clock < records[r]
    BY <1>1
  <2> QED
    BY <1>1, <2>1, <2>2 DEF PhaseOf
<1>3. \A p \in Procs : HeardBy(p)' = HeardBy(p)
  BY <1>1 DEF HeardBy
<1>4. phase' = [r \in RunIds |-> IF r \in S THEN "lapsed" ELSE phase[r]]
  BY <1>2
<1>5. \A r \in S : phase[r] = "live"
  OBVIOUS
<1>6. S \in SUBSET RunIds
  OBVIOUS
<1> HIDE DEF S
<1>7. Lifecycle!Lapse(S)
  BY <1>1, <1>3, <1>4, <1>5 DEF Lifecycle!Lapse
<1> QED
  BY <1>6, <1>7 DEF Lifecycle!Next

\* Every step.
LEMMA StepMaps ==
  ASSUME Known, Known', [Next]_vars
  PROVE  Lifecycle!Next \/ UNCHANGED Lifecycle!lifecycle
<1>1. TypeInv /\ TypeInv' /\ LocalInv /\ PathInv
  BY DEF Known, Safe
<1>2. CASE UNCHANGED vars
  <2>1. UNCHANGED <<clock, records, pc, loc, receipt, result>>
    BY <1>2 DEF vars
  <2>2. \A r \in RunIds : PhaseOf(r)' = PhaseOf(r)
    BY <2>1 DEF PhaseOf, CommitAt
  <2>3. \A p \in Procs : HeardBy(p)' = HeardBy(p)
    BY <2>1 DEF HeardBy
  <2> QED
    BY <2>1, <2>2, <2>3 DEF Lifecycle!lifecycle
<1>4. CASE Tick
  BY <1>4, TickMaps
<1>3. ASSUME NEW p \in Procs, Open(p) \/ Step(p) \/ IoFault(p) \/ Crash(p)
      PROVE  Lifecycle!Next \/ UNCHANGED Lifecycle!lifecycle
  <2>1. Alone(p)
    BY <1>1, <1>3, StepLocal
  <2>2. /\ OthersMute(p)
        /\ pc[p] # "idle" => HeardBy(p) = NoAnswer
        /\ pc'[p] # "idle" => HeardBy(p)' = NoAnswer
    BY <1>1, <1>3, <2>1, Voices
  <2>3. CASE Open(p)
    BY <2>1, <2>2, <2>3, OpenMaps
  <2>4. CASE Crash(p)
    BY <2>1, <2>2, <2>4, CrashMaps
  <2>5. CASE Step(p) \/ IoFault(p)
    <3>1. CASE records' # records
      BY <2>1, <2>2, <2>5, <3>1, RecordSteps, RecordMaps
    <3>2. CASE records' = records /\ receipt' = receipt
      <4>1. pc[p] # "idle"
        BY <2>5, NotIdle
      <4> QED
        BY <2>1, <2>2, <2>5, <3>2, <4>1, BusyMaps, OtherMaps DEF Busy
    <3>3. CASE records' = records /\ receipt' # receipt
      <4>1. /\ Busy(p) /\ pc'[p] = "idle"
            /\ \E a \in {"stored"} \cup Refusals :
                  /\ Finish(p, a)
                  /\ receipt' = [receipt EXCEPT ![loc[p].run] = a]
                  /\ a = "stored" => SyncRoot(p)
        BY <1>1, <2>5, <3>3, Receipts DEF PathInv
      <4>2. Mute(p)
        <5>1. result'[p] \in {"stored"} \cup Refusals
          BY <1>1, <4>1 DEF Finish, TypeInv, ControlOK
        <5>2. HeardBy(p)' = NoAnswer
          BY <5>1 DEF HeardBy, Refusals
        <5> QED
          BY <2>2, <4>1, <5>2 DEF Mute, Busy
      <4> QED
        BY <2>1, <3>3, <4>1, <4>2, AnswerMaps
    <3> QED
      BY <3>1, <3>2, <3>3
  <2> QED
    BY <1>3, <2>3, <2>4, <2>5
<1> QED
  BY <1>2, <1>3, <1>4 DEF Next

\* The store looks like one table: runs are published once, removed once and
\* never come back, receipts tell the truth, and every answer is true at the
\* moment it is given, for every number of processes, runs and kills, as long as
\* no second I/O error hits the clean-up after the first.
THEOREM KeepsLifecycleHolds ==
  ASSUME MaxFaults <= 1
  PROVE  Spec => KeepsLifecycle
<1>1. Init => Lifecycle!Init
  <2> SUFFICES ASSUME Init PROVE Lifecycle!Init
    OBVIOUS
  <2>1. \A r \in RunIds : receipt[r] = "unused"
    BY DEF Init
  <2>2. \A r \in RunIds : PhaseOf(r) = "unused"
    BY <2>1 DEF PhaseOf
  <2>3. \A p \in Procs : HeardBy(p) = NoAnswer
    BY DEF Init, HeardBy
  <2> QED
    BY <2>2, <2>3 DEF Init, Lifecycle!Init
<1>2. Known /\ [Next]_vars => Known'
  BY KnownNext
<1>3. Known /\ Known' /\ [Next]_vars
         => [Lifecycle!Next]_(Lifecycle!lifecycle)
  BY StepMaps
<1> QED
  BY <1>1, <1>2, <1>3, KnownInit, PTL DEF Spec, KeepsLifecycle, Lifecycle!Spec
===============================================================================
