--------------------------- MODULE RunStoreProofs ---------------------------
(***************************************************************************)
(* Proofs about RunStore for every number of processes, runs and records   *)
(* and every setting of the limits: its type correctness and the quota     *)
(* bound.                                                                  *)
(***************************************************************************)
EXTENDS RunStore, FiniteSetTheorems, TLAPS

(* TypeOK in three parts: the disk, the environment, the processes.          *)

DiskOK ==
    /\ records \in [RunIds -> Nat]
    /\ hidden \subseteq Kinds \X RunIds
    /\ tomb \in [Entries -> Files]
    /\ lastRun \in RunIds \cup {NoRun}

WorldOK ==
    /\ clock \in Nat /\ faults \in Nat /\ crashes \in Nat
    /\ size \in [RunIds -> Nat]

ControlOK ==
    /\ pc \in [Procs -> Labels]
    /\ loc \in [Procs -> Locals]
    /\ result \in [Procs -> Answers]
    /\ receipt \in [RunIds -> Answers \cup {"unused", "pending"}]

CommitLabels == {"stage", "write", "publish", "last_run", "sync_root",
                 "unstage", "unpublish", "drop_failed"}

\* What makes TypeOK inductive: only a commit stages and publishes, and a commit
\* has a run id.
CommitOK ==
    \A p \in Procs :
        /\ pc[p] \in CommitLabels => loc[p].op = "commit"
        /\ loc[p].op = "commit" => loc[p].run \in RunIds

TypeInv == DiskOK /\ WorldOK /\ ControlOK /\ CommitOK

\* The three parts are the type invariant.
LEMMA TypeParts == TypeOK <=> DiskOK /\ WorldOK /\ ControlOK
  BY DEF TypeOK, DiskOK, WorldOK, ControlOK

-----------------------------------------------------------------------------
(* What the control operators do to the processes' part.                     *)

\* The types of a process's local variables.
LEMMA LocalsType ==
  ASSUME ControlOK, NEW p \in Procs
  PROVE  /\ loc[p].op \in Operations \cup {"none"}
         /\ loc[p].run \in RunIds \cup {NoRun}
         /\ loc[p].cur \in RunIds \cup {NoRun}
         /\ loc[p].now \in Nat
         /\ loc[p].todo \subseteq RunIds
         /\ loc[p].files \subseteq Entries
         /\ loc[p].ret \in {"sweep", "lookup", "delete", "purge"}
         /\ loc[p].retried \in BOOLEAN
         /\ loc \in [Procs -> Locals]
  BY DEF ControlOK, Locals

\* The local variables a process starts with.
LEMMA FreshType == Fresh \in Locals /\ Fresh.op = "none"
  BY DEF Fresh, Locals, Operations

\* A step that moves one process to another label and leaves every process its
\* operation and every commit its run.
LEMMA GotoType ==
  ASSUME ControlOK, CommitOK, NEW p \in Procs, NEW l \in Labels, Goto(p, l),
         l \in CommitLabels => loc[p].op = "commit",
         loc' \in [Procs -> Locals],
         \A q \in Procs :
            /\ loc'[q].op = loc[q].op
            /\ loc[q].op = "commit" => loc'[q].run = loc[q].run
  PROVE  ControlOK' /\ CommitOK'
<1>1. ControlOK'
  BY DEF ControlOK, Goto
<1>2. ASSUME NEW q \in Procs
      PROVE  /\ pc'[q] \in CommitLabels => loc'[q].op = "commit"
             /\ loc'[q].op = "commit" => loc'[q].run \in RunIds
  <2>1. pc'[q] = IF q = p THEN l ELSE pc[q]
    BY DEF ControlOK, Goto
  <2> QED
    BY <2>1 DEF CommitOK
<1> QED
  BY <1>1, <1>2 DEF CommitOK

\* An answer ends the operation and keeps its name and its run.
LEMMA FinishType ==
  ASSUME ControlOK, CommitOK, NEW p \in Procs, NEW a \in Answers, Finish(p, a)
  PROVE  ControlOK' /\ CommitOK'
<1> DEFINE l == [Fresh EXCEPT !.op = loc[p].op, !.run = loc[p].run]
<1>1. l \in Locals /\ l.op = loc[p].op /\ l.run = loc[p].run
  BY LocalsType DEF Fresh, Locals
<1>2. loc' = [loc EXCEPT ![p] = l]
  BY DEF Finish
<1> HIDE DEF l
<1>3. loc' \in [Procs -> Locals]
  BY <1>1, <1>2, LocalsType
<1>4. /\ pc' \in [Procs -> Labels]
      /\ result' \in [Procs -> Answers]
      /\ receipt' \in [RunIds -> Answers \cup {"unused", "pending"}]
  BY DEF ControlOK, Finish, Labels
<1>5. ASSUME NEW q \in Procs
      PROVE  /\ pc'[q] \in CommitLabels => loc'[q].op = "commit"
             /\ loc'[q].op = "commit" => loc'[q].run \in RunIds
  <2>1. loc'[q].op = loc[q].op /\ loc'[q].run = loc[q].run
    BY <1>1, <1>2, LocalsType
  <2>2. pc'[q] = IF q = p THEN "idle" ELSE pc[q]
    BY DEF Finish, ControlOK
  <2> QED
    BY <2>1, <2>2 DEF CommitOK, CommitLabels
<1> QED
  BY <1>3, <1>4, <1>5 DEF ControlOK, CommitOK

\* An error ends the operation.
LEMMA AbortType ==
  ASSUME ControlOK, CommitOK, NEW p \in Procs, Abort(p)
  PROVE  ControlOK' /\ CommitOK'
  BY FinishType DEF Abort, Answers

\* So does an I/O error, whatever a commit calls it.
LEMMA FailType ==
  ASSUME ControlOK, CommitOK, NEW p \in Procs, Fail(p)
  PROVE  ControlOK' /\ CommitOK'
  BY AbortType, FinishType DEF Fail, Answers

\* A removal goes back to its loop, or answers for its handler.
LEMMA ReturnType ==
  ASSUME ControlOK, CommitOK, NEW p \in Procs, NEW a \in Answers, Return(p, a)
  PROVE  ControlOK' /\ CommitOK'
<1>1. CASE loc[p].ret \in {"lookup", "delete"}
  BY <1>1, FinishType, SMTT(30) DEF Return
<1>2. CASE loc[p].ret \in {"sweep", "purge"}
  <2>1. /\ loc' = [loc EXCEPT ![p].todo = @ \ {loc[p].cur}, ![p].cur = NoRun]
        /\ Goto(p, loc[p].ret)
    BY <1>2 DEF Return
  <2>2. loc' \in [Procs -> Locals]
    BY <2>1, LocalsType DEF Locals
  <2>3. \A q \in Procs : loc'[q].op = loc[q].op /\ loc'[q].run = loc[q].run
    BY <2>1, LocalsType DEF Locals
  <2> QED
    BY <1>2, <2>1, <2>2, <2>3, GotoType DEF Labels, CommitLabels
<1> QED
  BY <1>1, <1>2, LocalsType

\* A step that touches no process.
LEMMA SameControl ==
  ASSUME ControlOK, CommitOK, UNCHANGED <<pc, loc, result, receipt>>
  PROVE  ControlOK' /\ CommitOK'
  BY DEF ControlOK, CommitOK

\* A step that moves a process and leaves every local variable.
LEMMA JumpType ==
  ASSUME ControlOK, CommitOK, NEW p \in Procs, NEW l \in Labels, Goto(p, l),
         l \in CommitLabels => loc[p].op = "commit", UNCHANGED loc
  PROVE  ControlOK' /\ CommitOK'
  BY GotoType, LocalsType

\* A step that touches neither the disk nor the environment.
LEMMA SameWorld ==
  ASSUME DiskOK, WorldOK, UNCHANGED <<disk, world>>
  PROVE  DiskOK' /\ WorldOK'
  BY DEF DiskOK, WorldOK, disk, world

-----------------------------------------------------------------------------
(* Every action preserves TypeInv.                                           *)

\* Opening the store.
LEMMA OpenType ==
  ASSUME TypeInv, NEW p \in Procs, Open(p)
  PROVE  TypeInv'
<1> USE DEF TypeInv
<1>1. PICK o \in Ops : \E r \in Targets(o), listing \in SweepListings :
        /\ loc' = [loc EXCEPT ![p] =
                      [Fresh EXCEPT !.op = o, !.run = r, !.now = clock,
                                    !.todo = listing]]
        /\ IF o = "commit"
           THEN /\ receipt' = [receipt EXCEPT ![r] = "pending"]
                /\ \E s \in Sizes : size' = [size EXCEPT ![r] = s]
           ELSE UNCHANGED <<receipt, size>>
  BY DEF Open
<1>2. PICK r \in Targets(o), listing \in SweepListings :
        /\ loc' = [loc EXCEPT ![p] =
                      [Fresh EXCEPT !.op = o, !.run = r, !.now = clock,
                                    !.todo = listing]]
        /\ IF o = "commit"
           THEN /\ receipt' = [receipt EXCEPT ![r] = "pending"]
                /\ \E s \in Sizes : size' = [size EXCEPT ![r] = s]
           ELSE UNCHANGED <<receipt, size>>
  BY <1>1
<1> DEFINE l == [Fresh EXCEPT !.op = o, !.run = r, !.now = clock,
                              !.todo = listing]
<1>3. r \in RunIds \cup {NoRun} /\ (o = "commit" => r \in RunIds)
  BY DEF Targets
<1>4. listing \subseteq RunIds
  BY DEF SweepListings, Published
<1>5. l \in Locals /\ l.op = o /\ l.run = r
  BY <1>3, <1>4, OpsKnown DEF Fresh, Locals, WorldOK
<1>6. loc' = [loc EXCEPT ![p] = l]
  BY <1>2
<1> HIDE DEF l
<1>7. loc' \in [Procs -> Locals]
  BY <1>5, <1>6, LocalsType
<1>8. receipt' \in [RunIds -> Answers \cup {"unused", "pending"}]
  BY <1>2 DEF ControlOK
<1>9. size' \in [RunIds -> Nat]
  BY <1>2, SizesNat DEF WorldOK
<1>10. DiskOK' /\ WorldOK'
  BY <1>9 DEF DiskOK, WorldOK, disk, Open
<1>11. /\ pc' = [pc EXCEPT ![p] = "sweep"]
       /\ result' = [result EXCEPT ![p] = "none"]
  BY DEF Open
<1>12. ControlOK'
  BY <1>7, <1>8, <1>11 DEF ControlOK, Labels, Answers
<1>13. ASSUME NEW q \in Procs
       PROVE  /\ pc'[q] \in CommitLabels => loc'[q].op = "commit"
              /\ loc'[q].op = "commit" => loc'[q].run \in RunIds
  <2>1. CASE q = p
    BY <2>1, <1>3, <1>5, <1>6, <1>11, LocalsType DEF ControlOK, CommitLabels
  <2>2. CASE q # p
    BY <2>2, <1>6, <1>11, LocalsType DEF ControlOK, CommitOK
  <2> QED
    BY <2>1, <2>2
<1> QED
  BY <1>10, <1>12, <1>13 DEF CommitOK

\* The sweep.
LEMMA SweepType ==
  ASSUME TypeInv, NEW p \in Procs, SweepStep(p)
  PROVE  TypeInv'
<1> USE DEF TypeInv
<1>1. CASE SweepSkip(p)
  <2>1. PICK r \in loc[p].todo : loc' = [loc EXCEPT ![p].todo = @ \ {r}]
    BY <1>1 DEF SweepSkip
  <2>2. /\ loc' \in [Procs -> Locals]
        /\ \A q \in Procs : loc'[q].op = loc[q].op /\ loc'[q].run = loc[q].run
    BY <2>1, LocalsType DEF Locals
  <2>3. ControlOK' /\ CommitOK'
    BY <1>1, <2>2 DEF SweepSkip, ControlOK, CommitOK
  <2> QED
    BY <1>1, <2>3, SameWorld DEF SweepSkip
<1>2. CASE SweepExpire(p)
  <2>1. PICK r \in loc[p].todo :
           loc' = [loc EXCEPT ![p].cur = r, ![p].ret = "sweep"]
    BY <1>2 DEF SweepExpire
  <2>2. /\ loc' \in [Procs -> Locals]
        /\ \A q \in Procs : loc'[q].op = loc[q].op /\ loc'[q].run = loc[q].run
    BY <2>1, LocalsType DEF Locals
  <2>3. ControlOK' /\ CommitOK'
    BY <1>2, <2>2, GotoType DEF SweepExpire, Labels, CommitLabels
  <2> QED
    BY <1>2, <2>3, SameWorld DEF SweepExpire
<1>3. CASE SweepDone(p)
  <2> DEFINE r == IF loc[p].op = "delete" THEN "delete" ELSE "lookup"
             l == [loc[p] EXCEPT !.todo = {}, !.cur = loc[p].run, !.ret = r]
  <2>1. loc' = [loc EXCEPT ![p] = l]
    BY <1>3 DEF SweepDone
  <2>2. r \in {"delete", "lookup"}
    OBVIOUS
  <2> HIDE DEF r
  <2>3. loc[p] \in Locals
    BY LocalsType
  <2>4. l \in Locals /\ l.op = loc[p].op /\ l.run = loc[p].run
    BY <2>2, <2>3 DEF Locals
  <2> HIDE DEF l
  <2>5. /\ loc' \in [Procs -> Locals]
        /\ \A q \in Procs : loc'[q].op = loc[q].op /\ loc'[q].run = loc[q].run
    BY <2>4, <2>1, LocalsType
  <2>6. AfterSweep(loc[p].op) \in Labels \ CommitLabels
    BY DEF AfterSweep, Labels, CommitLabels
  <2>7. ControlOK' /\ CommitOK'
    BY <1>3, <2>5, <2>6, GotoType DEF SweepDone
  <2> QED
    BY <1>3, <2>7, SameWorld DEF SweepDone
<1> QED
  BY <1>1, <1>2, <1>3 DEF SweepStep

\* expire_record, the removal of delete and purge, write_tombstone.
LEMMA RemoveType ==
  ASSUME TypeInv, NEW p \in Procs, RemoveStep(p)
  PROVE  TypeInv'
<1> USE DEF TypeInv
<1>1. CASE ExpireFind(p)
  BY <1>1, JumpType, SameWorld DEF ExpireFind, Labels, CommitLabels
<1>2. CASE MoveAside(p)
  <2>1. Aside(p) \in Kinds \X RunIds
    BY <1>2 DEF MoveAside, Aside, Kinds, Published
  <2>2. DiskOK' /\ WorldOK'
    BY <1>2, <2>1 DEF MoveAside, DiskOK, WorldOK, world, Absent
  <2> QED
    BY <1>2, <2>2, JumpType DEF MoveAside, Labels, CommitLabels
<1>3. CASE MoveAsideLost(p)
  BY <1>3, AbortType, SameWorld DEF MoveAsideLost
<1>4. CASE RemoveDir(p)
  <2> DEFINE n == IF Deleting(p) THEN clock ELSE loc[p].now
  <2>1. loc' = [loc EXCEPT ![p].now = n]
    BY <1>4 DEF RemoveDir
  <2>2. n \in Nat
    BY LocalsType DEF WorldOK
  <2> HIDE DEF n
  <2>3. /\ loc' \in [Procs -> Locals]
        /\ \A q \in Procs : loc'[q].op = loc[q].op /\ loc'[q].run = loc[q].run
    BY <2>1, <2>2, LocalsType DEF Locals
  <2>4. ControlOK' /\ CommitOK'
    BY <1>4, <2>3, GotoType DEF RemoveDir, Labels, CommitLabels
  <2>5. DiskOK' /\ WorldOK'
    BY <1>4 DEF RemoveDir, DiskOK, WorldOK, world
  <2> QED
    BY <2>4, <2>5
<1>5. CASE TombCreate(p)
  <2>1. tomb' \in [Entries -> Files]
    BY <1>5 DEF TombCreate, DiskOK, Partial, Files
  <2>2. DiskOK' /\ WorldOK'
    BY <1>5, <2>1 DEF TombCreate, DiskOK, WorldOK, world
  <2> QED
    BY <1>5, <2>2, JumpType DEF TombCreate, Labels, CommitLabels
<1>6. CASE TombWrite(p)
  <2> DEFINE f == [state |-> IF Deleting(p) THEN "deleted" ELSE "expired",
                   expires |-> loc[p].now + TombstoneTTL]
  <2>1. loc[p].now + TombstoneTTL \in Nat
    BY LocalsType, LimitsNat
  <2>2. f \in Files
    BY <2>1 DEF Files
  <2>3. tomb' = tomb \/ tomb' = [tomb EXCEPT ![<<loc[p].cur, p>>] = f]
    BY <1>6 DEF TombWrite
  <2> HIDE DEF f
  <2>4. tomb' \in [Entries -> Files]
    BY <2>2, <2>3 DEF DiskOK
  <2>5. DiskOK' /\ WorldOK'
    BY <1>6, <2>4 DEF TombWrite, DiskOK, WorldOK, world
  <2> QED
    BY <1>6, <2>5, JumpType DEF TombWrite, Labels, CommitLabels
<1>7. CASE TombRename(p)
  <2>1. <<loc[p].cur, Final>> \in Entries => <<loc[p].cur, p>> \in Entries
    BY DEF Entries
  <2>2. tomb' \in [Entries -> Files]
    BY <1>7, <2>1 DEF TombRename, DiskOK, NoFile, Files
  <2>3. DiskOK' /\ WorldOK'
    BY <1>7, <2>2 DEF TombRename, DiskOK, WorldOK, world
  <2>4. (IF Deleting(p) THEN "removed" ELSE "expired") \in Answers
    BY DEF Answers
  <2> QED
    BY <1>7, <2>3, <2>4, ReturnType DEF TombRename
<1>8. CASE TombRenameLost(p)
  BY <1>8, AbortType, SameWorld DEF TombRenameLost
<1> QED
  BY <1>1, <1>2, <1>3, <1>4, <1>5, <1>6, <1>7, <1>8 DEF RemoveStep

\* usage().
LEMMA UsageType ==
  ASSUME TypeInv, NEW p \in Procs, UsageStep(p)
  PROVE  TypeInv'
<1> USE DEF TypeInv
<1>1. CASE StreamTooBig(p)
  BY <1>1, FinishType, SameWorld DEF StreamTooBig, Answers
<1>2. CASE UsageList(p)
  <2>1. loc' = [loc EXCEPT ![p].todo = Published]
    BY <1>2 DEF UsageList
  <2>2. /\ loc' \in [Procs -> Locals]
        /\ \A q \in Procs : loc'[q].op = loc[q].op /\ loc'[q].run = loc[q].run
    BY <2>1, LocalsType DEF Locals, Published
  <2>3. ControlOK' /\ CommitOK'
    BY <1>2, <2>2, GotoType DEF UsageList, Labels, CommitLabels
  <2> QED
    BY <1>2, <2>3, SameWorld DEF UsageList
<1>3. CASE UsageLost(p)
  BY <1>3, AbortType, SameWorld DEF UsageLost
<1>4. CASE UsageStatus(p)
  BY <1>4, FinishType, SameWorld DEF UsageStatus, Answers
<1>5. CASE UsageRoom(p)
  <2>1. loc' = [loc EXCEPT ![p].todo = {}]
    BY <1>5 DEF UsageRoom
  <2>2. /\ loc' \in [Procs -> Locals]
        /\ \A q \in Procs : loc'[q].op = loc[q].op /\ loc'[q].run = loc[q].run
    BY <2>1, LocalsType DEF Locals
  <2>3. ControlOK' /\ CommitOK'
    BY <1>5, <2>2, GotoType DEF UsageRoom, Labels
  <2> QED
    BY <1>5, <2>3, SameWorld DEF UsageRoom
<1>6. CASE UsageSweep(p)
  <2>1. PICK listing \in SweepListings :
           loc' = [loc EXCEPT ![p].todo = listing, ![p].now = clock,
                              ![p].retried = TRUE]
    BY <1>6 DEF UsageSweep
  <2> DEFINE l == [loc[p] EXCEPT !.todo = listing, !.now = clock,
                                 !.retried = TRUE]
  <2>2. listing \subseteq RunIds /\ clock \in Nat
    BY DEF SweepListings, Published, WorldOK
  <2>3. loc[p] \in Locals
    BY LocalsType
  <2>4. l \in Locals /\ l.op = loc[p].op /\ l.run = loc[p].run
    BY <2>2, <2>3 DEF Locals
  <2>5. loc' = [loc EXCEPT ![p] = l]
    BY <2>1
  <2> HIDE DEF l
  <2>6. /\ loc' \in [Procs -> Locals]
        /\ \A q \in Procs : loc'[q].op = loc[q].op /\ loc'[q].run = loc[q].run
    BY <2>4, <2>5, LocalsType, SMTT(30)
  <2>7. ControlOK' /\ CommitOK'
    BY <1>6, <2>6, GotoType DEF UsageSweep, Labels, CommitLabels
  <2> QED
    BY <1>6, <2>7, SameWorld DEF UsageSweep
<1>7. CASE UsageFull(p)
  BY <1>7, FinishType, SameWorld DEF UsageFull, Answers
<1> QED
  BY <1>1, <1>2, <1>3, <1>4, <1>5, <1>6, <1>7 DEF UsageStep

\* commit().
LEMMA CommitType ==
  ASSUME TypeInv, NEW p \in Procs, CommitStep(p)
  PROVE  TypeInv'
<1> USE DEF TypeInv
<1>1. CASE Stage(p)
  <2>1. loc[p].run \in RunIds /\ loc[p].op = "commit"
    BY <1>1 DEF Stage, CommitOK, CommitLabels
  <2>2. DiskOK' /\ WorldOK'
    BY <1>1, <2>1 DEF Stage, DiskOK, WorldOK, world, Kinds
  <2> QED
    BY <1>1, <2>1, <2>2, JumpType DEF Stage, Labels
<1>2. CASE WriteFiles(p)
  <2>1. loc' = [loc EXCEPT ![p].now = clock]
    BY <1>2 DEF WriteFiles
  <2>2. /\ loc' \in [Procs -> Locals]
        /\ \A q \in Procs : loc'[q].op = loc[q].op /\ loc'[q].run = loc[q].run
    BY <2>1, LocalsType DEF Locals, WorldOK
  <2>3. ControlOK' /\ CommitOK'
    BY <1>2, <2>2, GotoType DEF WriteFiles, Labels, CommitOK, CommitLabels
  <2> QED
    BY <1>2, <2>3, SameWorld DEF WriteFiles
<1>3. CASE Publish(p)
  <2>1. loc[p].now + TTL \in Nat
    BY LocalsType, LimitsNat
  <2>2. DiskOK' /\ WorldOK'
    BY <1>3, <2>1 DEF Publish, DiskOK, WorldOK, world
  <2> QED
    BY <1>3, <2>2, JumpType DEF Publish, Labels, CommitOK, CommitLabels
<1>4. CASE WriteLastRun(p)
  <2>1. DiskOK' /\ WorldOK'
    BY <1>4, LocalsType DEF WriteLastRun, DiskOK, WorldOK, world
  <2> QED
    BY <1>4, <2>1, JumpType DEF WriteLastRun, Labels, CommitOK, CommitLabels
<1>5. CASE SyncRoot(p)
  BY <1>5, FinishType, SameWorld DEF SyncRoot, Answers
<1>6. CASE Unstage(p)
  <2>1. DiskOK' /\ WorldOK'
    BY <1>6 DEF Unstage, DiskOK, WorldOK, world
  <2> QED
    BY <1>6, <2>1, FailType DEF Unstage
<1>7. CASE Unpublish(p)
  <2>1. DiskOK' /\ WorldOK'
    BY <1>7 DEF Unpublish, DiskOK, WorldOK, world, Kinds, Published, Absent
  <2> QED
    BY <1>7, <2>1, JumpType DEF Unpublish, Labels, CommitOK, CommitLabels
<1>8. CASE UnpublishGone(p)
  BY <1>8, FailType, SameWorld DEF UnpublishGone
<1>9. CASE DropFailed(p)
  <2>1. DiskOK' /\ WorldOK'
    BY <1>9 DEF DropFailed, DiskOK, WorldOK, world
  <2> QED
    BY <1>9, <2>1, FailType DEF DropFailed
<1>10. CASE IndexTooBig(p)
  <2>1. DiskOK' /\ WorldOK'
    BY <1>10 DEF IndexTooBig, DiskOK, WorldOK, world
  <2> QED
    BY <1>10, <2>1, FinishType DEF IndexTooBig, Answers
<1> QED
  BY <1>1, <1>2, <1>3, <1>4, <1>5, <1>6, <1>7, <1>8, <1>9, <1>10 DEF CommitStep

\* lookup_manifest and its callers.
LEMMA LookupType ==
  ASSUME TypeInv, NEW p \in Procs, LookupStep(p)
  PROVE  TypeInv'
<1> USE DEF TypeInv
<1>1. CASE ReportNothing(p)
  BY <1>1, FinishType, SameWorld DEF ReportNothing, Answers
<1>2. CASE ReadTombstone(p)
  <2> DEFINE r == LookupRun(p)
             f == tomb[<<r, Final>>]
             l == [loc[p] EXCEPT !.run = r, !.cur = r, !.now = clock]
  <2>1. \/ f.state \in {"expired", "deleted"} /\ Finish(p, f.state)
        \/ /\ loc' = [loc EXCEPT ![p] = l]
           /\ Goto(p, IF f.state = "none" THEN "find_record" ELSE "drop_tomb")
    BY <1>2 DEF ReadTombstone
  <2>2. r \in RunIds \cup {NoRun} /\ (loc[p].op = "commit" => r = loc[p].run)
    BY LocalsType DEF LookupRun, DiskOK
  <2>3. ASSUME f.state \in {"expired", "deleted"} /\ Finish(p, f.state)
        PROVE  ControlOK' /\ CommitOK'
    BY <2>3, FinishType DEF Answers
  <2>4. ASSUME loc' = [loc EXCEPT ![p] = l],
               Goto(p, IF f.state = "none" THEN "find_record" ELSE "drop_tomb")
        PROVE  ControlOK' /\ CommitOK'
    <3>1. loc[p] \in Locals /\ clock \in Nat
      BY LocalsType DEF WorldOK
    <3> HIDE DEF r
    <3>2. l \in Locals /\ l.op = loc[p].op /\ l.run = r
      BY <2>2, <3>1 DEF Locals
    <3>3. loc' = [loc EXCEPT ![p] = l]
      BY <2>4
    <3>4. Goto(p, "find_record") \/ Goto(p, "drop_tomb")
      BY <2>4
    <3> HIDE DEF l
    <3>5. /\ loc' \in [Procs -> Locals]
          /\ \A q \in Procs :
                /\ loc'[q].op = loc[q].op
                /\ loc[q].op = "commit" => loc'[q].run = loc[q].run
      BY <2>2, <3>2, <3>3, LocalsType
    <3> QED
      BY <3>4, <3>5, GotoType DEF Labels, CommitLabels
  <2> QED
    BY <1>2, <2>1, <2>3, <2>4, SameWorld DEF ReadTombstone
<1>3. CASE DropTombstone(p)
  <2>1. tomb' \in [Entries -> Files]
    BY <1>3 DEF DropTombstone, DiskOK, NoFile, Files
  <2>2. DiskOK' /\ WorldOK'
    BY <1>3, <2>1 DEF DropTombstone, DiskOK, WorldOK, world
  <2>3. ASSUME Goto(p, "find_record") /\ UNCHANGED loc
        PROVE  ControlOK' /\ CommitOK'
    BY <2>3, JumpType DEF Labels, CommitLabels
  <2>4. ASSUME Return(p, "not_found")
        PROVE  ControlOK' /\ CommitOK'
    BY <2>4, ReturnType DEF Answers
  <2> QED
    BY <1>3, <2>2, <2>3, <2>4 DEF DropTombstone
<1>4. CASE FindRecord(p)
  <2>1. ASSUME Goto(p, "read_manifest") /\ UNCHANGED loc
        PROVE  ControlOK' /\ CommitOK'
    BY <2>1, JumpType DEF Labels, CommitLabels
  <2>2. ASSUME Finish(p, "not_found")
        PROVE  ControlOK' /\ CommitOK'
    BY <2>2, FinishType DEF Answers
  <2> QED
    BY <1>4, <2>1, <2>2, SameWorld DEF FindRecord
<1>5. CASE ReadManifest(p)
  <2>1. ASSUME Finish(p, "corrupt")
        PROVE  ControlOK' /\ CommitOK'
    BY <2>1, FinishType DEF Answers
  <2>2. ASSUME Goto(p, "expire") /\ UNCHANGED loc
        PROVE  ControlOK' /\ CommitOK'
    BY <2>2, JumpType DEF Labels, CommitLabels
  <2>3. ASSUME Finish(p, "active")
        PROVE  ControlOK' /\ CommitOK'
    BY <2>3, FinishType DEF Answers
  <2>4. ASSUME Goto(p, "read_data") /\ UNCHANGED loc
        PROVE  ControlOK' /\ CommitOK'
    BY <2>4, JumpType DEF Labels, CommitLabels
  <2> QED
    BY <1>5, <2>1, <2>2, <2>3, <2>4, SameWorld DEF ReadManifest
<1>6. CASE ReadData(p) \/ ReadNothing(p)
  BY <1>6, FinishType, SameWorld DEF ReadData, ReadNothing, Answers
<1> QED
  BY <1>1, <1>2, <1>3, <1>4, <1>5, <1>6 DEF LookupStep

\* delete() and purge().
LEMMA PurgeType ==
  ASSUME TypeInv, NEW p \in Procs, PurgeStep(p)
  PROVE  TypeInv'
<1> USE DEF TypeInv
<1>1. CASE DeleteFind(p)
  BY <1>1, JumpType, SameWorld DEF DeleteFind, Labels, CommitLabels
<1>2. CASE DeleteGone(p)
  <2>1. ASSUME Return(p, "not_found") \/ Return(p, "already_gone")
        PROVE  ControlOK' /\ CommitOK'
    BY <2>1, ReturnType DEF Answers
  <2>2. ASSUME Goto(p, "drop_tomb") /\ UNCHANGED loc
        PROVE  ControlOK' /\ CommitOK'
    BY <2>2, JumpType DEF Labels, CommitLabels
  <2> QED
    BY <1>2, <2>1, <2>2, SameWorld DEF DeleteGone
<1>3. CASE PurgeList(p)
  <2> DEFINE l == [loc[p] EXCEPT !.now = clock, !.todo = Published,
                                 !.ret = "purge"]
  <2>1. loc[p] \in Locals /\ clock \in Nat /\ Published \subseteq RunIds
    BY LocalsType DEF WorldOK, Published
  <2>2. l \in Locals /\ l.op = loc[p].op /\ l.run = loc[p].run
    BY <2>1 DEF Locals
  <2>3. loc' = [loc EXCEPT ![p] = l]
    BY <1>3 DEF PurgeList
  <2> HIDE DEF l
  <2>4. /\ loc' \in [Procs -> Locals]
        /\ \A q \in Procs : loc'[q].op = loc[q].op /\ loc'[q].run = loc[q].run
    BY <2>2, <2>3, LocalsType, SMTT(30)
  <2>5. ControlOK' /\ CommitOK'
    BY <1>3, <2>4, GotoType DEF PurgeList, Labels, CommitLabels
  <2> QED
    BY <1>3, <2>5, SameWorld DEF PurgeList
<1>4. CASE PurgeRecord(p)
  <2>1. PICK r \in loc[p].todo :
           /\ \/ loc' = [loc EXCEPT ![p].cur = r]
              \/ loc' = [loc EXCEPT ![p].todo = @ \ {r}]
           /\ Goto(p, "delete") \/ Goto(p, "expire") \/ Goto(p, "purge")
    BY <1>4 DEF PurgeRecord
  <2>2. r \in RunIds
    BY LocalsType
  <2>3. /\ loc' \in [Procs -> Locals]
        /\ \A q \in Procs : loc'[q].op = loc[q].op /\ loc'[q].run = loc[q].run
    BY <2>1, <2>2, LocalsType DEF Locals
  <2>4. ControlOK' /\ CommitOK'
    BY <2>1, <2>3, GotoType DEF Labels, CommitLabels
  <2> QED
    BY <1>4, <2>4, SameWorld DEF PurgeRecord
<1>5. CASE PurgeListFiles(p)
  <2>1. loc' = [loc EXCEPT ![p].files = {e \in Entries : tomb[e] # NoFile}]
    BY <1>5 DEF PurgeListFiles
  <2>2. /\ loc' \in [Procs -> Locals]
        /\ \A q \in Procs : loc'[q].op = loc[q].op /\ loc'[q].run = loc[q].run
    BY <2>1, LocalsType DEF Locals
  <2>3. ControlOK' /\ CommitOK'
    BY <1>5, <2>2, GotoType DEF PurgeListFiles, Labels, CommitLabels
  <2> QED
    BY <1>5, <2>3, SameWorld DEF PurgeListFiles
<1>6. CASE PurgeFile(p)
  <2>1. PICK e \in loc[p].files :
           /\ tomb' = [tomb EXCEPT ![e] = NoFile] \/ tomb' = tomb
           /\ loc' = [loc EXCEPT ![p].files = @ \ {e}]
    BY <1>6 DEF PurgeFile
  <2>2. tomb' \in [Entries -> Files]
    BY <2>1 DEF DiskOK, NoFile, Files
  <2>3. DiskOK' /\ WorldOK'
    BY <1>6, <2>2 DEF PurgeFile, DiskOK, WorldOK, world
  <2>4. /\ loc' \in [Procs -> Locals]
        /\ \A q \in Procs : loc'[q].op = loc[q].op /\ loc'[q].run = loc[q].run
    BY <2>1, LocalsType DEF Locals
  <2>5. ControlOK' /\ CommitOK'
    BY <1>6, <2>4 DEF PurgeFile, ControlOK, CommitOK
  <2> QED
    BY <2>3, <2>5
<1>7. CASE PurgeUnreadable(p)
  BY <1>7, AbortType, SameWorld DEF PurgeUnreadable
<1>8. CASE PurgeDone(p)
  BY <1>8, FinishType, SameWorld DEF PurgeDone, Answers
<1> QED
  BY <1>1, <1>2, <1>3, <1>4, <1>5, <1>6, <1>7, <1>8 DEF PurgeStep

\* An I/O error.
LEMMA IoFaultType ==
  ASSUME TypeInv, NEW p \in Procs, IoFault(p)
  PROVE  TypeInv'
<1> USE DEF TypeInv
<1>1. tomb' = tomb \/ tomb' = [tomb EXCEPT ![<<loc[p].cur, p>>] = NoFile]
  BY DEF IoFault
<1>2. DiskOK'
  BY <1>1 DEF IoFault, DiskOK, NoFile, Files
<1>3. WorldOK'
  BY DEF IoFault, WorldOK
<1>4. CASE Fail(p)
  BY <1>4, <1>2, <1>3, FailType
<1>5. CASE /\ \E r \in loc[p].todo : loc' = [loc EXCEPT ![p].todo = @ \ {r}]
           /\ UNCHANGED <<tomb, pc, result, receipt>>
  <2>1. PICK r \in loc[p].todo : loc' = [loc EXCEPT ![p].todo = @ \ {r}]
    BY <1>5
  <2>2. /\ loc' \in [Procs -> Locals]
        /\ \A q \in Procs : loc'[q].op = loc[q].op /\ loc'[q].run = loc[q].run
    BY <2>1, LocalsType DEF Locals
  <2>3. ControlOK' /\ CommitOK'
    BY <1>5, <2>2 DEF ControlOK, CommitOK
  <2> QED
    BY <1>2, <1>3, <2>3
<1>6. CASE Finish(p, "corrupt")
  BY <1>6, <1>2, <1>3, FinishType DEF Answers
<1>7. CASE pc[p] \in {"write", "publish"} /\ Goto(p, "unstage") /\ UNCHANGED loc
  BY <1>7, <1>2, <1>3, JumpType DEF Labels, CommitOK, CommitLabels
<1>8. CASE /\ pc[p] \in {"last_run", "sync_root"}
           /\ Goto(p, "unpublish") /\ UNCHANGED loc
  BY <1>8, <1>2, <1>3, JumpType DEF Labels, CommitOK, CommitLabels
<1>9. CASE Goto(p, "tomb_create") /\ UNCHANGED loc
  BY <1>9, <1>2, <1>3, JumpType DEF Labels, CommitLabels
<1> QED
  BY <1>4, <1>5, <1>6, <1>7, <1>8, <1>9 DEF IoFault

\* A kill.
LEMMA CrashType ==
  ASSUME TypeInv, NEW p \in Procs, Crash(p)
  PROVE  TypeInv'
<1> USE DEF TypeInv
<1>1. /\ loc' = [loc EXCEPT ![p] = Fresh]
      /\ pc' = [pc EXCEPT ![p] = "idle"]
      /\ result' = [result EXCEPT ![p] = "killed"]
      /\ receipt' = receipt
  BY DEF Crash
<1>2. loc' \in [Procs -> Locals]
  BY <1>1, FreshType, LocalsType
<1>3. ControlOK'
  BY <1>1, <1>2 DEF ControlOK, Labels, Answers
<1>4. CommitOK'
  BY <1>1, FreshType, LocalsType DEF CommitOK, CommitLabels, ControlOK
<1>5. DiskOK' /\ WorldOK'
  BY DEF Crash, DiskOK, WorldOK, disk
<1> QED
  BY <1>3, <1>4, <1>5

-----------------------------------------------------------------------------
(* TypeInv is inductive.                                                     *)

\* It holds at the start.
LEMMA TypeInit == Init => TypeInv
<1> SUFFICES ASSUME Init PROVE TypeInv
  OBVIOUS
<1>1. DiskOK
  BY DEF Init, DiskOK, Absent, NoFile, Files
<1>2. WorldOK
  BY DEF Init, WorldOK
<1>3. ControlOK
  BY FreshType DEF Init, ControlOK, Labels, Answers
<1>4. CommitOK
  BY FreshType DEF Init, CommitOK, CommitLabels
<1> QED
  BY <1>1, <1>2, <1>3, <1>4 DEF TypeInv

\* Every step keeps it.
LEMMA TypeNext == TypeInv /\ [Next]_vars => TypeInv'
<1> SUFFICES ASSUME TypeInv, [Next]_vars PROVE TypeInv'
  OBVIOUS
<1>1. CASE Tick
  BY <1>1 DEF Tick, TypeInv, DiskOK, WorldOK, ControlOK, CommitOK, disk
<1>2. ASSUME NEW p \in Procs, Open(p) \/ Step(p) \/ IoFault(p) \/ Crash(p)
      PROVE  TypeInv'
  BY <1>2, OpenType, SweepType, RemoveType, UsageType, CommitType, LookupType,
     PurgeType, IoFaultType, CrashType DEF Step
<1>3. CASE UNCHANGED vars
  BY <1>3 DEF vars, TypeInv, DiskOK, WorldOK, ControlOK, CommitOK
<1> QED
  BY <1>1, <1>2, <1>3 DEF Next

\* TypeInv holds in every reachable state.
THEOREM TypeInvariant == Spec => []TypeInv
  BY TypeInit, TypeNext, PTL DEF Spec

\* Type correctness: every variable of every reachable state, the local
\* variables of every process among them, has its type, through every
\* interleaving, I/O error and kill.
THEOREM TypeCorrect == Spec => []TypeOK
<1>1. TypeInv => TypeOK
  BY TypeParts DEF TypeInv
<1> QED
  BY <1>1, TypeInvariant, PTL

-----------------------------------------------------------------------------
(* The quota.  A commit is in flight from the moment it has found room (or is *)
(* sure to) until it publishes.  Listing the records puts a process in flight *)
(* only while fewer than MaxRecords are published, and publishing takes it    *)
(* out; every other step can only lower both counts.                          *)

InFlight ==
    {p \in Procs :
        \/ pc[p] \in {"stage", "write", "publish"}
        \/ /\ pc[p] = "usage_read" /\ loc[p].op = "commit"
           /\ Cardinality(loc[p].todo) < MaxRecords}

QuotaInv ==
    Cardinality(Published) + Cardinality(InFlight)
        <= MaxRecords + Cardinality(Procs) - 1

\* A step of p that puts nobody in flight, and one that publishes nothing.
NoTakeOff(p) ==
    /\ \A q \in Procs \ {p} : pc'[q] = pc[q] /\ loc'[q] = loc[q]
    /\ p \in InFlight' => p \in InFlight
Quiet(p) == NoTakeOff(p) /\ Published' \subseteq Published

\* Both sets are finite, and a listing is.
LEMMA FlightFinite ==
  /\ IsFiniteSet(Published) /\ Cardinality(Published) \in Nat
  /\ IsFiniteSet(InFlight) /\ Cardinality(InFlight) \in Nat
  /\ Cardinality(Procs) \in Nat /\ Cardinality(Procs) >= 1
  /\ Cardinality(InFlight) <= Cardinality(Procs)
<1>1. Published \subseteq RunIds /\ InFlight \subseteq Procs
  BY DEF Published, InFlight
<1>2. Cardinality(Procs) # 0
  BY ProcsFinite, FS_EmptySet
<1> QED
  BY <1>1, <1>2, ProcsFinite, RunIdsFinite, FS_Subset, FS_CardinalityType

\* A quiet step keeps the bound.
LEMMA QuietKeeps ==
  ASSUME QuotaInv, NEW p \in Procs, Quiet(p)
  PROVE  QuotaInv'
<1>1. InFlight' \subseteq InFlight
  BY DEF Quiet, NoTakeOff, InFlight
<1>2. /\ Cardinality(Published') <= Cardinality(Published)
      /\ Cardinality(Published') \in Nat
      /\ Cardinality(InFlight') <= Cardinality(InFlight)
      /\ Cardinality(InFlight') \in Nat
  BY <1>1, FlightFinite, FS_Subset, FS_CardinalityType DEF Quiet
<1> QED
  BY <1>2, FlightFinite, LimitsNat DEF QuotaInv

\* An answer takes a process out of flight.
LEMMA FinishQuiet ==
  ASSUME TypeInv, NEW p \in Procs, NEW a, Finish(p, a)
  PROVE  NoTakeOff(p)
<1>1. pc' = [pc EXCEPT ![p] = "idle"]
  BY DEF Finish
<1>2. \A q \in Procs \ {p} : loc'[q] = loc[q]
  BY DEF Finish, TypeInv, ControlOK
<1> QED
  BY <1>1, <1>2 DEF NoTakeOff, InFlight, TypeInv, ControlOK

\* So does a move to a label outside the flight.
LEMMA GotoQuiet ==
  ASSUME TypeInv, NEW p \in Procs, NEW l, Goto(p, l),
         l \notin {"usage_read", "stage", "write", "publish"},
         \A q \in Procs \ {p} : loc'[q] = loc[q]
  PROVE  NoTakeOff(p)
  BY DEF NoTakeOff, InFlight, TypeInv, ControlOK, Goto

\* And a removal that goes back to where it came from.
LEMMA ReturnQuiet ==
  ASSUME TypeInv, NEW p \in Procs, NEW a, Return(p, a)
  PROVE  NoTakeOff(p)
<1>1. CASE loc[p].ret \in {"sweep", "purge"} /\ Goto(p, loc[p].ret)
  <2>1. \A q \in Procs \ {p} : loc'[q] = loc[q]
    BY <1>1 DEF Return, Finish, TypeInv, ControlOK
  <2> QED
    BY <1>1, <2>1, GotoQuiet
<1>2. CASE Finish(p, a)
  BY <1>2, FinishQuiet
<1> QED
  BY <1>1, <1>2 DEF Return

\* The steps that neither list for a commit nor publish are quiet.
LEMMA SweepQuiet ==
  ASSUME TypeInv, NEW p \in Procs, SweepStep(p)
  PROVE  Quiet(p)
<1>1. Published' = Published
  BY DEF SweepStep, SweepSkip, SweepExpire, SweepDone, disk, Published
<1> SUFFICES NoTakeOff(p)
  BY <1>1 DEF Quiet
<1>2. \A q \in Procs \ {p} : loc'[q] = loc[q]
  BY DEF SweepStep, SweepSkip, SweepExpire, SweepDone, TypeInv, ControlOK
<1>3. CASE SweepSkip(p)
  BY <1>2, <1>3 DEF SweepSkip, NoTakeOff, InFlight
<1>4. CASE SweepExpire(p)
  BY <1>2, <1>4, GotoQuiet DEF SweepExpire
<1>5. CASE SweepDone(p)
  <2>1. AfterSweep(loc[p].op) \notin {"usage_read", "stage", "write", "publish"}
    BY DEF AfterSweep
  <2> QED
    BY <1>2, <1>5, <2>1, GotoQuiet DEF SweepDone
<1> QED
  BY <1>3, <1>4, <1>5 DEF SweepStep

\* Removals.
LEMMA RemoveQuiet ==
  ASSUME TypeInv, NEW p \in Procs, RemoveStep(p)
  PROVE  Quiet(p)
<1>1. Published' \subseteq Published
  <2>1. records' = records \/ records' = [records EXCEPT ![loc[p].cur] = Absent]
    BY DEF RemoveStep, ExpireFind, MoveAside, MoveAsideLost, RemoveDir,
           TombCreate, TombWrite, TombRename, TombRenameLost, disk
  <2> QED
    BY <2>1 DEF Published, TypeInv, DiskOK
<1> SUFFICES NoTakeOff(p)
  BY <1>1 DEF Quiet
<1>2. CASE ExpireFind(p)
  BY <1>2, GotoQuiet DEF ExpireFind
<1>3. CASE MoveAside(p)
  BY <1>3, GotoQuiet DEF MoveAside
<1>4. CASE MoveAsideLost(p) \/ TombRenameLost(p)
  BY <1>4, FinishQuiet DEF MoveAsideLost, TombRenameLost, Abort
<1>5. CASE RemoveDir(p)
  <2>1. \A q \in Procs \ {p} : loc'[q] = loc[q]
    BY <1>5 DEF RemoveDir, TypeInv, ControlOK
  <2> QED
    BY <1>5, <2>1, GotoQuiet DEF RemoveDir
<1>6. CASE TombCreate(p) \/ TombWrite(p)
  BY <1>6, GotoQuiet DEF TombCreate, TombWrite
<1>7. CASE TombRename(p)
  BY <1>7, ReturnQuiet DEF TombRename
<1> QED
  BY <1>2, <1>3, <1>4, <1>5, <1>6, <1>7 DEF RemoveStep

\* usage(), its listing aside.
LEMMA UsageQuiet ==
  ASSUME TypeInv, NEW p \in Procs, UsageStep(p), ~UsageList(p)
  PROVE  Quiet(p)
<1>1. Published' = Published
  BY DEF UsageStep, StreamTooBig, UsageLost, UsageStatus, UsageRoom, UsageSweep,
         UsageFull, disk, Published
<1> SUFFICES NoTakeOff(p)
  BY <1>1 DEF Quiet
<1>2. CASE StreamTooBig(p) \/ UsageLost(p) \/ UsageStatus(p) \/ UsageFull(p)
  BY <1>2, FinishQuiet DEF StreamTooBig, UsageLost, UsageStatus, UsageFull, Abort
<1>3. CASE UsageRoom(p)
  <2>1. p \in InFlight
    <3>1. ~(Cardinality(loc[p].todo) >= MaxRecords)
      BY <1>3 DEF UsageRoom, OverQuota
    <3>2. Cardinality(loc[p].todo) \in Nat
      BY RunIdsFinite, FS_Subset, FS_CardinalityType, LocalsType DEF TypeInv
    <3> QED
      BY <1>3, <3>1, <3>2, LimitsNat DEF UsageRoom, InFlight
  <2>2. \A q \in Procs \ {p} : pc'[q] = pc[q] /\ loc'[q] = loc[q]
    BY <1>3 DEF UsageRoom, Goto, TypeInv, ControlOK
  <2> QED
    BY <2>1, <2>2 DEF NoTakeOff
<1>4. CASE UsageSweep(p)
  <2>1. \A q \in Procs \ {p} : loc'[q] = loc[q]
    BY <1>4 DEF UsageSweep, TypeInv, ControlOK
  <2> QED
    BY <1>4, <2>1, GotoQuiet DEF UsageSweep
<1> QED
  BY <1>2, <1>3, <1>4, SMTT(30) DEF UsageStep

\* commit(), its publication aside.
LEMMA CommitQuiet ==
  ASSUME TypeInv, NEW p \in Procs, CommitStep(p), ~Publish(p)
  PROVE  Quiet(p)
<1>1. Published' \subseteq Published
  <2>1. records' = records \/ records' = [records EXCEPT ![loc[p].run] = Absent]
    BY DEF CommitStep, Stage, WriteFiles, WriteLastRun, SyncRoot, Unstage,
           Unpublish, UnpublishGone, DropFailed, IndexTooBig, disk
  <2> QED
    BY <2>1 DEF Published, TypeInv, DiskOK
<1> SUFFICES NoTakeOff(p)
  BY <1>1 DEF Quiet
<1>2. CASE Stage(p) \/ WriteFiles(p)
  <2>1. p \in InFlight
    BY <1>2 DEF Stage, WriteFiles, InFlight
  <2>2. \A q \in Procs \ {p} : pc'[q] = pc[q] /\ loc'[q] = loc[q]
    BY <1>2 DEF Stage, WriteFiles, Goto, TypeInv, ControlOK
  <2> QED
    BY <2>1, <2>2 DEF NoTakeOff
<1>3. CASE WriteLastRun(p) \/ Unpublish(p)
  BY <1>3, GotoQuiet DEF WriteLastRun, Unpublish
<1>4. CASE SyncRoot(p) \/ Unstage(p) \/ UnpublishGone(p) \/ DropFailed(p)
           \/ IndexTooBig(p)
  BY <1>4, FinishQuiet
  DEF SyncRoot, Unstage, UnpublishGone, DropFailed, IndexTooBig, Fail, Abort
<1> QED
  BY <1>2, <1>3, <1>4 DEF CommitStep

\* Lookups.
LEMMA LookupQuiet ==
  ASSUME TypeInv, NEW p \in Procs, LookupStep(p)
  PROVE  Quiet(p)
<1>1. Published' = Published
  BY DEF LookupStep, ReportNothing, ReadTombstone, DropTombstone, FindRecord,
         ReadManifest, ReadData, ReadNothing, disk, Published
<1> SUFFICES NoTakeOff(p)
  BY <1>1 DEF Quiet
<1>2. CASE ReportNothing(p) \/ ReadData(p) \/ ReadNothing(p)
  BY <1>2, FinishQuiet DEF ReportNothing, ReadData, ReadNothing
<1>3. CASE ReadTombstone(p)
  <2>1. \/ \E a : Finish(p, a)
        \/ /\ \A q \in Procs \ {p} : loc'[q] = loc[q]
           /\ Goto(p, "find_record") \/ Goto(p, "drop_tomb")
    BY <1>3 DEF ReadTombstone, TypeInv, ControlOK
  <2> QED
    BY <2>1, FinishQuiet, GotoQuiet
<1>4. CASE DropTombstone(p)
  BY <1>4, GotoQuiet, ReturnQuiet DEF DropTombstone
<1>5. CASE FindRecord(p)
  BY <1>5, GotoQuiet, FinishQuiet DEF FindRecord
<1>6. CASE ReadManifest(p)
  BY <1>6, GotoQuiet, FinishQuiet DEF ReadManifest
<1> QED
  BY <1>2, <1>3, <1>4, <1>5, <1>6 DEF LookupStep

\* Deletes and purges.
LEMMA PurgeQuiet ==
  ASSUME TypeInv, NEW p \in Procs, PurgeStep(p)
  PROVE  Quiet(p)
<1>1. Published' = Published
  BY DEF PurgeStep, DeleteFind, DeleteGone, PurgeList, PurgeRecord,
         PurgeListFiles, PurgeFile, PurgeUnreadable, PurgeDone, disk, Published
<1> SUFFICES NoTakeOff(p)
  BY <1>1 DEF Quiet
<1>2. CASE DeleteFind(p)
  BY <1>2, GotoQuiet DEF DeleteFind
<1>3. CASE DeleteGone(p)
  BY <1>3, GotoQuiet, ReturnQuiet DEF DeleteGone
<1>4. CASE PurgeList(p) \/ PurgeListFiles(p)
  <2>1. \A q \in Procs \ {p} : loc'[q] = loc[q]
    BY <1>4 DEF PurgeList, PurgeListFiles, TypeInv, ControlOK
  <2> QED
    BY <1>4, <2>1, GotoQuiet DEF PurgeList, PurgeListFiles
<1>5. CASE PurgeRecord(p)
  <2>1. /\ \A q \in Procs \ {p} : loc'[q] = loc[q]
        /\ Goto(p, "delete") \/ Goto(p, "expire") \/ Goto(p, "purge")
    BY <1>5 DEF PurgeRecord, TypeInv, ControlOK
  <2> QED
    BY <2>1, GotoQuiet
<1>6. CASE PurgeFile(p)
  <2>1. \A q \in Procs \ {p} : loc'[q] = loc[q]
    BY <1>6 DEF PurgeFile, TypeInv, ControlOK
  <2> QED
    BY <1>6, <2>1 DEF PurgeFile, NoTakeOff, InFlight
<1>7. CASE PurgeUnreadable(p) \/ PurgeDone(p)
  BY <1>7, FinishQuiet DEF PurgeUnreadable, PurgeDone, Abort
<1> QED
  BY <1>2, <1>3, <1>4, <1>5, <1>6, <1>7 DEF PurgeStep

\* Opening, failing and being killed.
LEMMA OthersQuiet ==
  ASSUME TypeInv, NEW p \in Procs, Open(p) \/ IoFault(p) \/ Crash(p)
  PROVE  Quiet(p)
<1>1. Published' = Published
  BY DEF Open, IoFault, Crash, disk, Published
<1> SUFFICES NoTakeOff(p)
  BY <1>1 DEF Quiet
<1>2. CASE Open(p)
  <2>1. \A q \in Procs \ {p} : loc'[q] = loc[q]
    BY <1>2 DEF Open, TypeInv, ControlOK
  <2>2. pc' = [pc EXCEPT ![p] = "sweep"]
    BY <1>2 DEF Open
  <2> QED
    BY <2>1, <2>2 DEF NoTakeOff, InFlight, TypeInv, ControlOK
<1>3. CASE Crash(p)
  <2>1. \A q \in Procs \ {p} : loc'[q] = loc[q]
    BY <1>3 DEF Crash, TypeInv, ControlOK
  <2>2. pc' = [pc EXCEPT ![p] = "idle"]
    BY <1>3 DEF Crash
  <2> QED
    BY <2>1, <2>2 DEF NoTakeOff, InFlight, TypeInv, ControlOK
<1>4. CASE IoFault(p)
  <2>1. CASE \E a : Finish(p, a)
    BY <2>1, FinishQuiet
  <2>2. CASE /\ UNCHANGED loc
             /\ \/ Goto(p, "unstage") \/ Goto(p, "unpublish")
                \/ Goto(p, "tomb_create")
    BY <2>2, GotoQuiet
  <2>3. CASE /\ pc[p] \in {"sweep", "purge"}
             /\ \E r \in loc[p].todo : loc' = [loc EXCEPT ![p].todo = @ \ {r}]
             /\ UNCHANGED pc
    <3>1. \A q \in Procs \ {p} : loc'[q] = loc[q]
      BY <2>3 DEF TypeInv, ControlOK
    <3> QED
      BY <2>3, <3>1 DEF NoTakeOff, InFlight
  <2> QED
    BY <1>4, <2>1, <2>2, <2>3 DEF IoFault, Fail, Abort
<1> QED
  BY <1>2, <1>3, <1>4

\* Listing the records.
LEMMA ListKeeps ==
  ASSUME TypeInv, QuotaInv, NEW p \in Procs, UsageList(p)
  PROVE  QuotaInv'
<1>1. Published' = Published
  BY DEF UsageList, disk, Published
<1>2. \A q \in Procs \ {p} : pc'[q] = pc[q] /\ loc'[q] = loc[q]
  BY DEF UsageList, Goto, TypeInv, ControlOK
<1>3. CASE Cardinality(Published) < MaxRecords
  <2>1. InFlight' \subseteq Procs
    BY DEF InFlight
  <2>2. /\ Cardinality(InFlight') <= Cardinality(Procs)
        /\ Cardinality(InFlight') \in Nat
    BY <2>1, ProcsFinite, FS_Subset, FS_CardinalityType
  <2> QED
    BY <1>1, <1>3, <2>2, FlightFinite, LimitsNat DEF QuotaInv
<1>4. CASE ~(Cardinality(Published) < MaxRecords)
  <2>1. pc'[p] = "usage_read" /\ loc'[p].todo = Published
    BY LocalsType DEF UsageList, Goto, TypeInv, ControlOK, Locals
  <2>2. p \notin InFlight'
    BY <1>1, <1>4, <2>1 DEF InFlight
  <2> QED
    BY <1>1, <1>2, <2>2, QuietKeeps DEF Quiet, NoTakeOff
<1> QED
  BY <1>3, <1>4

\* Publishing.
LEMMA PublishKeeps ==
  ASSUME TypeInv, QuotaInv, NEW p \in Procs, Publish(p)
  PROVE  QuotaInv'
<1>1. loc[p].run \in RunIds /\ loc[p].run \notin Published
  BY DEF Publish, Published, TypeInv, CommitOK, CommitLabels
<1>2. Published' \subseteq Published \cup {loc[p].run}
  BY DEF Publish, Published, TypeInv, DiskOK
<1>3. p \in InFlight
  BY DEF Publish, InFlight
<1>4. InFlight' \subseteq InFlight \ {p}
  <2>1. \A q \in Procs \ {p} : pc'[q] = pc[q] /\ loc'[q] = loc[q]
    BY DEF Publish, Goto, TypeInv, ControlOK
  <2>2. pc'[p] = "last_run"
    BY DEF Publish, Goto, TypeInv, ControlOK
  <2> QED
    BY <2>1, <2>2 DEF InFlight
<1>5. /\ IsFiniteSet(Published \cup {loc[p].run})
      /\ Cardinality(Published \cup {loc[p].run}) = Cardinality(Published) + 1
  BY <1>1, FlightFinite, FS_AddElement
<1>6. /\ IsFiniteSet(InFlight \ {p})
      /\ Cardinality(InFlight \ {p}) = Cardinality(InFlight) - 1
  BY <1>3, FlightFinite, FS_RemoveElement
<1>7. /\ Cardinality(Published') <= Cardinality(Published) + 1
      /\ Cardinality(Published') \in Nat
  BY <1>2, <1>5, FS_Subset, FS_CardinalityType
<1>8. /\ Cardinality(InFlight') <= Cardinality(InFlight) - 1
      /\ Cardinality(InFlight') \in Nat
  BY <1>4, <1>6, FS_Subset, FS_CardinalityType
<1> QED
  BY <1>7, <1>8, FlightFinite, LimitsNat DEF QuotaInv

\* An empty store has room.
LEMMA QuotaInit == Init => QuotaInv
<1> SUFFICES ASSUME Init PROVE QuotaInv
  OBVIOUS
<1>1. Published = {} /\ InFlight = {}
  BY DEF Init, Published, InFlight
<1> QED
  BY <1>1, FS_EmptySet, FlightFinite, LimitsNat DEF QuotaInv

\* Every step keeps the bound.
LEMMA QuotaNext == TypeInv /\ QuotaInv /\ [Next]_vars => QuotaInv'
<1> SUFFICES ASSUME TypeInv, QuotaInv, [Next]_vars PROVE QuotaInv'
  OBVIOUS
<1>1. CASE Tick \/ UNCHANGED vars
  BY <1>1 DEF Tick, vars, disk, QuotaInv, Published, InFlight
<1>2. ASSUME NEW p \in Procs, Open(p) \/ Step(p) \/ IoFault(p) \/ Crash(p)
      PROVE  QuotaInv'
  <2>1. CASE UsageList(p)
    BY <2>1, ListKeeps
  <2>2. CASE Publish(p)
    BY <2>2, PublishKeeps
  <2>3. CASE ~UsageList(p) /\ ~Publish(p)
    <3>1. Quiet(p)
      BY <1>2, <2>3, SweepQuiet, RemoveQuiet, UsageQuiet, CommitQuiet,
         LookupQuiet, PurgeQuiet, OthersQuiet DEF Step
    <3> QED
      BY <3>1, QuietKeeps
  <2> QED
    BY <2>1, <2>2, <2>3
<1> QED
  BY <1>1, <1>2 DEF Next

\* The quota bound: commit checks max_records and publishes much later, without
\* a lock, so max_records can be passed; whatever the interleaving, the errors
\* and the kills, it is never passed by more than one record for each other
\* process.
THEOREM QuotaBoundHolds == Spec => []QuotaBound
<1>1. QuotaInv => QuotaBound
  BY FlightFinite, LimitsNat DEF QuotaInv, QuotaBound
<1>2. Spec => []QuotaInv
  BY QuotaInit, QuotaNext, TypeInvariant, PTL DEF Spec
<1> QED
  BY <1>1, <1>2, PTL
=============================================================================
