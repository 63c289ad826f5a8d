-------------------------- MODULE RunStoreRefinement --------------------------
(***************************************************************************)
(* RunStore implements RunLifecycle: the state of the directory tree and   *)
(* of the processes that work on it, read as the life of each run.         *)
(***************************************************************************)
EXTENDS RunStore

CONSTANT NoAnswer   \* no answer about a run

\* The commit of run r has come as far as one of these steps.
CommitAt(r, labels) ==
    \E p \in Procs : /\ loc[p].op = "commit" /\ loc[p].run = r
                     /\ pc[p] \in labels

Withdrawing == {"unstage", "drop_failed"}
Confirming  == {"last_run", "sync_root", "unpublish"}

\* A record counts from the rename that publishes it to the one that moves it
\* aside, and lapses when the clock reaches its expires_at.
PhaseOf(r) ==
    IF receipt[r] = "unused" THEN "unused"
    ELSE IF records[r] # Absent
    THEN IF clock < records[r] THEN "live" ELSE "lapsed"
    ELSE IF receipt[r] = "stored" \/ CommitAt(r, Confirming) THEN "gone"
    ELSE IF CommitAt(r, Labels \ ({"idle"} \cup Withdrawing \cup Confirming))
    THEN "pending"
    ELSE "void"

\* Answers about the store as a whole, and errors, claim nothing of a run.
HeardBy(p) ==
    IF /\ pc[p] = "idle" /\ loc[p].run # NoRun
       /\ result[p] \in {"active", "active_empty", "not_found", "expired",
                         "deleted", "removed", "already_gone"}
    THEN <<loc[p].run, result[p]>> ELSE NoAnswer

Lifecycle == INSTANCE RunLifecycle WITH
    Runs <- RunIds, Clients <- Procs, Silent <- NoAnswer,
    phase <- [r \in RunIds |-> PhaseOf(r)],
    told  <- receipt,
    heard <- [p \in Procs |-> HeardBy(p)]

\* The store looks like one table: runs are published once, removed once and
\* never come back, receipts tell the truth, and every answer is true at the
\* moment it is given, whatever the interleaving of the file-system steps.
KeepsLifecycle == Lifecycle!Spec
===============================================================================
