------------------------------- MODULE Executor -------------------------------
(***************************************************************************)
(* `veil run` executing one command (src/executor.rs, src/platform.rs).    *)
(*                                                                         *)
(* veil starts the child in a process group of its own, with a pipe for    *)
(* stdout and one for stderr, and waits for it in 50 ms slices, looking    *)
(* first at a received signal and then at the deadline.  Only when that    *)
(* loop is over does it read the two pipes, each up to its end of file.    *)
(* A pipe holds PipeCapacity chunks; a writer that finds it full blocks;   *)
(* a reader sees end of file when the pipe is empty and nobody has its     *)
(* write end open.  A child may leave a descendant that keeps the write    *)
(* ends open, in its process group or (setsid) out of it.                  *)
(***************************************************************************)
EXTENDS Integers, FiniteSets, Sequences

CONSTANTS
    Programs,     \* the commands veil may be asked to run
    PipeCapacity, \* chunks a pipe holds
    Timeout,      \* --timeout, in wait slices
    Signals,      \* SIGINT and SIGTERM
    MaxSignals    \* bound: signals sent to veil in a behaviour

Streams == {"stdout", "stderr"}
Ends    == {"exit", "signal", "hang"}
\* A descendant shares the pipes, in the command's process group or out of it, or
\* stays in the group and has its output elsewhere.
Helpers == {"none", "group", "escaped", "quiet"}

\* A command: the chunks it writes, in order; how it ends then; the code it
\* exits with; the descendant it leaves, and whether that ever closes its pipes.
ASSUME ProgramsKnown ==
    Programs \subseteq [script : Seq(Streams), end : Ends, code : 0..255,
                        helper : Helpers, helperEnds : BOOLEAN]
ASSUME LimitsNat == PipeCapacity \in Nat \ {0} /\ Timeout \in Nat
ASSUME SignalsKnown == Signals \subseteq 1..127 /\ MaxSignals \in Nat

VARIABLES
    program,  \* the command
    vpc,      \* where veil is
    elapsed,  \* wait slices since the command was started
    starved,  \* history: in one of them the child could go on and did not run
    signal,   \* RECEIVED_SIGNAL, 0 for none
    sent,     \* signals sent so far
    child,    \* the child process
    ended,    \* how it came to its end
    pos,      \* chunks it has written
    helper,   \* the descendant
    pipe,     \* chunks in each pipe
    raw,      \* chunks veil has read from each pipe
    timeout,  \* stats.timeout
    exitCode, \* stats.exit_code
    status    \* the exit status of veil itself

waited     == <<elapsed, starved>>
signals    == <<signal, sent>>
childVars  == <<child, ended, pos, helper>>
pipes      == <<pipe, raw>>
reportVars == <<timeout, exitCode, status>>
vars == <<program, vpc, waited, signals, childVars, pipes, reportVars>>

NoCode == -1   \* None

Init ==
    /\ program \in Programs
    /\ vpc = "setup"
    /\ elapsed = 0 /\ starved = FALSE /\ signal = 0 /\ sent = 0
    /\ child = "none" /\ ended = "no" /\ pos = 0 /\ helper = "none"
    /\ pipe = [s \in Streams |-> 0]
    /\ raw = [s \in Streams |-> 0]
    /\ timeout = FALSE /\ exitCode = NoCode /\ status = NoCode

-------------------------------------------------------------------------------
(* The child and its descendant.                                             *)

ChildCanWrite ==
    /\ child = "running" /\ pos < Len(program.script)
    /\ pipe[program.script[pos + 1]] < PipeCapacity

ChildCanEnd ==
    child = "running" /\ pos = Len(program.script) /\ program.end # "hang"

ChildWrite ==
    /\ ChildCanWrite
    /\ pipe' = [pipe EXCEPT ![program.script[pos + 1]] = @ + 1]
    /\ pos' = pos + 1
    /\ UNCHANGED <<program, vpc, waited, signals, child, ended, helper, raw,
                   reportVars>>

ChildEnd ==
    /\ ChildCanEnd
    /\ child' = "zombie"
    /\ ended' = program.end
    /\ UNCHANGED <<program, vpc, waited, signals, pos, helper, pipes,
                   reportVars>>

HelperEnd ==
    /\ helper = "running" /\ program.helperEnds
    /\ helper' = "gone"
    /\ UNCHANGED <<program, vpc, waited, signals, child, ended, pos, pipes,
                   reportVars>>

Written(s) == Cardinality({i \in 1..pos : program.script[i] = s})

\* Somebody still has the write end of the pipes open.
WriterLeft ==
    child = "running" \/ (helper = "running" /\ program.helper # "quiet")

\* The signal handler stores the number; the child, in another group, gets none.
SignalArrives ==
    /\ vpc \notin {"exited", "failed"}
    /\ sent < MaxSignals
    /\ sent' = sent + 1
    /\ \E n \in Signals : signal' = n
    /\ UNCHANGED <<program, vpc, waited, childVars, pipes, reportVars>>

-------------------------------------------------------------------------------
(* veil.                                                                     *)

\* No arguments, a blocked path among them, or a spawn error.
Refuse ==
    /\ vpc = "setup"
    /\ vpc' = "failed" /\ status' = 1
    /\ UNCHANGED <<program, waited, signals, childVars, pipes, timeout,
                   exitCode>>

Spawn ==
    /\ vpc = "setup"
    /\ vpc' = "signal"
    /\ child' = "running"
    /\ helper' = IF program.helper = "none" THEN "none" ELSE "running"
    /\ UNCHANGED <<program, waited, signals, ended, pos, pipes, reportVars>>

\* Faulty variant: only the child is killed, not its group.
TerminateChildOnly ==
    /\ child' = IF child = "running" THEN "zombie" ELSE child
    /\ ended' = IF child = "running" THEN "killed" ELSE ended
    /\ UNCHANGED <<pos, helper>>

\* killpg(SIGKILL): the child, and the descendant if it stayed in the group.
TerminateChild ==
    /\ child' = IF child = "running" THEN "zombie" ELSE child
    /\ ended' = IF child = "running" THEN "killed" ELSE ended
    /\ helper' = IF helper = "running" /\ program.helper # "escaped"
                 THEN "gone" ELSE helper
    /\ UNCHANGED pos

CheckSignal ==
    /\ vpc = "signal"
    /\ \/ /\ signal # 0
          /\ TerminateChild
          /\ exitCode' = 128 + signal
          /\ vpc' = "reap"
       \/ /\ signal = 0
          /\ vpc' = "deadline"
          /\ UNCHANGED <<childVars, exitCode>>
    /\ UNCHANGED <<program, waited, signals, pipes, timeout, status>>

\* Faulty variant: a timeout that does not kill the child.
CheckDeadlineNoKill ==
    /\ vpc = "deadline"
    /\ \/ /\ elapsed >= Timeout
          /\ timeout' = TRUE /\ exitCode' = 124 /\ vpc' = "reap"
       \/ elapsed < Timeout /\ vpc' = "wait" /\ UNCHANGED <<timeout, exitCode>>
    /\ UNCHANGED <<program, waited, signals, childVars, pipes, status>>

\* Faulty variant: the deadline itself still gets a slice.
CheckDeadlineLate ==
    /\ vpc = "deadline"
    /\ \/ /\ elapsed > Timeout
          /\ TerminateChild
          /\ timeout' = TRUE /\ exitCode' = 124 /\ vpc' = "reap"
       \/ /\ elapsed <= Timeout
          /\ vpc' = "wait" /\ UNCHANGED <<childVars, timeout, exitCode>>
    /\ UNCHANGED <<program, waited, signals, pipes, status>>

\* Faulty variant: the kill is not recorded as a timeout.
CheckDeadlineUnrecorded ==
    /\ vpc = "deadline"
    /\ \/ /\ elapsed >= Timeout
          /\ TerminateChild
          /\ exitCode' = 124 /\ vpc' = "reap"
       \/ /\ elapsed < Timeout
          /\ vpc' = "wait" /\ UNCHANGED <<childVars, exitCode>>
    /\ UNCHANGED <<program, waited, signals, pipes, timeout, status>>

CheckDeadline ==
    /\ vpc = "deadline"
    /\ \/ /\ elapsed >= Timeout
          /\ TerminateChild
          /\ timeout' = TRUE
          /\ exitCode' = 124
          /\ vpc' = "reap"
       \/ /\ elapsed < Timeout
          /\ vpc' = "wait"
          /\ UNCHANGED <<childVars, timeout, exitCode>>
    /\ UNCHANGED <<program, waited, signals, pipes, status>>

\* wait_timeout saw the child end.  A child that a signal ended has no code.
WaitEnd ==
    /\ vpc = "wait" /\ child = "zombie"
    /\ child' = "reaped"
    /\ exitCode' = IF ended = "exit" THEN program.code
                   ELSE IF signal # 0 THEN 128 + signal ELSE NoCode
    /\ vpc' = "drain_stdout"
    /\ UNCHANGED <<program, waited, signals, ended, pos, helper, pipes, timeout,
                   status>>

\* Faulty variant: a slice is slept through without looking at the child.
WaitSliceBlind ==
    /\ vpc = "wait"
    /\ elapsed' = elapsed + 1
    /\ starved' = (starved \/ ChildCanWrite \/ ChildCanEnd)
    /\ vpc' = "signal"
    /\ UNCHANGED <<program, signals, childVars, pipes, reportVars>>

\* The slice is over and the child still runs.
WaitSlice ==
    /\ vpc = "wait" /\ child = "running"
    /\ elapsed' = elapsed + 1
    /\ starved' = (starved \/ ChildCanWrite \/ ChildCanEnd)
    /\ vpc' = "signal"
    /\ UNCHANGED <<program, signals, childVars, pipes, reportVars>>

\* child.wait() after the kill.
Reap ==
    /\ vpc = "reap" /\ child = "zombie"
    /\ child' = "reaped"
    /\ vpc' = "drain_stdout"
    /\ UNCHANGED <<program, waited, signals, ended, pos, helper, pipes,
                   reportVars>>

Draining(s) == vpc = (IF s = "stdout" THEN "drain_stdout" ELSE "drain_stderr")

DrainRead(s) ==
    /\ Draining(s) /\ pipe[s] > 0
    /\ raw' = [raw EXCEPT ![s] = @ + pipe[s]]
    /\ pipe' = [pipe EXCEPT ![s] = 0]
    /\ UNCHANGED <<program, vpc, waited, signals, childVars, reportVars>>

\* Faulty variant: reading stops at what a timed-out command left behind.
DrainEofEarly(s) ==
    /\ Draining(s) /\ (pipe[s] = 0 \/ timeout) /\ ~WriterLeft
    /\ vpc' = IF s = "stdout" THEN "drain_stderr" ELSE "report"
    /\ UNCHANGED <<program, waited, signals, childVars, pipes, reportVars>>

DrainEof(s) ==
    /\ Draining(s) /\ pipe[s] = 0 /\ ~WriterLeft
    /\ vpc' = IF s = "stdout" THEN "drain_stderr" ELSE "report"
    /\ UNCHANGED <<program, waited, signals, childVars, pipes, reportVars>>

\* Faulty variant: the command's exit code is not passed on.
ReportZero ==
    /\ vpc = "report"
    /\ vpc' = "exited"
    /\ status' = 0
    /\ UNCHANGED <<program, waited, signals, childVars, pipes, timeout,
                   exitCode>>

\* Statistics are reported and veil exits as the command did; None exits with 0.
Report ==
    /\ vpc = "report"
    /\ vpc' = "exited"
    /\ status' = IF exitCode = NoCode THEN 0 ELSE exitCode
    /\ UNCHANGED <<program, waited, signals, childVars, pipes, timeout,
                   exitCode>>

-------------------------------------------------------------------------------
Drain == \E s \in Streams : DrainRead(s) \/ DrainEof(s)
Veil  == \/ Refuse \/ Spawn \/ CheckSignal \/ CheckDeadline \/ WaitEnd
         \/ WaitSlice \/ Reap \/ Drain \/ Report
Child == ChildWrite \/ ChildEnd \/ HelperEnd

Next == Veil \/ Child \/ SignalArrives

Spec == Init /\ [][Next]_vars

\* The kernel runs veil, the child and its descendant.
Fairness == WF_vars(Veil) /\ WF_vars(Child)
FairSpec == Spec /\ Fairness

-------------------------------------------------------------------------------
(* Properties.                                                               *)

VeilLabels == {"setup", "signal", "deadline", "wait", "reap", "drain_stdout",
               "drain_stderr", "report", "exited", "failed"}

TypeOK ==
    /\ program \in Programs
    /\ vpc \in VeilLabels
    /\ elapsed \in 0..Timeout
    /\ starved \in BOOLEAN
    /\ signal \in Signals \cup {0}
    /\ sent \in 0..MaxSignals
    /\ child \in {"none", "running", "zombie", "reaped"}
    /\ ended \in {"no", "exit", "signal", "killed"}
    /\ pos \in 0..Len(program.script)
    /\ helper \in {"none", "running", "gone"}
    /\ pipe \in [Streams -> 0..PipeCapacity]
    /\ raw \in [Streams -> Nat]
    /\ timeout \in BOOLEAN
    /\ exitCode \in {NoCode} \cup 0..255
    /\ status \in {NoCode} \cup 0..255

\* However the command ended (by itself, by timeout, by signal), what it wrote
\* before that is read whole before veil reports.
OutputKept ==
    vpc \in {"report", "exited"} =>
        \A s \in Streams : raw[s] = Written(s) /\ pipe[s] = 0

\* When veil gives up on a command, nothing of its process group outlives the
\* report: the child is reaped and a descendant in the group is gone.
GroupGone ==
    vpc \in {"report", "exited"} =>
        /\ child = "reaped"
        /\ ended = "killed" /\ program.helper # "escaped" => helper # "running"

\* The verdict names the reason: a command that veil killed is reported as timed
\* out with 124, or with 128 plus the signal veil got, and 124 by the deadline
\* goes with `timeout: true`, signals and the child's own end racing with it.
VerdictNamesTheReason ==
    vpc = "exited" =>
        /\ timeout => status = 124 /\ elapsed >= Timeout
        /\ ended = "killed" /\ ~timeout => \E n \in Signals : status = 128 + n

\* The exit status of veil is the command's own, unless veil stopped it.
StatusIsCommands ==
    vpc = "exited" /\ ended = "exit" /\ ~timeout /\ sent = 0
        => status = program.code

\* Each stream of the command fits its pipe.
FitsPipes ==
    \A s \in Streams :
        Cardinality({i \in DOMAIN program.script : program.script[i] = s})
            <= PipeCapacity

\* A command that got the processor whenever it could go on, and whose output
\* fits the pipes, is never reported as timed out.
SmallOutputCompletes ==
    ~starved /\ program.end # "hang" /\ FitsPipes => ~timeout

\* The same of every command that ends by itself.
PromptCommandCompletes ==
    ~starved /\ program.end # "hang" => ~timeout

\* veil ends, whatever the command does.
RunEnds == <>(vpc \in {"exited", "failed"})

\* No descendant keeps the pipes open for ever where no kill reaches it: it
\* goes, or it is in the group of a command that veil has to stop.
NoLastingHelper ==
    \/ program.helper \in {"none", "quiet"} \/ program.helperEnds
    \/ program.helper = "group" /\ program.end = "hang"

\* veil ends, by the deadline if the command does not, when nobody else holds
\* the pipes open for good.
RunEndsUnlessHeld == NoLastingHelper => <>(vpc \in {"exited", "failed"})
===============================================================================
