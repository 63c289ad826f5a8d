---------------------------- MODULE ExecutorProofs ----------------------------
(***************************************************************************)
(* Proofs about Executor for every set of commands, every size of the      *)
(* pipes, every deadline and any number of signals: everything its runs    *)
(* check but liveness.                                                     *)
(***************************************************************************)
EXTENDS Executor, FiniteSetTheorems, TLAPS

Undecided == {"setup", "signal", "deadline", "wait"}
Waiting   == {"signal", "deadline", "wait"}
Collecting == {"drain_stdout", "drain_stderr", "report", "exited"}

\* How far veil has come says what has become of the child.
ChildInv ==
    /\ vpc \in {"setup", "failed"} => child = "none"
    /\ vpc \in Waiting => child \in {"running", "zombie"}
    /\ vpc = "reap" => child = "zombie"
    /\ vpc \in Collecting => child = "reaped"
    /\ vpc \in Undecided \cup {"failed"} => ended # "killed" /\ ~timeout
    /\ child \in {"none", "running"} => ended = "no"

\* A slice starts only before the deadline.
SliceInv == vpc = "wait" => elapsed < Timeout

\* Nothing is lost on its way through a pipe, and what was drained stays empty.
PipeInv ==
    /\ \A s \in Streams : raw[s] + pipe[s] = Written(s)
    /\ vpc \in {"drain_stderr", "report", "exited"} => pipe["stdout"] = 0
    /\ vpc \in {"report", "exited"} => pipe["stderr"] = 0

\* A kill reached whatever was in the group.
KillInv == ended = "killed" /\ program.helper # "escaped" => helper # "running"

\* The code veil will report, from the moment it has stopped to wait.
CodeInv ==
    /\ sent = 0 => signal = 0
    /\ timeout => exitCode = 124 /\ elapsed >= Timeout
    /\ ended = "killed" /\ ~timeout => \E n \in Signals : exitCode = 128 + n
    /\ vpc = "reap" => timeout \/ sent # 0
    /\ vpc \in Collecting /\ ended = "exit" /\ ~timeout /\ sent = 0
         => exitCode = program.code
    /\ vpc = "exited" => status = IF exitCode = NoCode THEN 0 ELSE exitCode

\* A command that always has room in the pipes can go on in every slice.
PromptInv ==
    program.end # "hang" /\ FitsPipes /\ elapsed # 0 => starved

-------------------------------------------------------------------------------
(* Types                                                                     *)

\* What the assumptions say of the command.
LEMMA ProgramType ==
  ASSUME program \in Programs
  PROVE  /\ program.script \in Seq(Streams) /\ Len(program.script) \in Nat
         /\ program.end \in Ends /\ program.code \in 0..255
         /\ program.helper \in Helpers /\ program.helperEnds \in BOOLEAN
         /\ \A i \in 1..Len(program.script) : program.script[i] \in Streams
<1>1. program.script \in Seq(Streams)
  BY ProgramsKnown
<1>2. /\ Len(program.script) \in Nat
      /\ \A i \in 1..Len(program.script) : program.script[i] \in Streams
  BY <1>1
<1>3. /\ program.end \in Ends /\ program.code \in 0..255
      /\ program.helper \in Helpers /\ program.helperEnds \in BOOLEAN
  BY ProgramsKnown
<1> QED
  BY <1>1, <1>2, <1>3

\* The initial state.
LEMMA TypeInit == Init => TypeOK
<1> SUFFICES ASSUME Init PROVE TypeOK
  OBVIOUS
<1>1. Len(program.script) \in Nat
  BY ProgramType DEF Init
<1>2. /\ pipe \in [Streams -> 0..PipeCapacity] /\ raw \in [Streams -> Nat]
      /\ elapsed \in 0..Timeout /\ pos \in 0..Len(program.script)
  BY <1>1, LimitsNat DEF Init
<1>3. signal \in Signals \cup {0} /\ sent \in 0..MaxSignals
  BY SignalsKnown DEF Init
<1> QED
  BY <1>2, <1>3 DEF Init, TypeOK, VeilLabels

\* The kill keeps the types of the child's variables.
LEMMA TerminateType ==
  ASSUME TypeOK, TerminateChild
  PROVE  /\ child' \in {"none", "running", "zombie", "reaped"}
         /\ ended' \in {"no", "exit", "signal", "killed"}
         /\ helper' \in {"none", "running", "gone"}
         /\ pos' = pos
  BY DEF TypeOK, TerminateChild

\* The steps of the command and its descendant keep the types.
LEMMA TypeChild ==
  ASSUME TypeOK, Child
  PROVE  TypeOK'
<1>1. CASE ChildWrite
  <2>1. /\ program.script[pos + 1] \in Streams
        /\ pos + 1 \in 0..Len(program.script)
        /\ pipe[program.script[pos + 1]] < PipeCapacity
    BY <1>1, ProgramType, SMTT(30) DEF TypeOK, ChildWrite, ChildCanWrite
  <2>2. pipe' \in [Streams -> 0..PipeCapacity]
    BY <1>1, <2>1, LimitsNat DEF TypeOK, ChildWrite
  <2> QED
    BY <1>1, <2>1, <2>2
    DEF TypeOK, ChildWrite, waited, signals, reportVars
<1>2. CASE ChildEnd
  BY <1>2, ProgramType
  DEF TypeOK, ChildEnd, ChildCanEnd, Ends, waited, signals, pipes, reportVars
<1>3. CASE HelperEnd
  BY <1>3 DEF TypeOK, HelperEnd, waited, signals, pipes, reportVars
<1> QED
  BY <1>1, <1>2, <1>3 DEF Child

\* The steps of veil keep the types.
LEMMA TypeVeil ==
  ASSUME TypeOK, ChildInv, SliceInv, Veil
  PROVE  TypeOK'
<1> USE DEF waited, signals, pipes, reportVars, childVars, VeilLabels
<1>1. CASE Refuse
  BY <1>1 DEF TypeOK, Refuse
<1>2. CASE Spawn
  BY <1>2 DEF TypeOK, Spawn
<1>3. CASE CheckSignal
  <2>1. CASE signal # 0 /\ TerminateChild
    <3>1. 128 + signal \in 0..255
      BY <2>1, SignalsKnown DEF TypeOK
    <3> QED
      BY <1>3, <2>1, <3>1, TerminateType DEF TypeOK, CheckSignal
  <2>2. CASE signal = 0
    BY <1>3, <2>2 DEF TypeOK, CheckSignal
  <2> QED
    BY <1>3, <2>1, <2>2 DEF CheckSignal
<1>4. CASE CheckDeadline
  <2>1. CASE /\ elapsed >= Timeout /\ TerminateChild
             /\ timeout' = TRUE /\ exitCode' = 124 /\ vpc' = "reap"
    <3>1. 124 \in 0..255
      OBVIOUS
    <3> QED
      BY <1>4, <2>1, <3>1, TerminateType DEF TypeOK, CheckDeadline
  <2>2. CASE elapsed < Timeout
    BY <1>4, <2>2, LimitsNat DEF TypeOK, CheckDeadline
  <2> QED
    BY <1>4, <2>1, <2>2 DEF CheckDeadline
<1>5. CASE WaitEnd
  <2>1. exitCode' \in {NoCode} \cup 0..255
    BY <1>5, ProgramType, SignalsKnown DEF TypeOK, WaitEnd
  <2> QED
    BY <1>5, <2>1 DEF TypeOK, WaitEnd
<1>6. CASE WaitSlice
  <2>1. elapsed + 1 \in 0..Timeout
    BY <1>6, LimitsNat DEF TypeOK, SliceInv, WaitSlice
  <2>2. starved' \in BOOLEAN
    BY <1>6 DEF TypeOK, WaitSlice
  <2> QED
    BY <1>6, <2>1, <2>2 DEF TypeOK, WaitSlice
<1>7. CASE Reap
  BY <1>7 DEF TypeOK, Reap
<1>8. CASE Drain
  <2>1. ASSUME NEW s \in Streams, DrainRead(s)
        PROVE  TypeOK'
    <3>1. /\ raw' \in [Streams -> Nat]
          /\ pipe' \in [Streams -> 0..PipeCapacity]
      BY <2>1, LimitsNat DEF TypeOK, DrainRead
    <3> QED
      BY <2>1, <3>1 DEF TypeOK, DrainRead
  <2>2. ASSUME NEW s \in Streams, DrainEof(s)
        PROVE  TypeOK'
    BY <2>2 DEF TypeOK, DrainEof
  <2> QED
    BY <1>8, <2>1, <2>2 DEF Drain
<1>9. CASE Report
  BY <1>9 DEF TypeOK, Report
<1> QED
  BY <1>1, <1>2, <1>3, <1>4, <1>5, <1>6, <1>7, <1>8, <1>9 DEF Veil

\* A signal from outside keeps them too.
LEMMA TypeSignal ==
  ASSUME TypeOK, SignalArrives
  PROVE  TypeOK'
<1>1. sent + 1 \in 0..MaxSignals
  BY SignalsKnown DEF TypeOK, SignalArrives
<1> QED
  BY <1>1
  DEF TypeOK, SignalArrives, waited, signals, pipes, reportVars, childVars

\* Every step keeps the types.
LEMMA TypeNext ==
  ASSUME TypeOK, ChildInv, SliceInv, [Next]_vars
  PROVE  TypeOK'
<1>1. CASE UNCHANGED vars
  BY <1>1
  DEF TypeOK, vars, waited, signals, pipes, reportVars, childVars
<1> QED
  BY <1>1, TypeChild, TypeVeil, TypeSignal DEF Next

-------------------------------------------------------------------------------
(* What has become of the child, and how far the pipes are read              *)

\* Every step keeps what veil knows of the child.
LEMMA ChildNext ==
  ASSUME TypeOK, ChildInv, [Next]_vars
  PROVE  ChildInv'
<1> USE DEF Undecided, Waiting, Collecting, ChildInv
<1>1. CASE Child
  <2>1. CASE ChildWrite
    BY <2>1 DEF ChildWrite, reportVars
  <2>2. CASE ChildEnd
    <3>1. program.end # "killed"
      BY ProgramType DEF TypeOK, Ends
    <3> QED
      BY <2>2, <3>1 DEF ChildEnd, ChildCanEnd, reportVars
  <2>3. CASE HelperEnd
    BY <2>3 DEF HelperEnd, reportVars
  <2> QED
    BY <1>1, <2>1, <2>2, <2>3 DEF Child
<1>2. CASE SignalArrives
  BY <1>2 DEF SignalArrives, childVars, reportVars
<1>3. CASE Refuse
  BY <1>3 DEF Refuse, childVars
<1>4. CASE Spawn
  BY <1>4 DEF Spawn, reportVars
<1>5. CASE CheckSignal
  BY <1>5 DEF CheckSignal, TerminateChild, childVars
<1>6. CASE CheckDeadline
  BY <1>6 DEF CheckDeadline, TerminateChild, childVars
<1>7. CASE WaitEnd \/ Reap
  BY <1>7 DEF WaitEnd, Reap, reportVars
<1>8. CASE WaitSlice
  BY <1>8 DEF WaitSlice, childVars, reportVars
<1>9. CASE Drain
  BY <1>9 DEF Drain, DrainRead, DrainEof, Draining, childVars, reportVars
<1>10. CASE Report
  BY <1>10 DEF Report, childVars
<1>11. CASE UNCHANGED vars
  BY <1>11 DEF vars, childVars, reportVars
<1> QED
  BY <1>1, <1>2, <1>3, <1>4, <1>5, <1>6, <1>7, <1>8, <1>9, <1>10, <1>11
  DEF Next, Veil

\* Only the look at the deadline leads to a slice.
LEMMA SliceNext ==
  ASSUME SliceInv, [Next]_vars
  PROVE  SliceInv'
<1>1. CASE Child \/ SignalArrives \/ UNCHANGED vars
  BY <1>1
  DEF SliceInv, Child, ChildWrite, ChildEnd, HelperEnd, SignalArrives, vars,
      waited
<1>2. CASE Veil
  BY <1>2
  DEF SliceInv, Veil, Refuse, Spawn, CheckSignal, CheckDeadline, WaitEnd,
      WaitSlice, Reap, Drain, DrainRead, DrainEof, Draining, Report, waited
<1> QED
  BY <1>1, <1>2 DEF Next

\* One more chunk was written to the one stream, none to the other.
LEMMA WrittenNext ==
  ASSUME TypeOK, pos + 1 \in 1..Len(program.script), NEW s \in Streams,
         pos' = pos + 1, program' = program
  PROVE  Written(s)' = IF program.script[pos + 1] = s THEN Written(s) + 1
                       ELSE Written(s)
<1> DEFINE now  == {i \in 1..pos : program.script[i] = s}
           next == {i \in 1..(pos + 1) : program.script[i] = s}
<1>1. pos \in Nat
  BY ProgramType DEF TypeOK
<1>2. IsFiniteSet(now)
  <2>1. IsFiniteSet(1..pos)
    BY <1>1, FS_Interval
  <2>2. now \in SUBSET (1..pos)
    OBVIOUS
  <2> HIDE DEF now
  <2> QED
    BY <2>1, <2>2, FS_Subset
<1>3. Written(s) = Cardinality(now) /\ Written(s)' = Cardinality(next)
  BY DEF Written
<1>4. CASE program.script[pos + 1] = s
  <2>1. next = now \cup {pos + 1} /\ pos + 1 \notin now
    BY <1>1, <1>4
  <2> HIDE DEF now, next
  <2> QED
    BY <1>2, <1>3, <1>4, <2>1, FS_AddElement, ZenonT(40)
<1>5. CASE program.script[pos + 1] # s
  <2>1. next = now
    BY <1>1, <1>5
  <2> QED
    BY <1>3, <1>5, <2>1
<1> QED
  BY <1>4, <1>5

\* No step but the writing of a chunk changes how many were written.
LEMMA WrittenSame ==
  ASSUME UNCHANGED <<pos, program>>, NEW s \in Streams
  PROVE  Written(s)' = Written(s)
  BY DEF Written

\* Every step keeps the account of the pipes.
LEMMA PipeNext ==
  ASSUME TypeOK, ChildInv, PipeInv, [Next]_vars
  PROVE  PipeInv'
<1>1. CASE ChildWrite
  <2>1. /\ child = "running" /\ pos' = pos + 1 /\ program' = program
        /\ raw' = raw /\ vpc' = vpc
        /\ pipe' = [pipe EXCEPT ![program.script[pos + 1]] = @ + 1]
    BY <1>1 DEF ChildWrite, ChildCanWrite, reportVars
  <2>2. vpc \notin Collecting
    BY <2>1 DEF ChildInv
  <2>3. pos + 1 \in 1..Len(program.script)
    BY <1>1, ProgramType DEF TypeOK, ChildWrite, ChildCanWrite
  <2>4. ASSUME NEW s \in Streams
        PROVE  raw'[s] + pipe'[s] = Written(s)'
    <3>1. /\ raw[s] \in Nat /\ pipe[s] \in Nat
          /\ raw[s] + pipe[s] = Written(s)
      BY LimitsNat DEF TypeOK, PipeInv
    <3>2. pipe'[s] = IF program.script[pos + 1] = s THEN pipe[s] + 1
                     ELSE pipe[s]
      BY <2>1 DEF TypeOK
    <3> HIDE DEF Written
    <3>3. Written(s)' = IF program.script[pos + 1] = s THEN Written(s) + 1
                        ELSE Written(s)
      BY <2>1, <2>3, WrittenNext
    <3> QED
      BY <2>1, <3>1, <3>2, <3>3
  <2> QED
    BY <2>1, <2>2, <2>4 DEF PipeInv, Collecting
<1>2. CASE \E s \in Streams : DrainRead(s)
  <2>1. PICK d \in Streams : DrainRead(d)
    BY <1>2
  <2>2. /\ raw' = [raw EXCEPT ![d] = @ + pipe[d]]
        /\ pipe' = [pipe EXCEPT ![d] = 0]
        /\ UNCHANGED <<pos, program, vpc>>
    BY <2>1 DEF DrainRead, childVars
  <2>3. ASSUME NEW s \in Streams
        PROVE  raw'[s] + pipe'[s] = Written(s)'
    <3>1. /\ raw[s] \in Nat /\ pipe[s] \in Nat
          /\ raw[s] + pipe[s] = Written(s)
      BY LimitsNat DEF TypeOK, PipeInv
    <3>2. /\ raw'[s] = IF s = d THEN raw[s] + pipe[s] ELSE raw[s]
          /\ pipe'[s] = IF s = d THEN 0 ELSE pipe[s]
      BY <2>2 DEF TypeOK
    <3> QED
      BY <2>2, <3>1, <3>2, WrittenSame
  <2>4. \A s \in Streams : pipe[s] = 0 => pipe'[s] = 0
    BY <2>2 DEF TypeOK
  <2> QED
    BY <2>2, <2>3, <2>4 DEF PipeInv, Streams
<1>3. CASE \E s \in Streams : DrainEof(s)
  <2>1. /\ UNCHANGED <<pos, program, raw, pipe>>
        /\ \/ vpc = "drain_stdout" /\ pipe["stdout"] = 0
              /\ vpc' = "drain_stderr"
           \/ vpc = "drain_stderr" /\ pipe["stderr"] = 0 /\ vpc' = "report"
    BY <1>3 DEF DrainEof, Draining, Streams, childVars, pipes
  <2> QED
    BY <2>1, WrittenSame DEF PipeInv
<1>4. CASE Report
  <2>1. UNCHANGED <<pos, program, raw, pipe>> /\ vpc = "report"
    BY <1>4 DEF Report, childVars, pipes
  <2> QED
    BY <1>4, <2>1, WrittenSame DEF PipeInv, Report
<1>5. CASE \/ Refuse \/ Spawn \/ CheckSignal \/ CheckDeadline \/ WaitEnd
           \/ WaitSlice \/ Reap
  <2>1. /\ UNCHANGED <<pos, program, raw, pipe>>
        /\ vpc' \notin {"drain_stderr", "report", "exited"}
    BY <1>5
    DEF Refuse, Spawn, CheckSignal, CheckDeadline, TerminateChild, WaitEnd,
        WaitSlice, Reap, childVars, pipes
  <2> QED
    BY <2>1, WrittenSame DEF PipeInv
<1>6. CASE ChildEnd \/ HelperEnd \/ SignalArrives \/ UNCHANGED vars
  <2>1. UNCHANGED <<pos, program, raw, pipe, vpc>>
    BY <1>6 DEF ChildEnd, HelperEnd, SignalArrives, vars, childVars, pipes
  <2> QED
    BY <2>1, WrittenSame DEF PipeInv
<1> QED
  BY <1>1, <1>2, <1>3, <1>4, <1>5, <1>6 DEF Next, Veil, Drain, Child

\* Every step keeps a killed group dead.
LEMMA KillNext ==
  ASSUME TypeOK, ChildInv, KillInv, [Next]_vars
  PROVE  KillInv'
<1>1. CASE Child
  <2>1. ended' = "killed" => ended = "killed"
    BY <1>1, ProgramType
    DEF TypeOK, Ends, Child, ChildWrite, ChildEnd, HelperEnd
  <2>2. program' = program /\ (helper' = "running" => helper = "running")
    BY <1>1 DEF Child, ChildWrite, ChildEnd, HelperEnd
  <2> QED
    BY <2>1, <2>2 DEF KillInv
<1>2. CASE Spawn
  BY <1>2 DEF KillInv, ChildInv, Undecided, Spawn
<1>3. CASE CheckSignal \/ CheckDeadline
  BY <1>3 DEF KillInv, CheckSignal, CheckDeadline, TerminateChild, childVars
<1>4. CASE \/ Refuse \/ WaitEnd \/ WaitSlice \/ Reap \/ Drain \/ Report
           \/ SignalArrives \/ UNCHANGED vars
  <2>1. UNCHANGED <<ended, helper, program>>
    BY <1>4
    DEF Refuse, WaitEnd, WaitSlice, Reap, Drain, DrainRead, DrainEof, Report,
        SignalArrives, vars, childVars
  <2> QED
    BY <2>1 DEF KillInv
<1> QED
  BY <1>1, <1>2, <1>3, <1>4 DEF Next, Veil


-------------------------------------------------------------------------------
(* What veil reports                                                         *)

\* A code that a step leaves alone stays right.
LEMMA CodeKept ==
  ASSUME CodeInv, UNCHANGED <<program, elapsed, signal, sent, timeout, exitCode,
                              status, ended>>,
         vpc' = "reap" => vpc = "reap",
         vpc' \in Collecting => vpc \in Collecting,
         vpc' = "exited" => vpc = "exited"
  PROVE  CodeInv'
  BY DEF CodeInv

\* Every step keeps the code that will be reported right.
LEMMA CodeNext ==
  ASSUME TypeOK, ChildInv, CodeInv, [Next]_vars
  PROVE  CodeInv'
<1>1. CASE ChildWrite \/ HelperEnd \/ UNCHANGED vars
  BY <1>1, CodeKept
  DEF ChildWrite, HelperEnd, vars, waited, signals, childVars, reportVars
<1>2. CASE ChildEnd
  <2>1. vpc \notin Collecting /\ ended = "no"
    BY <1>2 DEF ChildInv, ChildEnd, ChildCanEnd
  <2>2. ended' # "killed"
    BY <1>2, ProgramType DEF TypeOK, Ends, ChildEnd
  <2> QED
    BY <1>2, <2>1, <2>2
    DEF CodeInv, ChildEnd, Collecting, waited, signals, reportVars
<1>3. CASE SignalArrives
  <2>1. sent' # 0
    BY <1>3, SignalsKnown DEF TypeOK, SignalArrives
  <2> QED
    BY <1>3, <2>1
    DEF CodeInv, SignalArrives, waited, childVars, reportVars
<1>4. CASE Refuse
  BY <1>4 DEF CodeInv, Refuse, Collecting, waited, signals, childVars
<1>5. CASE Spawn \/ WaitSlice
  <2>1. timeout = FALSE /\ ended # "killed"
    BY <1>5 DEF TypeOK, ChildInv, Undecided, Spawn, WaitSlice
  <2>2. /\ vpc' = "signal"
        /\ UNCHANGED <<program, signal, sent, timeout, ended>>
    BY <1>5 DEF Spawn, WaitSlice, signals, childVars, reportVars
  <2> QED
    BY <2>1, <2>2 DEF CodeInv, Collecting
<1>6. CASE CheckSignal
  <2>1. timeout' = FALSE /\ ended # "killed"
    BY <1>6 DEF TypeOK, ChildInv, Undecided, CheckSignal
  <2>2. UNCHANGED <<program, signal, sent>>
    BY <1>6 DEF CheckSignal, signals
  <2>3. CASE signal # 0 /\ exitCode' = 128 + signal /\ vpc' = "reap"
    <3>1. signal \in Signals /\ sent # 0
      BY <2>3 DEF TypeOK, CodeInv
    <3> QED
      BY <2>1, <2>2, <2>3, <3>1 DEF CodeInv, Collecting
  <2>4. CASE vpc' = "deadline" /\ UNCHANGED childVars
    BY <2>1, <2>2, <2>4 DEF CodeInv, Collecting, childVars
  <2> QED
    BY <1>6, <2>3, <2>4 DEF CheckSignal
<1>7. CASE CheckDeadline
  <2>1. UNCHANGED <<program, signal, sent, elapsed>>
    BY <1>7 DEF CheckDeadline, signals, waited
  <2>2. CASE /\ elapsed >= Timeout /\ timeout' = TRUE /\ exitCode' = 124
             /\ vpc' = "reap"
    BY <2>1, <2>2 DEF CodeInv, Collecting
  <2>3. CASE vpc' = "wait" /\ UNCHANGED <<childVars, timeout>>
    <3>1. timeout = FALSE /\ ended # "killed"
      BY <1>7 DEF TypeOK, ChildInv, Undecided, CheckDeadline
    <3> QED
      BY <2>1, <2>3, <3>1 DEF CodeInv, Collecting, childVars
  <2> QED
    BY <1>7, <2>2, <2>3 DEF CheckDeadline
<1>8. CASE WaitEnd
  <2>1. timeout' = FALSE /\ ended' # "killed" /\ vpc' = "drain_stdout"
    BY <1>8 DEF TypeOK, ChildInv, Undecided, WaitEnd
  <2>2. /\ UNCHANGED <<program, signal, sent>>
        /\ ended' = "exit" => exitCode' = program.code
    BY <1>8 DEF WaitEnd, signals
  <2> QED
    BY <2>1, <2>2 DEF CodeInv
<1>9. CASE Reap
  <2>1. /\ vpc = "reap" /\ vpc' = "drain_stdout"
        /\ UNCHANGED <<program, elapsed, signal, sent, timeout, exitCode,
                       ended>>
    BY <1>9 DEF Reap, waited, signals, reportVars
  <2> QED
    BY <2>1 DEF CodeInv
<1>10. CASE Drain
  <2>1. /\ vpc \in Collecting /\ vpc' \notin {"reap", "exited"}
        /\ UNCHANGED <<program, elapsed, signal, sent, timeout, exitCode,
                       status, ended>>
    BY <1>10
    DEF Drain, DrainRead, DrainEof, Draining, Collecting, waited, signals,
        childVars, reportVars
  <2> QED
    BY <2>1, CodeKept
<1>11. CASE Report
  BY <1>11
  DEF CodeInv, Report, Collecting, waited, signals, childVars
<1> QED
  BY <1>1, <1>2, <1>3, <1>4, <1>5, <1>6, <1>7, <1>8, <1>9, <1>10, <1>11
  DEF Next, Veil, Child

\* A command that fits its pipes never waits for a reader: while it runs it has
\* something to write and room for it, or it is at its end.
LEMMA NeverBlocked ==
  ASSUME TypeOK, PipeInv, FitsPipes, program.end # "hang", child = "running"
  PROVE  ChildCanWrite \/ ChildCanEnd
<1>1. pos \in Nat /\ Len(program.script) \in Nat
  BY ProgramType DEF TypeOK
<1>2. CASE pos = Len(program.script)
  BY <1>2 DEF ChildCanEnd
<1>3. CASE pos < Len(program.script)
  <2> DEFINE s    == program.script[pos + 1]
             done == {i \in 1..pos : program.script[i] = s}
             all  == {i \in DOMAIN program.script : program.script[i] = s}
  <2>1. pos + 1 \in 1..Len(program.script) /\ s \in Streams
    BY <1>1, <1>3, ProgramType DEF TypeOK
  <2>2. DOMAIN program.script = 1..Len(program.script)
    BY ProgramType DEF TypeOK
  <2>3. IsFiniteSet(1..pos) /\ IsFiniteSet(1..Len(program.script))
    BY <1>1, FS_Interval
  <2>4. /\ done \in SUBSET (1..pos) /\ pos + 1 \notin done
        /\ all \in SUBSET (1..Len(program.script))
        /\ done \cup {pos + 1} \in SUBSET all
    BY <1>1, <1>3, <2>1, <2>2
  <2>5. /\ raw[s] \in Nat /\ pipe[s] \in Nat
        /\ raw[s] + pipe[s] = Cardinality(done)
        /\ Cardinality(all) <= PipeCapacity
    <3>1. raw[s] \in Nat /\ pipe[s] \in Nat
      BY <2>1, LimitsNat DEF TypeOK
    <3>2. Written(s) = Cardinality(done)
      BY DEF Written
    <3>3. Cardinality(all) <= PipeCapacity
      BY <2>1 DEF FitsPipes
    <3> HIDE DEF s
    <3> QED
      BY <2>1, <3>1, <3>2, <3>3 DEF PipeInv
  <2> HIDE DEF done, all
  <2>6. IsFiniteSet(done) /\ IsFiniteSet(all)
    BY <2>3, <2>4, FS_Subset
  <2>7. Cardinality(done \cup {pos + 1}) = Cardinality(done) + 1
    BY <2>4, <2>6, FS_AddElement
  <2>8. Cardinality(done \cup {pos + 1}) <= Cardinality(all)
    BY <2>4, <2>6, FS_Subset
  <2>9. Cardinality(done) \in Nat /\ Cardinality(all) \in Nat
    BY <2>6, FS_CardinalityType
  <2>10. pipe[s] < PipeCapacity
    BY <2>5, <2>7, <2>8, <2>9, LimitsNat
  <2> QED
    BY <1>3, <2>10 DEF ChildCanWrite
<1> QED
  BY <1>1, <1>2, <1>3 DEF TypeOK

\* Every step keeps the account of the slices.
LEMMA PromptNext ==
  ASSUME TypeOK, PipeInv, PromptInv, [Next]_vars
  PROVE  PromptInv'
<1>1. CASE WaitSlice
  <2>1. /\ child = "running" /\ UNCHANGED program
        /\ starved' = (starved \/ ChildCanWrite \/ ChildCanEnd)
    BY <1>1 DEF WaitSlice
  <2>2. FitsPipes' = FitsPipes
    BY <2>1 DEF FitsPipes
  <2> QED
    BY <2>1, <2>2, NeverBlocked DEF PromptInv
<1>2. CASE UNCHANGED <<program, elapsed, starved>>
  BY <1>2 DEF PromptInv, FitsPipes
<1>3. UNCHANGED <<program, elapsed, starved>> \/ WaitSlice
  BY DEF Next, Veil, Refuse, Spawn, CheckSignal, CheckDeadline, WaitEnd, Reap,
         Drain, DrainRead, DrainEof, Report, Child, ChildWrite, ChildEnd,
         HelperEnd, SignalArrives, vars, waited
<1> QED
  BY <1>1, <1>2, <1>3

-------------------------------------------------------------------------------
(* The theorems                                                              *)

ExecInv ==
    TypeOK /\ ChildInv /\ SliceInv /\ PipeInv /\ KillInv /\ CodeInv /\ PromptInv

\* No chunk is written before the start.
LEMMA ExecInit == Init => ExecInv
<1> SUFFICES ASSUME Init PROVE ExecInv
  OBVIOUS
<1>1. ASSUME NEW s \in Streams
      PROVE  raw[s] + pipe[s] = Written(s)
  <2>1. {i \in 1..pos : program.script[i] = s} = {}
    BY DEF Init
  <2>2. Written(s) = 0
    BY <2>1, FS_EmptySet DEF Written
  <2>3. raw[s] = 0 /\ pipe[s] = 0
    BY DEF Init
  <2> QED
    BY <2>2, <2>3
<1>2. PipeInv
  BY <1>1 DEF Init, PipeInv
<1>3. ChildInv /\ SliceInv /\ KillInv
  BY DEF Init, ChildInv, SliceInv, KillInv, Waiting, Collecting
<1>4. CodeInv /\ PromptInv
  BY DEF Init, CodeInv, PromptInv, Collecting
<1> QED
  BY <1>2, <1>3, <1>4, TypeInit DEF ExecInv

\* Every step keeps all of it.
LEMMA ExecNext == ExecInv /\ [Next]_vars => ExecInv'
  BY TypeNext, ChildNext, SliceNext, PipeNext, KillNext, CodeNext, PromptNext
  DEF ExecInv

\* The inductive invariant.
THEOREM ExecInvariant == Spec => []ExecInv
<1>1. Init => ExecInv
  BY ExecInit
<1>2. ExecInv /\ [Next]_vars => ExecInv'
  BY ExecNext
<1> QED
  BY <1>1, <1>2, PTL DEF Spec

\* Every variable keeps its type, with any commands, pipes and deadline.
THEOREM TypeCorrect == Spec => []TypeOK
<1>1. ExecInv => TypeOK
  BY DEF ExecInv
<1> QED
  BY <1>1, ExecInvariant, PTL

\* Reading the pipes only after the wait loses nothing of what was written.
THEOREM OutputIsKept == Spec => []OutputKept
<1>1. ExecInv => OutputKept
  <2> SUFFICES ASSUME ExecInv, vpc \in {"report", "exited"}, NEW s \in Streams
               PROVE  raw[s] = Written(s) /\ pipe[s] = 0
    BY DEF OutputKept
  <2>1. pipe[s] = 0 /\ raw[s] \in Nat /\ raw[s] + pipe[s] = Written(s)
    BY DEF ExecInv, TypeOK, PipeInv, Streams
  <2> QED
    BY <2>1
<1> QED
  BY <1>1, ExecInvariant, PTL

\* A killed command leaves nothing of its group behind.
THEOREM GroupIsGone == Spec => []GroupGone
<1>1. ExecInv => GroupGone
  BY DEF ExecInv, ChildInv, KillInv, GroupGone, Collecting
<1> QED
  BY <1>1, ExecInvariant, PTL

\* The status tells a timeout from a signal, wherever the two and the end of the
\* command meet.
THEOREM VerdictIsTheReason == Spec => []VerdictNamesTheReason
<1>1. ExecInv => VerdictNamesTheReason
  <2> SUFFICES ASSUME ExecInv, vpc = "exited"
               PROVE  /\ timeout => status = 124 /\ elapsed >= Timeout
                      /\ ended = "killed" /\ ~timeout
                           => \E n \in Signals : status = 128 + n
    BY DEF VerdictNamesTheReason
  <2>1. status = IF exitCode = NoCode THEN 0 ELSE exitCode
    BY DEF ExecInv, CodeInv
  <2>2. timeout => exitCode = 124 /\ elapsed >= Timeout
    BY DEF ExecInv, CodeInv
  <2>3. ended = "killed" /\ ~timeout => \E n \in Signals : exitCode = 128 + n
    BY DEF ExecInv, CodeInv
  <2>4. 124 # NoCode /\ \A n \in Signals : 128 + n # NoCode
    BY SignalsKnown DEF NoCode
  <2> QED
    BY <2>1, <2>2, <2>3, <2>4
<1> QED
  BY <1>1, ExecInvariant, PTL

\* A command that was not disturbed gives veil its own status.
THEOREM StatusIsTheCommands == Spec => []StatusIsCommands
<1>1. ExecInv => StatusIsCommands
  <2> SUFFICES ASSUME ExecInv, vpc = "exited", ended = "exit", ~timeout,
                      sent = 0
               PROVE  status = program.code
    BY DEF StatusIsCommands
  <2>1. /\ status = IF exitCode = NoCode THEN 0 ELSE exitCode
        /\ exitCode = program.code
    BY DEF ExecInv, CodeInv, Collecting
  <2>2. program.code # NoCode
    <3>1. program.code \in 0..255
      BY ProgramType DEF ExecInv, TypeOK
    <3> QED
      BY <3>1 DEF NoCode
  <2> QED
    BY <2>1, <2>2
<1> QED
  BY <1>1, ExecInvariant, PTL

\* Under any deadline but zero, a command that fits its pipes and gets the
\* processor is not reported as timed out.
THEOREM SmallOutputIsPrompt ==
  ASSUME Timeout # 0
  PROVE  Spec => []SmallOutputCompletes
<1>1. ExecInv => SmallOutputCompletes
  BY LimitsNat
  DEF ExecInv, TypeOK, CodeInv, PromptInv, SmallOutputCompletes
<1> QED
  BY <1>1, ExecInvariant, PTL
===============================================================================
