----------------------------- MODULE RunLifecycle -----------------------------
(***************************************************************************)
(* What the run store promises of a run id, however many `veil` processes  *)
(* use it: a run is published at most once, lapses when its time has come, *)
(* is removed at most once and never comes back; a receipt says truly      *)
(* whether it was published; and whatever a process answers about a run is *)
(* true when it answers, as if the store were one table and every answer   *)
(* one look at it.  Two answers are weaker.  A run that has lapsed may be  *)
(* called active by a lookup that began before, and expired by others,     *)
(* until it is removed; and a range that holds no line is answered for     *)
(* whatever was published once, be it removed by now.                      *)
(*                                                                         *)
(* RunStoreRefinement shows that the directory tree of RunStore, with its  *)
(* renames, tombstones and sweeps, keeps this promise.                     *)
(***************************************************************************)
CONSTANTS
    Runs,       \* run ids
    Clients,    \* the processes that ask about runs
    Silent      \* no answer

VARIABLES
    phase,  \* what has become of each run
    told,   \* what the receipt of each run says
    heard   \* what each client was last told: <<run, answer>>, or Silent

lifecycle == <<phase, told, heard>>

\* void: not stored, or removed before anybody could be told that it was.
Phases  == {"unused", "pending", "live", "lapsed", "gone", "void"}
Stored  == {"live", "lapsed"}
Answers == {"active", "active_empty", "not_found", "expired", "deleted",
            "removed", "already_gone"}
Refusals == {"storage_error", "quota_exceeded"}

Init ==
    /\ phase = [r \in Runs |-> "unused"]
    /\ told = [r \in Runs |-> "unused"]
    /\ heard = [c \in Clients |-> Silent]

Move(r, from, to) ==
    /\ phase[r] \in from
    /\ phase' = [phase EXCEPT ![r] = to]

Draw(r)    == /\ Move(r, {"unused"}, "pending")
              /\ told' = [told EXCEPT ![r] = "pending"]
Publish(r) == (\E s \in Stored : Move(r, {"pending"}, s)) /\ UNCHANGED told
Remove(r)  == Move(r, Stored, "gone") /\ UNCHANGED told

\* The run is taken back, or its process was killed, before a receipt.
GiveUp(r) ==
    /\ told[r] = "pending"
    /\ Move(r, Stored \cup {"pending", "gone"}, "void")
    /\ UNCHANGED told

Confirm(r) ==
    /\ told[r] = "pending" /\ phase[r] \in Stored \cup {"gone"}
    /\ told' = [told EXCEPT ![r] = "stored"]
    /\ UNCHANGED phase

Refuse(r) ==
    /\ told[r] = "pending"
    /\ Move(r, {"pending", "gone", "void"}, "void")
    /\ \E a \in Refusals : told' = [told EXCEPT ![r] = a]

RunStep(r) == \/ Draw(r) \/ Publish(r) \/ Remove(r)
              \/ GiveUp(r) \/ Confirm(r) \/ Refuse(r)

\* Time passes: the time of some of the stored runs has come.
Lapse(S) ==
    /\ \A r \in S : phase[r] = "live"
    /\ phase' = [r \in Runs |-> IF r \in S THEN "lapsed" ELSE phase[r]]
    /\ UNCHANGED <<told, heard>>

\* What an answer about a run claims.
Truthful(r, a) ==
    CASE a = "active"       -> phase[r] \in Stored
      [] a = "active_empty" -> phase[r] \in Stored \cup {"gone", "void"}
      [] a = "not_found"    -> phase[r] \notin Stored
      [] a = "expired"      -> phase[r] \in {"lapsed", "gone", "void"}
      [] OTHER              -> phase[r] \in {"gone", "void"}

Hear(c) ==
    \/ heard' = [heard EXCEPT ![c] = Silent]
    \/ \E r \in Runs, a \in Answers :
          Truthful(r, a) /\ heard' = [heard EXCEPT ![c] = <<r, a>>]

\* A process that starts, gives up or is killed may do both at once.
Next ==
    \/ \E S \in SUBSET Runs : Lapse(S)
    \/ \E r \in Runs : RunStep(r) /\ UNCHANGED heard
    \/ \E c \in Clients : Hear(c) /\ UNCHANGED <<phase, told>>
    \/ \E r \in Runs, c \in Clients :
          RunStep(r) /\ heard' = [heard EXCEPT ![c] = Silent]

Spec == Init /\ [][Next]_lifecycle
===============================================================================
