------------------------------ MODULE MCExecutor ------------------------------
(***************************************************************************)
(* Small instances of Executor for TLC: every way a command can end, with  *)
(* and without a descendant, writing less than, as much as, and more than  *)
(* the pipes hold.                                                         *)
(***************************************************************************)
EXTENDS Executor

Scripts == {<< >>, <<"stdout", "stderr">>, <<"stdout", "stdout">>,
            <<"stderr", "stdout", "stdout", "stdout", "stderr">>}

AllPrograms ==
    {p \in [script : Scripts, end : Ends, code : {0, 1}, helper : Helpers,
             helperEnds : BOOLEAN] :
        /\ p.end # "exit" => p.code = 0
        /\ p.helper = "none" => p.helperEnds}
===============================================================================
