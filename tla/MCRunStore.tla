------------------------------ MODULE MCRunStore ------------------------------
(***************************************************************************)
(* Small instances of RunStore for TLC.                                    *)
(***************************************************************************)
EXTENDS RunStoreRefinement, TLC

Symmetry == Permutations(Procs) \cup Permutations(RunIds)
===============================================================================
