-------------------------------- MODULE MCGrep ---------------------------------
(***************************************************************************)
(* Small instance of Grep for TLC: a directory with a subdirectory, which   *)
(* may have one of its own, and files in both; the entries are in turn     *)
(* unreadable, too big, links, denied, missing and so on.                  *)
(***************************************************************************)
EXTENDS Grep

NodeSet == {"root", "a", "a/b", "a/f", "f", "g"}

ParentOf == [n \in NodeSet \ {"root"} |->
    IF n \in {"a/b", "a/f"} THEN "a" ELSE "root"]

LinesOfNode == [n \in NodeSet |->
    CASE n \in {"root", "f"} -> <<"hit", "miss", "hit">>
      [] n = "a/b" -> <<"hit", "bad", "hit">>
      [] OTHER -> <<"miss", "hit">>]

BlockedNodes == {"a/f"}

\* A single file, or a directory.
Trees ==
    {t \in [NodeSet -> Shapes] :
        \/ t["root"] = "file" /\ \A n \in NodeSet \ {"root"} : t[n] = "gone"
        \/ /\ t["root"] = "dir"
           /\ t["a"] \in {"dir", "dir_closed", "symlink"}
           /\ t["a/b"] \in {"dir", "other", "file", "gone"}
           /\ t["a/f"] \in {"file", "symlink", "gone"}
           /\ t["f"] \in Shapes \ {"dir", "dir_closed"}
           /\ t["g"] \in {"file", "gone", "lost"}}
===============================================================================
