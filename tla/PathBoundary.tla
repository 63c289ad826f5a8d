----------------------------- MODULE PathBoundary -----------------------------
(***************************************************************************)
(* Which spellings of a path `veil` reads: src/path_guard.rs and           *)
(* WorkspaceResolver of src/path_io.rs.  A path is a sequence of names     *)
(* from the root of the file system; a link names its final target.        *)
(***************************************************************************)
EXTENDS Integers, Sequences, SequencesExt

CONSTANTS
    Nodes,      \* the kind ("file", "dir", "other") of every path there is
    Links,      \* the canonical target of every symbolic link
    Root,       \* the canonical workspace root
    Cwd,        \* the directory the process was started in
    Blocked     \* the names blocked_patterns match

Missing == <<"?">>

\* The file system is a tree of directories; a path has a node or a link or
\* nothing, and a link leads to a node or nowhere.
ASSUME FileSystemAssumption ==
    /\ {DOMAIN Nodes, DOMAIN Links} \subseteq SUBSET Seq(STRING)
    /\ Missing \notin DOMAIN Nodes /\ DOMAIN Nodes \cap DOMAIN Links = {}
    /\ \A p \in DOMAIN Nodes :
          /\ Nodes[p] \in {"file", "dir", "other"}
          /\ p # << >> => Front(p) \in DOMAIN Nodes /\ Nodes[Front(p)] = "dir"
    /\ \A p \in DOMAIN Links : Links[p] \in DOMAIN Nodes \cup {Missing}
    /\ {<< >>, Root, Cwd} \subseteq DOMAIN Nodes
    /\ {Nodes[<< >>], Nodes[Root], Nodes[Cwd]} = {"dir"}

\* One component of fs::canonicalize.
Descend(at, name) ==
    LET child == Append(at, name)
    IN  IF at \notin DOMAIN Nodes \/ Nodes[at] # "dir" THEN Missing
        ELSE IF name = ".." THEN IF at = <<>> THEN at ELSE Front(at)
        ELSE IF child \in DOMAIN Links THEN Links[child]
        ELSE IF child \in DOMAIN Nodes THEN child
        ELSE Missing

Canonical(path) ==
    LET at[n \in 0..Len(path)] ==
            IF n = 0 THEN <<>> ELSE Descend(at[n - 1], path[n])
    IN  at[Len(path)]

\* A spelling is absolute, or relative to a directory.
From(at, raw) == IF raw.absolute THEN raw.names ELSE at \o raw.names

Candidate(raw) == From(Root, raw)

\* matching_rule_for_text: a rule matches the path, its last name or any
\* other component of it.
Matches(path) == \E i \in DOMAIN path : path[i] \in Blocked

\* Faulty variant: the link is looked for in the resolved path.
ContainsLinkInTarget(path) ==
    \E i \in DOMAIN Canonical(path) :
        SubSeq(Canonical(path), 1, i) \in DOMAIN Links

ContainsLink(path) ==
    \E i \in DOMAIN path :
        Append(Canonical(SubSeq(path, 1, i - 1)), path[i]) \in DOMAIN Links

\* resolve_existing.  The policy applies to the spelling before the file
\* system is touched, and to the target before links are refused.
Resolve(raw, action) ==
    LET target == Canonical(Candidate(raw))
    IN  IF action = "Block" /\ Matches(raw.names) THEN "denied"
        ELSE IF target = Missing                  THEN "not_found"
        ELSE IF ~IsPrefix(Root, target)           THEN "outside"
        ELSE IF action = "Block" /\ Matches(target) THEN "denied"
        ELSE IF ContainsLink(Candidate(raw))      THEN "link"
        ELSE Nodes[target]

\* PathGuard::matching_rule: the spelling, or what it names from here.
Mentions(raw) ==
    LET target == Canonical(From(Cwd, raw))
    IN  Matches(raw.names) \/ (target # Missing /\ Matches(target))
===============================================================================
