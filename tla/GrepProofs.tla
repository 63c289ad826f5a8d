------------------------------ MODULE GrepProofs ------------------------------
(***************************************************************************)
(* Proofs about Grep for every tree, every limit and every change to the   *)
(* tree during the search: which lines are reported, and what a search     *)
(* owes its caller when it calls itself complete or partial.               *)
(***************************************************************************)
EXTENDS Grep, SequenceTheorems, FiniteSetTheorems, TLAPS

-------------------------------------------------------------------------------
(* The tree.                                                                 *)

\* The directories above a node are its parent and those above that: the
\* recursion has a solution, the least sets that are closed upwards.
LEMMA AboveParent ==
  \A n \in Nodes :
     Above[n] = IF n = Root THEN {} ELSE {Parent[n]} \cup Above[Parent[n]]
<1> DEFINE Up(S) == \A m \in S \ {Root} : Parent[m] \in S
           Least(n) == {p \in Nodes : \A S \in SUBSET Nodes :
                                         n \in S /\ Up(S) => p \in S}
           Over(n) == IF n = Root THEN {} ELSE Least(Parent[n])
           F(f) == [n \in Nodes |->
                      IF n = Root THEN {} ELSE {Parent[n]} \cup f[Parent[n]]]
           g == [n \in Nodes |-> Over(n)]
<1>1. \A n \in Nodes \ {Root} : Parent[n] \in Nodes
  BY TreeAssumption
<1>2. ASSUME NEW n \in Nodes
      PROVE  Least(n) = {n} \cup Over(n)
  <2>1. n \in Least(n)
    BY <1>2
  <2>2. CASE n = Root
    <3>1. Up({Root}) /\ {Root} \in SUBSET Nodes
      BY TreeAssumption
    <3>2. Least(n) \subseteq {Root}
      BY <2>2, <3>1
    <3> QED
      BY <2>1, <2>2, <3>2
  <2>3. CASE n # Root
    <3>1. Parent[n] \in Nodes
      BY <1>1, <2>3
    <3>2. ASSUME NEW p \in Over(n)
          PROVE  p \in Least(n)
      <4>1. p \in Least(Parent[n])
        BY <2>3, <3>2
      <4> QED
        BY <2>3, <4>1
    <3>3. ASSUME NEW p \in Least(n), p # n
          PROVE  p \in Over(n)
      <4> SUFFICES ASSUME NEW S \in SUBSET Nodes, Parent[n] \in S, Up(S)
                   PROVE  p \in S
        BY <2>3, <3>3
      <4>1. S \cup {n} \in SUBSET Nodes /\ Up(S \cup {n})
        BY <1>2
      <4>2. p \in S \cup {n}
        BY <3>3, <4>1
      <4> QED
        BY <3>3, <4>2
    <3> QED
      BY <2>1, <3>2, <3>3
  <2> QED
    BY <2>2, <2>3
<1> HIDE DEF Least
<1>3. g = F(g)
  <2>1. \A n \in Nodes \ {Root} : g[n] = {Parent[n]} \cup g[Parent[n]]
    BY <1>1, <1>2
  <2> QED
    BY <2>1
<1> HIDE DEF g
<1>4. Above = CHOOSE f : f = F(f)
  BY DEF Above
<1>5. Above = F(Above)
  <2>1. \E f : f = F(f)
    BY <1>3
  <2> HIDE DEF F
  <2> QED
    BY <1>4, <2>1
<1> QED
  BY <1>5

\* What holds of the target and of all that is in a directory it holds of,
\* holds everywhere.
LEMMA FromRoot ==
  ASSUME NEW S \in SUBSET Nodes, Root \in S,
         \A n \in Nodes \ {Root} : Parent[n] \in S => n \in S
  PROVE  S = Nodes
BY TreeAssumption

\* Of the target and of every other node.
LEMMA AboveStep ==
  /\ Above[Root] = {}
  /\ \A n \in Nodes \ {Root} : /\ Parent[n] \in Nodes
                              /\ Above[n] = {Parent[n]} \cup Above[Parent[n]]
BY AboveParent, TreeAssumption

\* What is above a node is a node, and the target is above all others.
LEMMA AboveNodes ==
  \A n \in Nodes : Above[n] \subseteq Nodes /\ (n # Root => Root \in Above[n])
<1> DEFINE S == {n \in Nodes : /\ Above[n] \subseteq Nodes
                               /\ n # Root => Root \in Above[n]}
<1>1. Root \in S
  BY AboveStep, TreeAssumption
<1>2. ASSUME NEW n \in Nodes \ {Root}, Parent[n] \in S
      PROVE  n \in S
  BY <1>2, AboveStep
<1>3. S = Nodes
  <2>1. S \in SUBSET Nodes
    OBVIOUS
  <2> HIDE DEF S
  <2> QED
    BY <1>1, <1>2, <2>1, FromRoot
<1> QED
  BY <1>3

\* What is above what is above a node is above it.
LEMMA AboveAbove ==
  \A n \in Nodes : \A p \in Above[n] : Above[p] \subseteq Above[n]
<1> DEFINE S == {n \in Nodes : \A p \in Above[n] : Above[p] \subseteq Above[n]}
<1>1. Root \in S
  BY AboveStep, TreeAssumption
<1>2. ASSUME NEW n \in Nodes \ {Root}, Parent[n] \in S
      PROVE  n \in S
  BY <1>2, AboveStep
<1>3. S = Nodes
  <2>1. S \in SUBSET Nodes
    OBVIOUS
  <2> HIDE DEF S
  <2> QED
    BY <1>1, <1>2, <2>1, FromRoot
<1> QED
  BY <1>3

\* No node is above itself.
LEMMA NotAboveItself ==
  \A n \in Nodes : n \notin Above[n]
<1> DEFINE S == {n \in Nodes : n \notin Above[n]}
<1>1. Root \in S
  BY AboveStep, TreeAssumption
<1>2. ASSUME NEW n \in Nodes \ {Root}, Parent[n] \in S
      PROVE  n \in S
  <2>1. /\ Parent[n] \in Nodes /\ Parent[n] \notin Above[Parent[n]]
        /\ Above[n] = {Parent[n]} \cup Above[Parent[n]]
    BY <1>2, AboveStep
  <2>2. n # Parent[n]
    BY <2>1
  <2>3. n \notin Above[Parent[n]]
    <3> SUFFICES ASSUME n \in Above[Parent[n]]
                 PROVE  FALSE
      OBVIOUS
    <3>1. Above[n] \subseteq Above[Parent[n]]
      BY <2>1, AboveAbove
    <3> QED
      BY <2>1, <3>1
  <2> QED
    BY <2>1, <2>2, <2>3
<1>3. S = Nodes
  <2>1. S \in SUBSET Nodes
    OBVIOUS
  <2> HIDE DEF S
  <2> QED
    BY <1>1, <1>2, <2>1, FromRoot
<1> QED
  BY <1>3

\* What is below a directory is in it, or below something in it.
LEMMA Through ==
  ASSUME NEW d
  PROVE  \A m \in Nodes :
            d \in Above[m] =>
               m # Root /\ (\/ Parent[m] = d
                            \/ \E c \in Above[m] \ {Root} : Parent[c] = d)
<1> DEFINE S == {m \in Nodes :
                   d \in Above[m] =>
                      m # Root
                        /\ (\/ Parent[m] = d
                            \/ \E c \in Above[m] \ {Root} : Parent[c] = d)}
<1>1. Root \in S
  BY AboveStep, TreeAssumption
<1>2. ASSUME NEW n \in Nodes \ {Root}, Parent[n] \in S
      PROVE  n \in S
  <2>1. /\ Parent[n] \in Nodes
        /\ Above[n] = {Parent[n]} \cup Above[Parent[n]]
    BY <1>2, AboveStep
  <2>2. CASE d = Parent[n]
    BY <2>2
  <2>3. CASE d \in Above[Parent[n]]
    <3>1. Parent[n] # Root /\ (\/ Parent[Parent[n]] = d
                               \/ \E c \in Above[Parent[n]] \ {Root} :
                                     Parent[c] = d)
      BY <1>2, <2>3
    <3> QED
      BY <2>1, <3>1
  <2>4. CASE d \notin Above[n]
    BY <2>4
  <2> QED
    BY <2>1, <2>2, <2>3, <2>4
<1>3. S = Nodes
  <2>1. S \in SUBSET Nodes
    OBVIOUS
  <2> HIDE DEF S
  <2> QED
    BY <1>1, <1>2, <2>1, FromRoot
<1> QED
  BY <1>3

-------------------------------------------------------------------------------
(* The open directories.                                                     *)

Frames == [dir : Nodes, left : SUBSET (Nodes \ {Root}), depth : Nat]

\* The open directories are a path down from the target, none of which the
\* policy denies; an entry is left where it was found until it is taken.
Chain(s) ==
    /\ s \in Seq(Frames) /\ Len(s) <= MaxDepth + 1
    /\ \A i \in 1..Len(s) :
          /\ s[i].depth = i - 1 /\ s[i].dir \notin Blocked
          /\ \A n \in s[i].left : Parent[n] = s[i].dir
          /\ Above[s[i].dir] = {s[j].dir : j \in 1..(i - 1)}
          /\ i = 1 => s[i].dir = Root
          /\ i # 1 => /\ Parent[s[i].dir] = s[i - 1].dir
                      /\ s[i].dir \notin s[i - 1].left

\* The nodes the walk has still to come to: what is left, and what is below.
Await(s) ==
    {m \in Nodes : \E i \in 1..Len(s) :
                      m \in s[i].left \/ \E q \in Above[m] : q \in s[i].left}

Kinds == {"entry_unreadable", "symlink_skipped", "unsupported_file_type",
          "resource_limit_reached", "file_unreadable"}

\* What is recorded.
Recorded ==
    /\ diagnostics \in Seq([kind : Kinds, path : Nodes])
    /\ Len(diagnostics) <= MaxDiagnostics
    /\ diagnostics_capped \in BOOLEAN /\ partial \in BOOLEAN
    /\ diagnostics_capped =>
          /\ Len(diagnostics) = MaxDiagnostics
          /\ diagnostics[MaxDiagnostics].kind = "resource_limit_reached"
    /\ ~partial => diagnostics = << >>

Limited == \E i \in 1..Len(diagnostics) :
              diagnostics[i].kind = "resource_limit_reached"

Noted(n) == \E i \in 1..Len(diagnostics) : diagnostics[i].path = n

Reading == pc \in {"file", "lines"}

\* What is so however the tree changes.
Walking ==
    /\ tree \in [Nodes -> Shapes] /\ changes \in 0..MaxChanges
    /\ pc \in {"start", "walk", "file", "lines", "done", "failed"}
    /\ pc \in {"start", "failed"} => stack = << >> /\ matches = << >>
    /\ pc = "walk" => stack # << >>
    /\ pc = "done" => stack = << >>
    /\ Chain(stack) /\ entries_seen \in 0..MaxEntries
    /\ Recorded

\* The file at hand is in the innermost directory and has left the list.
AtFile ==
    /\ file \in Nodes /\ next_line \in 1..(Len(Lines[file]) + 1)
    /\ Reading =>
          /\ file \notin Blocked /\ file \notin Await(stack)
          /\ file = Root => stack = << >>
          /\ file # Root => stack # << >> /\ Parent[file] = Top.dir
          /\ pc = "file" => next_line = 1
          /\ \A k \in 1..(next_line - 1) : Lines[file][k] # "bad"

Matched ==
    /\ matches \in Seq([path : Nodes, line : Nat])
    /\ \A i, j \in 1..Len(matches) : matches[i] = matches[j] => i = j
    /\ \A i \in 1..Len(matches) :
          LET m == matches[i]
          IN  /\ m \in Hits(m.path) /\ m.path \notin Await(stack)
              /\ ({m.path} \cup Above[m.path]) \cap Blocked = {}
              /\ Reading /\ m.path = file => m.line < next_line

\* A search has cause to be partial.
Cause ==
    \/ \E n \in Nodes : Gap(n)
    \/ Cardinality({n \in Nodes \ {Root} : Reached(n)}) > MaxEntries

Taken == {n \in Nodes \ {Root} : Reached(n) /\ n \notin Await(stack)}

Handled(n) ==
    /\ Reached(n) /\ pc # "start" /\ n \notin Await(stack)
    /\ ~(Reading /\ n = file)

Named(n) == Noted(n) \/ (tree[n] = "lost" /\ Noted(Parent[n]))

Settled(n) ==
    /\ Gap(n) => Named(n)
    /\ n \notin Blocked /\ tree[n] = "file" => Hits(n) \subseteq Found

\* What is so of a tree that is left alone.
Calm ==
    /\ pc = "start" => tree[Root] = "dir" /\ entries_seen = 0
    /\ pc # "failed"
    /\ \A i \in 1..Len(stack) :
          /\ tree[stack[i].dir] = "dir"
          /\ \A n \in stack[i].left : tree[n] # "gone"
    /\ Reading => /\ tree[file] \in FileShapes
                  /\ file = Root \/ pc = "lines" => tree[file] = "file"
                  /\ {m \in Hits(file) : m.line < next_line} \subseteq Found
    /\ Found \subseteq Owed
    /\ Limited \/ \A n \in Nodes : Handled(n) => Settled(n)
    /\ partial => Cause
    /\ pc # "start" => Cause \/ entries_seen = Cardinality(Taken)

Steady == Walking /\ AtFile /\ Matched

GrepInv == Steady /\ (changes = 0 => Calm)

\* Of a step at n: what was named still is, unless a limit is, and the search
\* becomes partial for a reason only.
Carried(n) ==
    /\ Limited => Limited'
    /\ Limited' \/ \A m \in Nodes : Noted(m) => Noted(m)'
    /\ partial' => partial \/ Gap(n)

-------------------------------------------------------------------------------
(* Numbers.                                                                  *)

\* Distinct things that are numbered are as many as the numbers.
LEMMA Numbered ==
  ASSUME NEW n \in Nat, NEW T, NEW f \in [1..n -> T],
         \A i, j \in 1..n : f[i] = f[j] => i = j,
         \A t \in T : \E i \in 1..n : f[i] = t
  PROVE  IsFiniteSet(T) /\ Cardinality(T) = n
<1>2. f \in Bijection(1..n, T)
  BY DEF Bijection, Injection, Surjection, IsInjective
<1>3. ExistsBijection(1..n, T)
  BY <1>2 DEF ExistsBijection
<1>4. IsFiniteSet(1..n) /\ Cardinality(1..n) = n
  <2>1. 1 \in Int /\ n \in Int
    OBVIOUS
  <2>2. IsFiniteSet(1..n) /\ Cardinality(1..n) = IF 1 > n THEN 0 ELSE n - 1 + 1
    BY <2>1, FS_Interval
  <2> QED
    BY <2>2
<1> QED
  BY <1>3, <1>4, FS_Bijection

-------------------------------------------------------------------------------
(* Open directories.                                                         *)

\* Of an open directory of a path.
LEMMA FrameType ==
  ASSUME NEW s, Chain(s), NEW i \in 1..Len(s)
  PROVE  /\ Len(s) \in Nat /\ s[i] \in Frames /\ s[i].dir \in Nodes
         /\ s[i].left \subseteq Nodes \ {Root} /\ s[i].depth = i - 1
         /\ s[i].dir \notin Blocked
         /\ \A n \in s[i].left : Parent[n] = s[i].dir
         /\ Above[s[i].dir] = {s[j].dir : j \in 1..(i - 1)}
<1>1. s \in Seq(Frames)
  BY DEF Chain
<1>2. Len(s) \in Nat /\ s[i] \in Frames
  BY <1>1, ElementOfSeq, LenProperties
<1> QED
  BY <1>2 DEF Chain, Frames

\* The directories of a path differ.
LEMMA Distinct ==
  ASSUME NEW s, Chain(s), NEW i \in 1..Len(s), NEW j \in 1..Len(s),
         s[i].dir = s[j].dir
  PROVE  i = j
<1>1. Len(s) \in Nat /\ i \in Int /\ j \in Int
  BY FrameType
<1>2. ASSUME NEW k \in 1..Len(s), NEW l \in 1..Len(s), k < l
      PROVE  s[k].dir # s[l].dir
  <2>1. Above[s[l].dir] = {s[m].dir : m \in 1..(l - 1)} /\ s[l].dir \in Nodes
    BY FrameType
  <2>2. k \in 1..(l - 1)
    BY <1>1, <1>2
  <2>3. s[k].dir \in Above[s[l].dir]
    BY <2>1, <2>2
  <2> QED
    BY <2>1, <2>3, NotAboveItself
<1>3. ~(i < j) /\ ~(j < i)
  BY <1>2
<1> QED
  BY <1>1, <1>3

\* There are as many directories above one as it is deep.
LEMMA DirDepth ==
  ASSUME NEW s, Chain(s), NEW i \in 1..Len(s)
  PROVE  /\ Above[s[i].dir] = {s[j].dir : j \in 1..(i - 1)}
         /\ Cardinality(Above[s[i].dir]) = i - 1
<1>1. /\ Len(s) \in Nat /\ s[i].dir \in Nodes
      /\ Above[s[i].dir] = {s[j].dir : j \in 1..(i - 1)}
  BY FrameType
<1> DEFINE D == Above[s[i].dir]
           k == i - 1
           f == [j \in 1..k |-> s[j].dir]
<1>2. k \in Nat /\ f \in [1..k -> D]
  BY <1>1
<1>3. \A j, l \in 1..k : f[j] = f[l] => j = l
  <2>1. 1..k \subseteq 1..Len(s)
    BY <1>1
  <2> QED
    BY <2>1, Distinct
<1>4. \A t \in D : \E j \in 1..k : f[j] = t
  BY <1>1
<1> HIDE DEF f, D, k
<1>5. IsFiniteSet(D) /\ Cardinality(D) = k
  BY <1>2, <1>3, <1>4, Numbered
<1> QED
  BY <1>1, <1>5 DEF D, k

\* What is above an open directory, and above what is left in it.
LEMMA LeftAbove ==
  ASSUME NEW s, Chain(s), NEW i \in 1..Len(s), NEW n \in s[i].left
  PROVE  /\ n \in Nodes \ {Root} /\ Parent[n] = s[i].dir
         /\ Above[n] = {s[j].dir : j \in 1..i}
         /\ Cardinality(Above[n]) = i
         /\ \A j \in 1..Len(s) : s[j].dir # n
<1>0. /\ s[i].left \subseteq Nodes \ {Root} /\ Len(s) \in Nat
      /\ \A m \in s[i].left : Parent[m] = s[i].dir
      /\ Above[s[i].dir] = {s[j].dir : j \in 1..(i - 1)}
  BY FrameType
<1>1. /\ n \in Nodes \ {Root} /\ Parent[n] = s[i].dir /\ Len(s) \in Nat
      /\ Above[s[i].dir] = {s[j].dir : j \in 1..(i - 1)}
  BY <1>0
<1>2. Above[n] = {s[i].dir} \cup {s[j].dir : j \in 1..(i - 1)}
  BY <1>1, AboveStep
<1>3. 1..i = {i} \cup 1..(i - 1)
  BY <1>1
<1>4. Above[n] = {s[j].dir : j \in 1..i}
  BY <1>2, <1>3
<1>5. Cardinality(Above[n]) = i
  <2> DEFINE D == Above[n]
             f == [j \in 1..i |-> s[j].dir]
  <2>1. i \in Nat /\ f \in [1..i -> D]
    BY <1>1, <1>4
  <2>2. \A j, k \in 1..i : f[j] = f[k] => j = k
    <3>1. 1..i \subseteq 1..Len(s)
      BY <1>1
    <3> QED
      BY <3>1, Distinct
  <2>3. \A t \in D : \E j \in 1..i : f[j] = t
    BY <1>4
  <2> HIDE DEF f, D
  <2>4. IsFiniteSet(D) /\ Cardinality(D) = i
    BY <2>1, <2>2, <2>3, Numbered
  <2> QED
    BY <2>4 DEF D
<1>6. \A j \in 1..Len(s) : s[j].dir # n
  <2> SUFFICES ASSUME NEW j \in 1..Len(s), s[j].dir = n
               PROVE  FALSE
    OBVIOUS
  <2>1. Above[n] = {s[k].dir : k \in 1..(j - 1)}
    BY FrameType
  <2>2. PICK k \in 1..(j - 1) : s[k].dir = s[i].dir
    <3>1. s[i].dir \in Above[n]
      BY <1>4, <1>1
    <3> QED
      BY <2>1, <3>1
  <2>3. k = i /\ i < j
    <3>1. k \in 1..Len(s) /\ k < j
      BY <1>1
    <3>2. k = i
      BY <2>2, <3>1, Distinct
    <3> QED
      BY <3>1, <3>2
  <2>4. j # 1 /\ Parent[n] = s[j - 1].dir /\ n \notin s[j - 1].left
    BY <2>3, <1>1 DEF Chain
  <2>5. j - 1 \in 1..Len(s)
    BY <1>1, <2>4
  <2>6. j - 1 = i
    BY <1>1, <2>4, <2>5, Distinct
  <2> QED
    BY <2>4, <2>6
<1> QED
  BY <1>1, <1>4, <1>5, <1>6

-------------------------------------------------------------------------------
(* Steps of the walk.                                                        *)

\* Of t: it is s without the entry n of the innermost directory.
Removed(s, n, t) ==
    /\ t \in Seq(Frames) /\ Len(t) = Len(s)
    /\ \A i \in 1..Len(s) :
          /\ t[i].dir = s[i].dir /\ t[i].depth = s[i].depth
          /\ t[i].left = IF i = Len(s) THEN s[i].left \ {n} ELSE s[i].left

\* An entry is taken from the innermost directory.
LEMMA LeftRemoves ==
  ASSUME NEW s, Chain(s), Len(s) \in 1..Len(s), NEW n
  PROVE  Removed(s, n, [s EXCEPT ![Len(s)].left = @ \ {n}])
<1> DEFINE fr == [s[Len(s)] EXCEPT !.left = @ \ {n}]
           t == [s EXCEPT ![Len(s)] = fr]
<1>1. s \in Seq(Frames) /\ Len(s) \in Nat
  BY LenProperties DEF Chain
<1>2. s[Len(s)] \in Frames
  BY FrameType
<1>3. /\ fr \in Frames /\ fr.dir = s[Len(s)].dir
      /\ fr.depth = s[Len(s)].depth /\ fr.left = s[Len(s)].left \ {n}
  BY <1>2 DEF Frames
<1>4. t = [s EXCEPT ![Len(s)].left = @ \ {n}]
  OBVIOUS
<1> HIDE DEF fr
<1>5. /\ t \in Seq(Frames) /\ Len(t) = Len(s)
      /\ \A i \in 1..Len(s) : t[i] = IF i = Len(s) THEN fr ELSE s[i]
  BY <1>1, <1>3, ExceptSeq
<1> HIDE DEF t
<1>6. Removed(s, n, t)
  BY <1>3, <1>5 DEF Removed
<1> QED
  BY <1>4, <1>6

\* What is left is still a path.
LEMMA TakeChain ==
  ASSUME NEW s, Chain(s), Len(s) \in 1..Len(s), NEW n, NEW t, Removed(s, n, t)
  PROVE  Chain(t)
<1>1. s \in Seq(Frames) /\ Len(s) \in Nat /\ Len(s) <= MaxDepth + 1
  BY LenProperties DEF Chain
<1>7. t \in Seq(Frames) /\ Len(t) = Len(s)
  BY DEF Removed
<1>8. \A i \in 1..Len(s) :
         /\ t[i].dir = s[i].dir /\ t[i].depth = s[i].depth
         /\ t[i].left = IF i = Len(s) THEN s[i].left \ {n} ELSE s[i].left
  BY DEF Removed
<1>9. \A i \in 1..Len(s) : {t[j].dir : j \in 1..(i - 1)}
                               = {s[j].dir : j \in 1..(i - 1)}
  <2> SUFFICES ASSUME NEW i \in 1..Len(s)
               PROVE  \A j \in 1..(i - 1) : t[j].dir = s[j].dir
    OBVIOUS
  <2>1. 1..(i - 1) \subseteq 1..Len(s)
    BY <1>1
  <2> QED
    BY <1>8, <2>1
<1>10. \A i \in 1..Len(s) : t[i].left \subseteq s[i].left
  BY <1>8
<1>11. Chain(t)
  <2> SUFFICES ASSUME NEW i \in 1..Len(t)
               PROVE  /\ t[i].depth = i - 1 /\ t[i].dir \notin Blocked
                      /\ \A m \in t[i].left : Parent[m] = t[i].dir
                      /\ Above[t[i].dir] = {t[j].dir : j \in 1..(i - 1)}
                      /\ i = 1 => t[i].dir = Root
                      /\ i # 1 => /\ Parent[t[i].dir] = t[i - 1].dir
                                  /\ t[i].dir \notin t[i - 1].left
    BY <1>1, <1>7 DEF Chain
  <2>1. i \in 1..Len(s)
    BY <1>7
  <2>2. t[i].depth = i - 1 /\ t[i].dir \notin Blocked
    BY <1>8, <2>1 DEF Chain
  <2>3. \A m \in t[i].left : Parent[m] = t[i].dir
    <3>1. \A m \in s[i].left : Parent[m] = s[i].dir
      BY <2>1, FrameType
    <3> QED
      BY <1>8, <1>10, <2>1, <3>1
  <2>4. Above[t[i].dir] = {t[j].dir : j \in 1..(i - 1)}
    <3>1. Above[s[i].dir] = {s[j].dir : j \in 1..(i - 1)} /\ t[i].dir = s[i].dir
      BY <1>8, <2>1, FrameType
    <3> QED
      BY <1>9, <2>1, <3>1
  <2>5. i = 1 => t[i].dir = Root
    BY <1>8, <2>1 DEF Chain
  <2>6. ASSUME i # 1
        PROVE  /\ Parent[t[i].dir] = t[i - 1].dir
               /\ t[i].dir \notin t[i - 1].left
    <3>1. i - 1 \in 1..Len(s)
      BY <1>1, <2>1, <2>6
    <3>2. /\ Parent[s[i].dir] = s[i - 1].dir
          /\ s[i].dir \notin s[i - 1].left
      BY <2>1, <2>6 DEF Chain
    <3> QED
      BY <1>8, <1>10, <2>1, <3>1, <3>2
  <2> QED
    BY <2>2, <2>3, <2>4, <2>5, <2>6
<1> QED
  BY <1>11

\* Then the walk waits for neither the entry nor what is only below it.
LEMMA TakeAwait ==
  ASSUME NEW s, Chain(s), Len(s) \in 1..Len(s), NEW n \in s[Len(s)].left,
         NEW t, Removed(s, n, t)
  PROVE  /\ Await(t) \subseteq Await(s) /\ n \in Await(s) /\ n \notin Await(t)
         /\ \A m \in Await(s) \ Await(t) : m = n \/ n \in Above[m]
<1>1. /\ Len(t) = Len(s)
      /\ \A i \in 1..Len(s) :
            /\ t[i].dir = s[i].dir /\ t[i].depth = s[i].depth
            /\ t[i].left = IF i = Len(s) THEN s[i].left \ {n} ELSE s[i].left
  BY DEF Removed
<1>2. Len(s) \in Nat /\ Len(s) \in 1..Len(s)
  BY FrameType
<1>3. \A i \in 1..Len(s) : t[i].left \subseteq s[i].left
  BY <1>1
<1>4. Await(t) \subseteq Await(s)
  BY <1>1, <1>3 DEF Await
<1>5. /\ n \in Nodes \ {Root} /\ Parent[n] = s[Len(s)].dir
      /\ Above[n] = {s[j].dir : j \in 1..Len(s)}
  BY <1>2, LeftAbove
<1>6. n \in Await(s)
  BY <1>2, <1>5 DEF Await
<1>7. n \notin Await(t)
  <2> SUFFICES ASSUME NEW i \in 1..Len(s),
                      n \in t[i].left \/ \E q \in Above[n] : q \in t[i].left
               PROVE  FALSE
    BY <1>1 DEF Await
  <2>1. CASE n \in t[i].left
    <3>1. n \in s[i].left
      BY <1>3, <2>1
    <3>2. Parent[n] = s[i].dir
      BY <3>1, FrameType
    <3>3. i = Len(s)
      BY <1>2, <1>5, <3>2, Distinct
    <3> QED
      BY <1>1, <2>1, <3>3
  <2>2. ASSUME NEW q \in Above[n], q \in t[i].left
        PROVE  FALSE
    <3>1. q \in s[i].left
      BY <1>3, <2>2
    <3>2. \A j \in 1..Len(s) : s[j].dir # q
      BY <3>1, LeftAbove
    <3> QED
      BY <1>5, <3>2
  <2> QED
    BY <2>1, <2>2
<1>8. ASSUME NEW m \in Await(s) \ Await(t)
      PROVE  m = n \/ n \in Above[m]
  <2>1. m \in Nodes
    BY DEF Await
  <2>2. PICK i \in 1..Len(s) :
                m \in s[i].left \/ \E q \in Above[m] : q \in s[i].left
    BY DEF Await
  <2>3. ~(m \in t[i].left \/ \E q \in Above[m] : q \in t[i].left)
    BY <1>1, <2>1, <2>2 DEF Await
  <2> QED
    BY <1>1, <2>2, <2>3
<1> QED
  BY <1>4, <1>6, <1>7, <1>8

\* Of u: the directory n, of which the entries L are found, is opened in the
\* innermost directory of t.
Opened(t, n, L, u) ==
    /\ u \in Seq(Frames) /\ Len(u) = Len(t) + 1
    /\ \A i \in 1..Len(t) : u[i] = t[i]
    /\ u[Len(t) + 1] = [dir |-> n, left |-> L, depth |-> Len(t)]

\* Opening a directory appends its frame.
LEMMA AppendOpens ==
  ASSUME NEW t, Chain(t), NEW n \in Nodes, NEW L \in SUBSET (Nodes \ {Root})
  PROVE  Opened(t, n, L,
                Append(t, [dir |-> n, left |-> L, depth |-> Len(t)]))
<1> DEFINE fr == [dir |-> n, left |-> L, depth |-> Len(t)]
<1>1. t \in Seq(Frames) /\ Len(t) \in Nat
  BY LenProperties DEF Chain
<1>2. fr \in Frames
  BY <1>1 DEF Frames
<1> HIDE DEF fr
<1>3. /\ Append(t, fr) \in Seq(Frames) /\ Len(Append(t, fr)) = Len(t) + 1
      /\ \A i \in 1..Len(t) : Append(t, fr)[i] = t[i]
      /\ Append(t, fr)[Len(t) + 1] = fr
  BY <1>1, <1>2, AppendProperties
<1> QED
  BY <1>3 DEF Opened, fr

\* The directories above an entry, as a set.
LEMMA DirSet ==
  ASSUME NEW A, NEW t,
         \A p \in A : \E j \in 1..Len(t) : t[j].dir = p,
         \A j \in 1..Len(t) : t[j].dir \in A
  PROVE  A = {t[j].dir : j \in 1..Len(t)}
OBVIOUS

\* A directory that has left the list of the one it is in can be opened.
LEMMA PushChain ==
  ASSUME NEW t, Chain(t), Len(t) \in 1..Len(t), Len(t) <= MaxDepth,
         NEW n \in Nodes \ {Root}, n \notin Blocked,
         Parent[n] = t[Len(t)].dir, n \notin t[Len(t)].left,
         Above[n] = {t[j].dir : j \in 1..Len(t)},
         NEW L, \A c \in L : Parent[c] = n,
         NEW u, Opened(t, n, L, u)
  PROVE  Chain(u)
<1>1. t \in Seq(Frames) /\ Len(t) \in Nat /\ MaxDepth \in Nat
  BY LenProperties, TreeAssumption DEF Chain
<1>2. /\ u \in Seq(Frames) /\ Len(u) = Len(t) + 1
      /\ \A i \in 1..Len(t) : u[i] = t[i]
  BY DEF Opened
<1>3. /\ u[Len(t) + 1].dir = n /\ u[Len(t) + 1].left = L
      /\ u[Len(t) + 1].depth = Len(t)
  BY DEF Opened
<1>4. Len(u) <= MaxDepth + 1
  BY <1>1, <1>2
<1> SUFFICES ASSUME NEW i \in 1..Len(u)
             PROVE  /\ u[i].depth = i - 1 /\ u[i].dir \notin Blocked
                    /\ \A m \in u[i].left : Parent[m] = u[i].dir
                    /\ Above[u[i].dir] = {u[j].dir : j \in 1..(i - 1)}
                    /\ i = 1 => u[i].dir = Root
                    /\ i # 1 => /\ Parent[u[i].dir] = u[i - 1].dir
                                /\ u[i].dir \notin u[i - 1].left
  BY <1>2, <1>4 DEF Chain
<1>5. \A j \in 1..(i - 1) : u[j] = t[j]
  BY <1>1, <1>2
<1>6. {u[j].dir : j \in 1..(i - 1)} = {t[j].dir : j \in 1..(i - 1)}
  BY <1>5
<1>7. CASE i \in 1..Len(t)
  <2>1. u[i] = t[i]
    BY <1>2, <1>7
  <2>2. /\ t[i].depth = i - 1 /\ t[i].dir \notin Blocked
        /\ \A m \in t[i].left : Parent[m] = t[i].dir
        /\ Above[t[i].dir] = {t[j].dir : j \in 1..(i - 1)}
    BY <1>7, FrameType
  <2>3. i = 1 => t[i].dir = Root
    BY <1>7 DEF Chain
  <2>4. ASSUME i # 1
        PROVE  /\ Parent[t[i].dir] = t[i - 1].dir
               /\ t[i].dir \notin t[i - 1].left
               /\ u[i - 1] = t[i - 1]
    <3>1. i - 1 \in 1..Len(t)
      BY <1>1, <1>7, <2>4
    <3> QED
      BY <1>2, <1>7, <2>4, <3>1 DEF Chain
  <2> QED
    BY <1>6, <2>1, <2>2, <2>3, <2>4
<1>8. CASE i = Len(t) + 1
  <2>1. i - 1 = Len(t) /\ i # 1 /\ u[i - 1] = t[Len(t)]
    BY <1>1, <1>2, <1>8
  <2> QED
    BY <1>3, <1>6, <1>8, <2>1
<1> QED
  BY <1>1, <1>2, <1>7, <1>8

\* Then the walk waits for what was found too, and for what is below that.
LEMMA PushAwait ==
  ASSUME NEW t, Chain(t),
         NEW n \in Nodes \ {Root},
         NEW L, \A c \in L : Parent[c] = n,
         NEW u, Opened(t, n, L, u)
  PROVE  /\ Await(u) = Await(t) \cup
               {m \in Nodes : m \in L \/ \E q \in Above[m] : q \in L}
         /\ \A m \in Await(u) \ Await(t) : n \in Above[m]
         /\ n \notin Await(t) => n \notin Await(u)
<1> DEFINE New == {m \in Nodes : m \in L \/ \E q \in Above[m] : q \in L}
<1>1. t \in Seq(Frames) /\ Len(t) \in Nat
  BY LenProperties DEF Chain
<1>2. /\ u \in Seq(Frames) /\ Len(u) = Len(t) + 1
      /\ \A i \in 1..Len(t) : u[i] = t[i]
  BY DEF Opened
<1>3. u[Len(t) + 1].left = L
  BY DEF Opened
<1>4. L \subseteq Nodes \ {Root}
  <2>1. u[Len(t) + 1] \in Frames
    BY <1>1, <1>2, ElementOfSeq
  <2> QED
    BY <1>3, <2>1 DEF Frames
<1>5. ASSUME NEW m \in Await(u)
      PROVE  m \in Await(t) \cup New
  <2>1. m \in Nodes
    BY DEF Await
  <2>2. PICK i \in 1..Len(u) :
                m \in u[i].left \/ \E q \in Above[m] : q \in u[i].left
    BY DEF Await
  <2>3. CASE i \in 1..Len(t)
    BY <1>2, <2>1, <2>2, <2>3 DEF Await
  <2>4. CASE i = Len(t) + 1
    BY <1>3, <2>1, <2>2, <2>4
  <2> QED
    BY <1>1, <1>2, <2>2, <2>3, <2>4
<1>6. Await(t) \subseteq Await(u)
  <2> SUFFICES ASSUME NEW m \in Await(t)
               PROVE  m \in Await(u)
    OBVIOUS
  <2>1. m \in Nodes
    BY DEF Await
  <2>2. PICK i \in 1..Len(t) :
                m \in t[i].left \/ \E q \in Above[m] : q \in t[i].left
    BY DEF Await
  <2>3. i \in 1..Len(u) /\ u[i] = t[i]
    BY <1>1, <1>2, <2>2
  <2> QED
    BY <2>1, <2>2, <2>3 DEF Await
<1>7. New \subseteq Await(u)
  <2>1. Len(t) + 1 \in 1..Len(u)
    BY <1>1, <1>2
  <2> QED
    BY <1>3, <2>1 DEF Await
<1>8. \A m \in New : n \in Above[m]
  <2> SUFFICES ASSUME NEW m \in New
               PROVE  n \in Above[m]
    OBVIOUS
  <2>1. \A c \in L : n \in Above[c]
    BY <1>4, AboveStep
  <2>2. \A q \in Above[m] : Above[q] \subseteq Above[m]
    BY AboveAbove
  <2> QED
    BY <2>1, <2>2
<1>9. n \notin New
  BY <1>8, NotAboveItself
<1> QED
  BY <1>5, <1>6, <1>7, <1>8, <1>9

\* Of t: it is s without the innermost directory.
Shut(s, t) ==
    /\ t \in Seq(Frames) /\ Len(t) = Len(s) - 1
    /\ \A i \in 1..Len(t) : t[i] = s[i]

\* Closing a directory drops its frame.
LEMMA FrontShuts ==
  ASSUME NEW s, Chain(s), Len(s) \in 1..Len(s)
  PROVE  Shut(s, Front(s))
<1>1. s \in Seq(Frames) /\ Len(s) \in Nat
  BY LenProperties DEF Chain
<1>2. Front(s) = SubSeq(s, 1, Len(s) - 1)
  BY DEF Front
<1>3. \A i \in 1..(Len(s) - 1) : s[i] \in Frames
  BY <1>1, ElementOfSeq
<1>4. 1 \in Int /\ Len(s) - 1 \in Int /\ (Len(s) - 1) - 1 + 1 = Len(s) - 1
  BY <1>1
<1>5. /\ SubSeq(s, 1, Len(s) - 1) \in Seq(Frames)
      /\ Len(SubSeq(s, 1, Len(s) - 1))
            = IF 1 <= Len(s) - 1 THEN (Len(s) - 1) - 1 + 1 ELSE 0
      /\ \A i \in 1..((Len(s) - 1) - 1 + 1) :
            SubSeq(s, 1, Len(s) - 1)[i] = s[1 + i - 1]
  BY <1>3, <1>4, SubSeqProperties
<1>6. Len(Front(s)) = Len(s) - 1
  <2>1. \A k \in Nat \ {0} : (IF 1 <= k - 1 THEN (k - 1) - 1 + 1 ELSE 0) = k - 1
    OBVIOUS
  <2>2. Len(s) \in Nat \ {0}
    BY <1>1
  <2>3. Len(SubSeq(s, 1, Len(s) - 1)) = Len(s) - 1
    BY <1>5, <2>1, <2>2
  <2> QED
    BY <1>2, <2>3
<1>7. \A i \in 1..Len(Front(s)) : Front(s)[i] = s[i]
  BY <1>1, <1>2, <1>4, <1>5, <1>6
<1> QED
  BY <1>2, <1>5, <1>6, <1>7 DEF Shut

\* The directories that stay open are a path, and the walk waits for no more.
LEMMA PopChain ==
  ASSUME NEW s, Chain(s), Len(s) \in 1..Len(s), NEW t, Shut(s, t)
  PROVE  /\ Chain(t) /\ Await(t) \subseteq Await(s)
         /\ s[Len(s)].left = {} => Await(t) = Await(s)
<1>1. /\ s \in Seq(Frames) /\ Len(s) \in Nat /\ Len(s) <= MaxDepth + 1
      /\ MaxDepth \in Nat
  BY LenProperties, TreeAssumption DEF Chain
<1>2. /\ t \in Seq(Frames) /\ Len(t) = Len(s) - 1
      /\ \A i \in 1..Len(t) : t[i] = s[i]
  BY DEF Shut
<1>3. 1..Len(t) \subseteq 1..Len(s) /\ Len(t) <= MaxDepth + 1
  BY <1>1, <1>2
<1>4. Chain(t)
  <2> SUFFICES ASSUME NEW i \in 1..Len(t)
               PROVE  /\ t[i].depth = i - 1 /\ t[i].dir \notin Blocked
                      /\ \A m \in t[i].left : Parent[m] = t[i].dir
                      /\ Above[t[i].dir] = {t[j].dir : j \in 1..(i - 1)}
                      /\ i = 1 => t[i].dir = Root
                      /\ i # 1 => /\ Parent[t[i].dir] = t[i - 1].dir
                                  /\ t[i].dir \notin t[i - 1].left
    BY <1>2, <1>3 DEF Chain
  <2>1. i \in 1..Len(s) /\ t[i] = s[i]
    BY <1>2, <1>3
  <2>2. \A j \in 1..(i - 1) : t[j] = s[j]
    BY <1>1, <1>2
  <2>3. /\ s[i].depth = i - 1 /\ s[i].dir \notin Blocked
        /\ \A m \in s[i].left : Parent[m] = s[i].dir
        /\ Above[s[i].dir] = {s[j].dir : j \in 1..(i - 1)}
    BY <2>1, FrameType
  <2>4. {t[j].dir : j \in 1..(i - 1)} = {s[j].dir : j \in 1..(i - 1)}
    BY <2>2
  <2>5. i = 1 => s[i].dir = Root
    BY <2>1 DEF Chain
  <2>6. ASSUME i # 1
        PROVE  /\ Parent[s[i].dir] = s[i - 1].dir
               /\ s[i].dir \notin s[i - 1].left
               /\ t[i - 1] = s[i - 1]
    <3>1. i - 1 \in 1..(i - 1)
      BY <1>1, <1>2, <2>6
    <3> QED
      BY <2>1, <2>2, <2>6, <3>1 DEF Chain
  <2> QED
    BY <2>1, <2>3, <2>4, <2>5, <2>6
<1>5. Await(t) \subseteq Await(s)
  <2> SUFFICES ASSUME NEW m \in Await(t)
               PROVE  m \in Await(s)
    OBVIOUS
  <2>1. m \in Nodes
    BY DEF Await
  <2>2. PICK i \in 1..Len(t) :
                m \in t[i].left \/ \E q \in Above[m] : q \in t[i].left
    BY DEF Await
  <2>3. i \in 1..Len(s) /\ s[i] = t[i]
    BY <1>2, <1>3, <2>2
  <2> QED
    BY <2>1, <2>2, <2>3 DEF Await
<1>6. ASSUME s[Len(s)].left = {}, NEW m \in Await(s)
      PROVE  m \in Await(t)
  <2>1. m \in Nodes
    BY DEF Await
  <2>2. PICK i \in 1..Len(s) :
                m \in s[i].left \/ \E q \in Above[m] : q \in s[i].left
    BY DEF Await
  <2>3. i # Len(s)
    BY <1>6, <2>2
  <2>4. i \in 1..Len(t) /\ s[i] = t[i]
    BY <1>1, <1>2, <2>2, <2>3
  <2> QED
    BY <2>1, <2>2, <2>4 DEF Await
<1> QED
  BY <1>4, <1>5, <1>6

\* The walk begins at the target: it waits for all that is found below it.
LEMMA FirstChain ==
  ASSUME NEW L \in SUBSET (Nodes \ {Root}), \A c \in L : Parent[c] = Root,
         NEW s, s = <<[dir |-> Root, left |-> L, depth |-> 0]>>
  PROVE  /\ Chain(s) /\ Len(s) = 1 /\ s[1].dir = Root /\ s[1].left = L
         /\ Await(s) = {m \in Nodes : m \in L \/ \E q \in Above[m] : q \in L}
<1> DEFINE fr == [dir |-> Root, left |-> L, depth |-> 0]
<1>1. fr \in Frames /\ fr.dir = Root /\ fr.left = L /\ fr.depth = 0
  BY TreeAssumption DEF Frames
<1>2. s = <<fr>>
  OBVIOUS
<1> HIDE DEF fr
<1>3. s \in Seq(Frames) /\ Len(s) = 1 /\ s[1] = fr
  BY <1>1, <1>2
<1>4. {s[j].dir : j \in 1..0} = {}
  OBVIOUS
<1>5. Chain(s)
  <2>1. Len(s) <= MaxDepth + 1
    BY <1>3, TreeAssumption
  <2>2. \A i \in 1..Len(s) : i = 1
    BY <1>3
  <2>3. {s[j].dir : j \in 1..(1 - 1)} = {} /\ 1 - 1 = 0
    BY <1>4
  <2>4. Above[Root] = {} /\ Root \notin Blocked
    BY AboveStep, TreeAssumption
  <2> QED
    BY <1>1, <1>3, <2>1, <2>2, <2>3, <2>4 DEF Chain
<1>6. Await(s) = {m \in Nodes : m \in L \/ \E q \in Above[m] : q \in L}
  BY <1>1, <1>3 DEF Await
<1> QED
  BY <1>1, <1>3, <1>5, <1>6

\* Where no directory is open the walk waits for nothing.
LEMMA NoChain == Chain(<< >>) /\ Await(<< >>) = {}
BY TreeAssumption DEF Chain, Await

-------------------------------------------------------------------------------
(* Diagnostics.                                                              *)

\* What is recorded keeps its bound; what was named still is, and what is new,
\* unless a limit is.
LEMMA RecordTells ==
  ASSUME Recorded, NEW kind \in Kinds, NEW n \in Nodes, Record(kind, n)
  PROVE  /\ Recorded' /\ partial'
         /\ Limited => Limited'
         /\ kind = "resource_limit_reached" => Limited'
         /\ Limited' \/ (Noted(n)' /\ \A m : Noted(m) => Noted(m)')
<1> DEFINE d == Diagnostic(kind, n)
           lim == Diagnostic("resource_limit_reached", n)
           Said == [kind : Kinds, path : Nodes]
<1>1. /\ d \in Said /\ d.kind = kind /\ d.path = n
      /\ lim \in Said /\ lim.kind = "resource_limit_reached"
  BY DEF Diagnostic, Kinds
<1>2. /\ diagnostics \in Seq(Said) /\ Len(diagnostics) \in Nat
      /\ Len(diagnostics) <= MaxDiagnostics /\ MaxDiagnostics \in Nat \ {0}
      /\ diagnostics_capped \in BOOLEAN /\ partial' = TRUE
  BY LenProperties, TreeAssumption DEF Recorded, Record
<1>3. diagnostics_capped =>
         /\ Len(diagnostics) = MaxDiagnostics
         /\ diagnostics[MaxDiagnostics].kind = "resource_limit_reached"
  BY DEF Recorded
<1>4. CASE Len(diagnostics) < MaxDiagnostics
  <2>1. /\ diagnostics' = Append(diagnostics, d)
        /\ diagnostics_capped' = diagnostics_capped
    BY <1>4 DEF Record
  <2> HIDE DEF d, Said
  <2>2. /\ diagnostics' \in Seq(Said)
        /\ Len(diagnostics') = Len(diagnostics) + 1
        /\ \A i \in 1..Len(diagnostics) : diagnostics'[i] = diagnostics[i]
        /\ diagnostics'[Len(diagnostics) + 1] = d
    BY <1>1, <1>2, <2>1, AppendProperties
  <2>3. Len(diagnostics') <= MaxDiagnostics /\ diagnostics_capped = FALSE
    BY <1>2, <1>3, <1>4, <2>2
  <2>4. Recorded'
    BY <1>2, <2>1, <2>2, <2>3 DEF Recorded, Said
  <2>5. /\ 1..Len(diagnostics) \subseteq 1..Len(diagnostics')
        /\ Len(diagnostics) + 1 \in 1..Len(diagnostics')
    BY <1>2, <2>2
  <2>6. Limited => Limited'
    BY <2>2, <2>5 DEF Limited
  <2>7. kind = "resource_limit_reached" => Limited'
    BY <1>1, <2>2, <2>5 DEF Limited
  <2>8. Noted(n)' /\ \A m : Noted(m) => Noted(m)'
    BY <1>1, <2>2, <2>5 DEF Noted
  <2> QED
    BY <1>2, <2>4, <2>6, <2>7, <2>8
<1>5. CASE ~(Len(diagnostics) < MaxDiagnostics) /\ diagnostics_capped
  <2>1. diagnostics_capped' /\ diagnostics' = diagnostics
    BY <1>5 DEF Record
  <2>2. Recorded'
    BY <1>2, <1>3, <1>5, <2>1 DEF Recorded
  <2>3. MaxDiagnostics \in 1..Len(diagnostics)
    BY <1>2, <1>3, <1>5
  <2>4. Limited'
    BY <1>3, <1>5, <2>1, <2>3 DEF Limited
  <2> QED
    BY <1>2, <2>2, <2>4
<1>6. CASE ~(Len(diagnostics) < MaxDiagnostics) /\ ~diagnostics_capped
  <2>1. /\ diagnostics_capped'
        /\ diagnostics' = [diagnostics EXCEPT ![MaxDiagnostics] = lim]
    BY <1>2, <1>6 DEF Record
  <2>2. /\ Len(diagnostics) = MaxDiagnostics
        /\ MaxDiagnostics \in 1..Len(diagnostics)
    BY <1>2, <1>6
  <2> HIDE DEF lim, Said
  <2>3. /\ diagnostics' \in Seq(Said) /\ Len(diagnostics') = MaxDiagnostics
        /\ diagnostics'[MaxDiagnostics] = lim
    BY <1>1, <1>2, <2>1, <2>2, ExceptSeq
  <2>4. Recorded'
    BY <1>1, <1>2, <2>1, <2>3 DEF Recorded, Said
  <2>5. Limited'
    BY <1>1, <2>2, <2>3 DEF Limited
  <2> QED
    BY <1>2, <2>4, <2>5
<1> QED
  BY <1>4, <1>5, <1>6

\* A step that says nothing changes nothing of it.
LEMMA QuietTells ==
  ASSUME Recorded, UNCHANGED verdict
  PROVE  /\ Recorded' /\ partial' = partial /\ Limited' = Limited
         /\ \A m : Noted(m)' = Noted(m)
BY DEF verdict, Recorded, Limited, Noted

-------------------------------------------------------------------------------
(* A tree that is left alone.                                                *)

\* What a search owes depends on the tree alone.
LEMMA SameTree ==
  ASSUME tree' = tree
  PROVE  /\ \A n : Reached(n)' = Reached(n) /\ Gap(n)' = Gap(n)
         /\ Owed' = Owed /\ Cause' = Cause
<1>1. \A n : Reached(n)' = Reached(n)
  BY DEF Reached
<1>2. \A n : Gap(n)' = Gap(n)
  BY <1>1 DEF Gap
<1>3. Owed' = Owed
  BY <1>1 DEF Owed
<1>4. Cause' = Cause
  <2>1. {n \in Nodes \ {Root} : Reached(n)}'
           = {n \in Nodes \ {Root} : Reached(n)}
    BY <1>1
  <2> QED
    BY <1>2, <2>1 DEF Cause
<1> QED
  BY <1>1, <1>2, <1>3, <1>4

\* What is in an open directory is reached, if the open ones still are.
LEMMA UnderReached ==
  ASSUME NEW s, Chain(s), NEW i \in 1..Len(s), NEW n \in Nodes \ {Root},
         Parent[n] = s[i].dir,
         \A j \in 1..Len(s) : tree[s[j].dir] = "dir", tree[n] # "gone"
  PROVE  Reached(n)
<1>1. Len(s) \in Nat /\ Above[s[i].dir] = {s[j].dir : j \in 1..(i - 1)}
  BY FrameType
<1>2. Len(s) <= MaxDepth + 1 /\ MaxDepth \in Nat
  BY TreeAssumption DEF Chain
<1>3. \A p \in Above[n] : \E j \in 1..i : p = s[j].dir
  <2>1. Above[n] = {s[i].dir} \cup Above[s[i].dir]
    BY AboveStep
  <2> QED
    BY <1>1, <2>1
<1>4. ASSUME NEW j \in 1..i
      PROVE  /\ tree[s[j].dir] = "dir" /\ s[j].dir \notin Blocked
             /\ Cardinality(Above[s[j].dir]) <= MaxDepth
  <2>1. j \in 1..Len(s)
    BY <1>1
  <2>2. tree[s[j].dir] = "dir" /\ s[j].dir \notin Blocked
    BY <2>1, FrameType
  <2>3. Cardinality(Above[s[j].dir]) = j - 1
    BY <2>1, DirDepth
  <2> QED
    BY <1>1, <1>2, <2>1, <2>2, <2>3
<1> QED
  BY <1>3, <1>4 DEF Reached

\* Nothing is reached below what is not opened.
LEMMA NotBelow ==
  ASSUME NEW n \in Nodes,
         \/ tree[n] # "dir" \/ n \in Blocked
         \/ ~(Cardinality(Above[n]) <= MaxDepth),
         NEW m \in Nodes, n \in Above[m]
  PROVE  ~Reached(m)
<1>1. m # Root
  BY AboveStep
<1> QED
  BY <1>1 DEF Reached

\* What is reached below a directory is, or is below, one of its entries.
LEMMA BelowEntries ==
  ASSUME NEW d \in Nodes, NEW m \in Nodes, d \in Above[m], Reached(m)
  PROVE  m \in Entries(d) \/ \E q \in Above[m] : q \in Entries(d)
<1>1. m # Root /\ (\/ Parent[m] = d
                   \/ \E c \in Above[m] \ {Root} : Parent[c] = d)
  BY Through
<1>2. tree[m] # "gone" /\ \A p \in Above[m] : tree[p] = "dir"
  BY <1>1 DEF Reached
<1>3. Above[m] \subseteq Nodes
  BY AboveNodes
<1>4. CASE Parent[m] = d
  BY <1>1, <1>2, <1>4 DEF Entries
<1>5. ASSUME NEW c \in Above[m] \ {Root}, Parent[c] = d
      PROVE  c \in Entries(d)
  BY <1>2, <1>3, <1>5 DEF Entries
<1> QED
  BY <1>1, <1>4, <1>5

-------------------------------------------------------------------------------
(* An entry is taken.                                                        *)

\* What is so of the entry that is taken and of what the walk still waits for.
LEMMA Taking ==
  ASSUME Walking, NEW n \in Nodes, TakeEntry(n)
  PROVE  /\ Len(stack) \in Nat /\ Len(stack) \in 1..Len(stack)
         /\ Top \in Frames /\ Top.depth = Len(stack) - 1
         /\ n \in Top.left /\ n # Root /\ Parent[n] = Top.dir
         /\ Top.dir \in Nodes
         /\ Cardinality(Above[n]) = Len(stack)
         /\ \A p \in Above[n] : \E j \in 1..Len(stack) : stack[j].dir = p
         /\ \A j \in 1..Len(stack) : stack[j].dir \in Above[n]
         /\ Removed(stack, n, Left(n)) /\ Chain(Left(n))
         /\ Await(Left(n)) \subseteq Await(stack)
         /\ n \in Await(stack) /\ n \notin Await(Left(n))
         /\ \A m \in Await(stack) \ Await(Left(n)) : m = n \/ n \in Above[m]
         /\ entries_seen' = entries_seen + 1 /\ entries_seen' \in 0..MaxEntries
<1>1. /\ pc = "walk" /\ entries_seen < MaxEntries /\ n \in Top.left
      /\ entries_seen' = entries_seen + 1
  BY DEF TakeEntry
<1>2. Chain(stack) /\ stack # << >> /\ entries_seen \in 0..MaxEntries
  BY <1>1 DEF Walking
<1>3. Len(stack) \in Nat /\ Len(stack) \in 1..Len(stack)
  <2>1. stack \in Seq(Frames)
    BY <1>2 DEF Chain
  <2>2. Len(stack) \in Nat \ {0}
    BY <1>2, <2>1, EmptySeq
  <2> QED
    BY <2>2
<1>4. /\ Top \in Frames /\ Top.dir \in Nodes /\ Top.depth = Len(stack) - 1
      /\ n \in stack[Len(stack)].left
  BY <1>1, <1>2, <1>3, FrameType DEF Top
<1>5. /\ n \in Nodes \ {Root} /\ Parent[n] = stack[Len(stack)].dir
      /\ Cardinality(Above[n]) = Len(stack)
  BY <1>2, <1>3, <1>4, LeftAbove
<1>a. /\ \A p \in Above[n] : \E j \in 1..Len(stack) : stack[j].dir = p
      /\ \A j \in 1..Len(stack) : stack[j].dir \in Above[n]
  <2>1. Above[n] = {stack[j].dir : j \in 1..Len(stack)}
    BY <1>2, <1>3, <1>4, LeftAbove
  <2> QED
    BY <2>1
<1>6. Removed(stack, n, Left(n))
  BY <1>2, <1>3, LeftRemoves DEF Left
<1>7. Chain(Left(n))
  BY <1>2, <1>3, <1>6, TakeChain
<1>8. /\ Await(Left(n)) \subseteq Await(stack)
      /\ n \in Await(stack) /\ n \notin Await(Left(n))
      /\ \A m \in Await(stack) \ Await(Left(n)) : m = n \/ n \in Above[m]
  BY <1>2, <1>3, <1>4, <1>6, TakeAwait
<1>9. entries_seen' \in 0..MaxEntries
  BY <1>1, <1>2, TreeAssumption
<1>10. Parent[n] = Top.dir
  BY <1>5 DEF Top
<1> QED
  BY <1>1, <1>3, <1>4, <1>5, <1>6, <1>7, <1>8, <1>9, <1>a, <1>10

\* Of a tree that is left alone, the walk takes only what it comes to.
LEMMA TakingCalm ==
  ASSUME Walking, Calm, NEW n \in Nodes, TakeEntry(n)
  PROVE  /\ tree[n] # "gone" /\ Reached(n)
         /\ \A i \in 1..Len(stack) : tree[stack[i].dir] = "dir"
         /\ \A i \in 1..Len(Left(n)) :
               /\ tree[Left(n)[i].dir] = "dir"
               /\ \A m \in Left(n)[i].left : tree[m] # "gone"
<1>1. /\ Len(stack) \in Nat /\ Len(stack) \in 1..Len(stack)
      /\ n \in Top.left /\ n # Root /\ Parent[n] = Top.dir
      /\ Removed(stack, n, Left(n))
  BY Taking
<1>2. \A i \in 1..Len(stack) :
         /\ tree[stack[i].dir] = "dir"
         /\ \A m \in stack[i].left : tree[m] # "gone"
  BY DEF Calm
<1>3. tree[n] # "gone"
  BY <1>1, <1>2 DEF Top
<1>4. Reached(n)
  <2>1. Chain(stack) /\ Parent[n] = stack[Len(stack)].dir
    BY <1>1 DEF Walking, Top
  <2>2. n \in Nodes \ {Root}
    BY <1>1
  <2> QED
    BY <1>1, <1>2, <1>3, <2>1, <2>2, UnderReached
<1>5. /\ Len(Left(n)) = Len(stack)
      /\ \A i \in 1..Len(stack) :
            /\ Left(n)[i].dir = stack[i].dir
            /\ Left(n)[i].left \subseteq stack[i].left
  BY <1>1 DEF Removed
<1> QED
  BY <1>2, <1>3, <1>4, <1>5

\* A step that says nothing of n.
LEMMA QuietCarries ==
  ASSUME Recorded, UNCHANGED verdict, NEW n
  PROVE  Recorded' /\ Carried(n)
BY QuietTells DEF Carried

\* A step that names n, or its directory where n is lost.
LEMMA LoudCarries ==
  ASSUME Recorded, tree' = tree, NEW n \in Nodes, NEW p \in Nodes,
         NEW kind \in Kinds, Record(kind, p),
         p = n \/ (tree[n] = "lost" /\ p = Parent[n])
  PROVE  /\ Recorded'
         /\ Limited' \/ Named(n)'
         /\ Gap(n) => Carried(n)
         /\ kind = "resource_limit_reached" => Limited'
<1>1. /\ Recorded' /\ partial'
      /\ Limited => Limited'
      /\ kind = "resource_limit_reached" => Limited'
      /\ Limited' \/ (Noted(p)' /\ \A m : Noted(m) => Noted(m)')
  BY RecordTells
<1>2. Limited' \/ Named(n)'
  <2>1. Noted(p)' => Named(n)'
    BY DEF Named
  <2> QED
    BY <1>1, <2>1
<1> QED
  BY <1>1, <1>2 DEF Carried

\* What was settled still is.
LEMMA SettledStill ==
  ASSUME tree' = tree, Found \subseteq Found', NEW m \in Nodes, Settled(m),
         tree[m] = "lost" => Parent[m] \in Nodes,
         \A k \in Nodes : Noted(k) => Noted(k)'
  PROVE  Settled(m)'
<1>1. Gap(m)' = Gap(m)
  BY SameTree
<1>2. Named(m) => Named(m)'
  BY DEF Named
<1>3. Hits(m)' = Hits(m)
  BY DEF Hits, BadLines
<1> QED
  BY <1>1, <1>2, <1>3 DEF Settled

\* The entries read are the nodes the walk has come to.
LEMMA TakenGrows ==
  ASSUME NEW n \in Nodes, n # Root, Reached(n), n \in Await(stack),
         tree' = tree, n \notin Await(stack'),
         \A m \in Nodes : Reached(m) /\ m # n
                             => (m \in Await(stack') <=> m \in Await(stack))
  PROVE  /\ Taken' = Taken \cup {n}
         /\ IsFiniteSet(Taken) /\ Cardinality(Taken) \in Nat
         /\ Cardinality(Taken') = Cardinality(Taken) + 1
<1>1. \A m : Reached(m)' = Reached(m)
  BY SameTree
<1>2. Taken' = Taken \cup {n}
  <2>1. Taken' = {m \in Nodes \ {Root} : Reached(m) /\ m \notin Await(stack')}
    BY <1>1 DEF Taken
  <2> QED
    BY <2>1 DEF Taken
<1>3. n \notin Taken
  BY DEF Taken
<1>4. IsFiniteSet(Taken)
  <2>1. Taken \subseteq Nodes /\ IsFiniteSet(Nodes)
    BY TreeAssumption DEF Taken
  <2> QED
    BY <2>1, FS_Subset
<1> QED
  BY <1>2, <1>3, <1>4, FS_AddElement, FS_CardinalityType

\* The accounts of a calm search, once an entry has been taken.
LEMMA TakeCalm ==
  ASSUME Walking, Calm, NEW n \in Nodes, TakeEntry(n), Carried(n),
         pc' # "start",
         n \notin Await(stack'),
         \A m \in Nodes : Reached(m) /\ m # n
                             => (m \in Await(stack') <=> m \in Await(stack)),
         \/ pc' = "file" /\ file' = n
         \/ /\ n \in Blocked \/ tree[n] # "file"
            /\ Gap(n) => Limited' \/ Named(n)'
  PROVE  /\ (Found \subseteq Owed)'
         /\ (Limited \/ \A m \in Nodes : Handled(m) => Settled(m))'
         /\ (partial => Cause)'
         /\ (Cause \/ entries_seen = Cardinality(Taken))'
<1>1. tree' = tree /\ matches' = matches /\ pc = "walk"
  BY DEF TakeEntry, disk
<1>2. /\ entries_seen' = entries_seen + 1 /\ n \in Await(stack) /\ n # Root
  BY Taking
<1>3. Reached(n)
  BY TakingCalm
<1>4. /\ \A m : Reached(m)' = Reached(m) /\ Gap(m)' = Gap(m)
      /\ Owed' = Owed /\ Cause' = Cause
  BY <1>1, SameTree
<1>5. Found' = Found
  BY <1>1 DEF Found
<1>6. (Found \subseteq Owed)'
  BY <1>4, <1>5 DEF Calm
<1>7. ASSUME ~Limited', NEW m \in Nodes, Handled(m)'
      PROVE  Settled(m)'
  <2>1. /\ Reached(m) /\ m \notin Await(stack')
        /\ ~(pc' = "file" /\ m = file')
    BY <1>4, <1>7 DEF Handled, Reading
  <2>2. CASE m = n
    BY <1>4, <1>7, <2>1, <2>2, <1>1 DEF Settled
  <2>3. CASE m # n
    <3>1. Handled(m)
      BY <1>1, <2>1, <2>3 DEF Handled, Reading
    <3>2. ~Limited /\ \A k \in Nodes : Noted(k) => Noted(k)'
      BY <1>7 DEF Carried
    <3>3. Settled(m)
      BY <3>1, <3>2 DEF Calm
    <3>4. tree[m] = "lost" => Parent[m] \in Nodes
      <4>1. m = Root => tree[m] = "file"
        BY <2>1 DEF Reached
      <4> QED
        BY <4>1, AboveStep
    <3> QED
      BY <1>1, <1>5, <3>2, <3>3, <3>4, SettledStill
  <2> QED
    BY <2>2, <2>3
<1>8. (partial => Cause)'
  <2>1. partial' => Cause
    BY DEF Calm, Carried, Cause
  <2> QED
    BY <1>4, <2>1
<1>9. (Cause \/ entries_seen = Cardinality(Taken))'
  <2>1. Cardinality(Taken') = Cardinality(Taken) + 1
    BY <1>1, <1>2, <1>3, TakenGrows
  <2>2. Cause \/ entries_seen = Cardinality(Taken)
    BY <1>1 DEF Calm
  <2> QED
    BY <1>2, <1>4, <2>1, <2>2
<1> QED
  BY <1>6, <1>7, <1>8, <1>9

-------------------------------------------------------------------------------
(* The steps of the walk.                                                    *)

\* However the tree changes: an entry is taken and the walk goes on from t.
LEMMA TakeSteady ==
  ASSUME Steady, NEW n \in Nodes, TakeEntry(n), Recorded',
         Chain(stack'), Len(stack') \in Nat \ {0},
         Await(stack') \subseteq Await(stack), n \notin Await(stack'),
         \/ pc' = "walk" /\ UNCHANGED reading
         \/ /\ pc' = "file" /\ file' = n /\ next_line' = 1 /\ n \notin Blocked
            /\ stack'[Len(stack')].dir = Top.dir
  PROVE  Steady'
<1>1. /\ UNCHANGED <<tree, changes, matches>> /\ pc = "walk" /\ ~Reading
  BY DEF TakeEntry, disk, Reading
<1>2. n # Root /\ Parent[n] = Top.dir /\ entries_seen' \in 0..MaxEntries
  BY Taking DEF Steady
<1>3. stack' # << >>
  <2>1. Len(<< >>) = 0
    OBVIOUS
  <2> QED
    BY <2>1
<1>4. Walking'
  BY <1>1, <1>2, <1>3 DEF Steady, Walking
<1>5. AtFile'
  <2>1. CASE pc' = "walk" /\ UNCHANGED reading
    BY <2>1 DEF Steady, AtFile, Reading, reading
  <2>2. CASE /\ pc' = "file" /\ file' = n /\ next_line' = 1 /\ n \notin Blocked
             /\ stack'[Len(stack')].dir = Top.dir
    <3>1. next_line' \in 1..(Len(Lines[n]) + 1)
      <4>1. Lines[n] \in Seq({"hit", "miss", "bad"})
        BY TreeAssumption
      <4>2. Len(Lines[n]) \in Nat
        BY <4>1, LenProperties
      <4> QED
        BY <2>2, <4>2
    <3>2. Top' = stack'[Len(stack')]
      BY DEF Top
    <3>3. \A k \in 1..(next_line' - 1) : FALSE
      BY <2>2
    <3> QED
      BY <1>2, <1>3, <2>2, <3>1, <3>2, <3>3 DEF AtFile, Reading
  <2> QED
    BY <2>1, <2>2
<1>6. Matched'
  <2>1. \A i \in 1..Len(matches) : matches[i].path # n
    <3>1. n \in Await(stack)
      BY Taking DEF Steady
    <3> QED
      BY <3>1 DEF Steady, Matched
  <2>2. /\ matches' = matches /\ matches \in Seq([path : Nodes, line : Nat])
        /\ \A i, j \in 1..Len(matches) : matches[i] = matches[j] => i = j
    BY <1>1 DEF Steady, Matched
  <2>3. ASSUME NEW i \in 1..Len(matches)
        PROVE  /\ matches[i] \in Hits(matches[i].path)
               /\ matches[i].path \notin Await(stack')
               /\ ({matches[i].path} \cup Above[matches[i].path])
                     \cap Blocked = {}
               /\ Reading' => matches[i].path # file'
    BY <2>1 DEF Steady, Matched, Reading
  <2>4. \A p : Hits(p)' = Hits(p)
    BY DEF Hits, BadLines
  <2> QED
    BY <2>2, <2>3, <2>4 DEF Matched
<1> QED
  BY <1>4, <1>5, <1>6 DEF Steady

\* The stack without the entry n is an open path that the walk can go on from.
LEMMA LeftWaits ==
  ASSUME Walking, NEW n \in Nodes, TakeEntry(n)
  PROVE  /\ Chain(Left(n)) /\ Len(Left(n)) = Len(stack)
         /\ Len(Left(n)) \in Nat \ {0} /\ Len(Left(n)) \in 1..Len(Left(n))
         /\ Await(Left(n)) \subseteq Await(stack) /\ n \notin Await(Left(n))
         /\ Left(n)[Len(Left(n))].dir = Top.dir
         /\ Left(n)[Len(Left(n))].left = Top.left \ {n}
         /\ \A j \in 1..Len(stack) : Left(n)[j].dir = stack[j].dir
<1>1. /\ Len(stack) \in Nat /\ Len(stack) \in 1..Len(stack)
      /\ Removed(stack, n, Left(n)) /\ Chain(Left(n))
      /\ Await(Left(n)) \subseteq Await(stack) /\ n \notin Await(Left(n))
  BY Taking
<1>2. /\ Len(Left(n)) = Len(stack)
      /\ \A j \in 1..Len(stack) :
            /\ Left(n)[j].dir = stack[j].dir
            /\ Left(n)[j].left = IF j = Len(stack) THEN stack[j].left \ {n}
                                 ELSE stack[j].left
  BY <1>1 DEF Removed
<1>3. /\ Left(n)[Len(stack)].dir = Top.dir
      /\ Left(n)[Len(stack)].left = Top.left \ {n}
  BY <1>1, <1>2 DEF Top
<1>4. Len(Left(n)) \in Nat \ {0} /\ Len(Left(n)) \in 1..Len(Left(n))
  BY <1>1, <1>2
<1>5. /\ Left(n)[Len(Left(n))].dir = Top.dir
      /\ Left(n)[Len(Left(n))].left = Top.left \ {n}
  BY <1>2, <1>3
<1>6. /\ \A j \in 1..Len(stack) : Left(n)[j].dir = stack[j].dir
      /\ Len(Left(n)) = Len(stack)
  BY <1>2
<1> QED
  BY <1>1, <1>4, <1>5, <1>6

\* The walk waits for what it did, but for the entry, where nothing is reached
\* below that.
LEMMA LeftAwaits ==
  ASSUME Walking, NEW n \in Nodes, TakeEntry(n),
         \/ tree[n] # "dir" \/ n \in Blocked
         \/ ~(Cardinality(Above[n]) <= MaxDepth)
  PROVE  \A m \in Nodes : Reached(m) /\ m # n
                             => (m \in Await(Left(n)) <=> m \in Await(stack))
<1>1. /\ Await(Left(n)) \subseteq Await(stack)
      /\ \A m \in Await(stack) \ Await(Left(n)) : m = n \/ n \in Above[m]
  BY Taking
<1> QED
  BY <1>1, NotBelow

\* An entry is passed over, with a word or without.
LEMMA PassKeeps ==
  ASSUME GrepInv, NEW n \in Nodes, TakeEntry(n), PassOver(n), Recorded',
         changes = 0 /\ Calm =>
            /\ \/ tree[n] # "dir" \/ n \in Blocked
               \/ ~(Cardinality(Above[n]) <= MaxDepth)
            /\ Carried(n)
            /\ n \in Blocked \/ tree[n] # "file"
            /\ Gap(n) => Limited' \/ Named(n)'
  PROVE  GrepInv'
<1>1. Steady /\ Walking /\ (changes = 0 => Calm)
  BY DEF GrepInv, Steady
<1>2. /\ stack' = Left(n) /\ pc' = "walk" /\ UNCHANGED reading
      /\ UNCHANGED <<tree, changes, matches>>
  BY DEF PassOver, TakeEntry, disk
<1>3. /\ Chain(Left(n)) /\ Len(Left(n)) \in Nat \ {0}
      /\ Await(Left(n)) \subseteq Await(stack) /\ n \notin Await(Left(n))
  BY <1>1, LeftWaits
<1>4. Steady'
  BY <1>1, <1>2, <1>3, TakeSteady
<1>5. ASSUME changes = 0, Calm
      PROVE  Calm'
  <2>1. \A m \in Nodes : Reached(m) /\ m # n
                            => (m \in Await(stack') <=> m \in Await(stack))
    BY <1>1, <1>2, <1>5, LeftAwaits
  <2>2. /\ (Found \subseteq Owed)'
        /\ (Limited \/ \A m \in Nodes : Handled(m) => Settled(m))'
        /\ (partial => Cause)'
        /\ (Cause \/ entries_seen = Cardinality(Taken))'
    BY <1>1, <1>2, <1>3, <1>5, <2>1, TakeCalm
  <2>3. \A i \in 1..Len(stack') :
           /\ tree'[stack'[i].dir] = "dir"
           /\ \A m \in stack'[i].left : tree'[m] # "gone"
    BY <1>1, <1>2, <1>5, TakingCalm
  <2> QED
    BY <1>2, <2>2, <2>3 DEF Calm, Reading
<1> QED
  BY <1>1, <1>2, <1>4, <1>5 DEF GrepInv

LEMMA UnreadKeeps ==
  ASSUME GrepInv, NEW n \in Nodes, SkipUnread(n)
  PROVE  GrepInv'
<1>1. /\ TakeEntry(n) /\ PassOver(n) /\ Walking /\ Recorded /\ tree' = tree
      /\ tree[n] \in {"lost", "untyped", "symlink", "gone"}
  BY DEF SkipUnread, GrepInv, Steady, Walking, TakeEntry, disk
<1>2. n # Root /\ Parent[n] = Top.dir /\ Top.dir \in Nodes
  BY <1>1, Taking
<1>3. PICK p \in Nodes, kind \in Kinds :
              /\ Record(kind, p)
              /\ p = n \/ (tree[n] = "lost" /\ p = Parent[n])
  BY <1>1, <1>2 DEF SkipUnread, Kinds
<1>4. /\ Recorded' /\ (Gap(n) => Carried(n))
      /\ Limited' \/ Named(n)'
  BY <1>1, <1>3, LoudCarries
<1>5. ASSUME changes = 0, Calm
      PROVE  Gap(n)
  <2>1. tree[n] # "gone" /\ Reached(n)
    BY <1>1, <1>5, TakingCalm
  <2> QED
    BY <1>1, <2>1 DEF Gap
<1> QED
  BY <1>1, <1>4, <1>5, PassKeeps

\* What the policy denies is no gap.
LEMMA DeniedKeeps ==
  ASSUME GrepInv, NEW n \in Nodes, SkipDenied(n)
  PROVE  GrepInv'
<1>1. /\ TakeEntry(n) /\ PassOver(n) /\ Walking /\ Recorded
      /\ n \in Blocked /\ UNCHANGED verdict
      /\ tree[n] \notin {"lost", "untyped", "symlink", "gone"}
  BY DEF SkipDenied, GrepInv, Steady, Walking, Denied, FileShapes
<1>2. ~Gap(n)
  BY <1>1 DEF Gap
<1>3. Recorded' /\ Carried(n)
  BY <1>1, QuietCarries
<1> QED
  BY <1>1, <1>2, <1>3, PassKeeps

\* What is neither a file nor a directory is named.
LEMMA UnsupportedKeeps ==
  ASSUME GrepInv, NEW n \in Nodes, SkipUnsupported(n)
  PROVE  GrepInv'
<1>1. /\ TakeEntry(n) /\ PassOver(n) /\ Walking /\ Recorded /\ tree' = tree
      /\ tree[n] = "other" /\ n \notin Blocked
      /\ Record("unsupported_file_type", n)
  BY DEF SkipUnsupported, GrepInv, Steady, Walking, Denied, TakeEntry, disk
<1>2. /\ Recorded' /\ (Gap(n) => Carried(n))
      /\ Limited' \/ Named(n)'
  BY <1>1, LoudCarries DEF Kinds
<1>3. ASSUME changes = 0, Calm
      PROVE  Gap(n)
  <2>1. Reached(n)
    BY <1>1, <1>3, TakingCalm
  <2> QED
    BY <1>1, <2>1 DEF Gap
<1> QED
  BY <1>1, <1>2, <1>3, PassKeeps

\* The file that is taken is the one at hand.
LEMMA EnterFileKeeps ==
  ASSUME GrepInv, NEW n \in Nodes, EnterFile(n)
  PROVE  GrepInv'
<1>1. /\ TakeEntry(n) /\ Walking /\ Recorded /\ Steady /\ (changes = 0 => Calm)
      /\ stack' = Left(n) /\ pc' = "file" /\ file' = n /\ next_line' = 1
      /\ UNCHANGED verdict /\ UNCHANGED <<tree, changes, matches>>
      /\ tree[n] \in FileShapes /\ n \notin Blocked
  BY DEF EnterFile, GrepInv, Steady, Walking, Denied, TakeEntry, disk
<1>2. Recorded' /\ Carried(n)
  BY <1>1, QuietCarries
<1>3. /\ Chain(Left(n)) /\ Len(Left(n)) \in Nat \ {0}
      /\ Await(Left(n)) \subseteq Await(stack) /\ n \notin Await(Left(n))
      /\ Left(n)[Len(Left(n))].dir = Top.dir
  BY <1>1, LeftWaits
<1>4. Steady'
  BY <1>1, <1>2, <1>3, TakeSteady
<1>5. ASSUME changes = 0, Calm
      PROVE  Calm'
  <2>1. tree[n] # "dir"
    BY <1>1 DEF FileShapes
  <2>2. \A m \in Nodes : Reached(m) /\ m # n
                            => (m \in Await(stack') <=> m \in Await(stack))
    BY <1>1, <2>1, LeftAwaits
  <2>3. /\ (Found \subseteq Owed)'
        /\ (Limited \/ \A m \in Nodes : Handled(m) => Settled(m))'
        /\ (partial => Cause)'
        /\ (Cause \/ entries_seen = Cardinality(Taken))'
    BY <1>1, <1>2, <1>3, <1>5, <2>2, TakeCalm
  <2>4. \A i \in 1..Len(stack') :
           /\ tree'[stack'[i].dir] = "dir"
           /\ \A m \in stack'[i].left : tree'[m] # "gone"
    BY <1>1, <1>5, TakingCalm
  <2>5. {m \in Hits(n) : m.line < 1} = {}
    BY DEF Hits
  <2>6. ({m \in Hits(file) : m.line < next_line} \subseteq Found)'
    <3>1. {m \in Hits(file) : m.line < next_line}'
             = {m \in Hits(n) : m.line < 1}
      BY <1>1 DEF Hits, BadLines
    <3> QED
      BY <2>5, <3>1
  <2>7. n # Root
    BY <1>1, Taking
  <2> QED
    BY <1>1, <2>3, <2>4, <2>6, <2>7 DEF Calm, Reading
<1> QED
  BY <1>1, <1>4, <1>5 DEF GrepInv

\* A directory that is opened is read next; what is below it is still to come.
LEMMA DescendKeeps ==
  ASSUME GrepInv, NEW n \in Nodes, TakeEntry(n),
         tree[n] = "dir", n \notin Blocked,
         Top.depth < MaxDepth,
         stack' = Append(Left(n), Frame(n, Top.depth + 1)),
         UNCHANGED <<pc, reading, verdict>>
  PROVE  GrepInv'
<1>1. /\ Walking /\ Recorded /\ Steady /\ (changes = 0 => Calm)
      /\ pc' = "walk" /\ UNCHANGED <<tree, changes, matches>>
      /\ UNCHANGED verdict
  BY DEF GrepInv, Steady, Walking, TakeEntry, disk
<1>2. Recorded' /\ Carried(n)
  BY <1>1, QuietCarries
<1>3. /\ Len(stack) \in Nat /\ Len(stack) \in 1..Len(stack)
      /\ Top.depth = Len(stack) - 1 /\ n \in Top.left /\ n # Root
      /\ Parent[n] = Top.dir /\ Cardinality(Above[n]) = Len(stack)
      /\ \A p \in Above[n] : \E j \in 1..Len(stack) : stack[j].dir = p
      /\ \A j \in 1..Len(stack) : stack[j].dir \in Above[n]
      /\ n \in Await(stack)
      /\ \A m \in Await(stack) \ Await(Left(n)) : m = n \/ n \in Above[m]
  BY <1>1, Taking
<1>4. /\ Chain(Left(n)) /\ Len(Left(n)) = Len(stack)
      /\ Len(Left(n)) \in Nat \ {0} /\ Len(Left(n)) \in 1..Len(Left(n))
      /\ Await(Left(n)) \subseteq Await(stack) /\ n \notin Await(Left(n))
      /\ Left(n)[Len(Left(n))].dir = Top.dir
      /\ Left(n)[Len(Left(n))].left = Top.left \ {n}
      /\ \A j \in 1..Len(stack) : Left(n)[j].dir = stack[j].dir
  BY <1>1, LeftWaits
<1>5. Len(stack) <= MaxDepth /\ Top.depth + 1 = Len(stack) /\ MaxDepth \in Nat
  BY <1>3, TreeAssumption
<1> DEFINE t == Left(n)
           L == Entries(n)
<1>6. L \in SUBSET (Nodes \ {Root}) /\ \A c \in L : Parent[c] = n
  BY DEF Entries
<1>7. stack' = Append(t, [dir |-> n, left |-> L, depth |-> Len(t)])
  BY <1>4, <1>5 DEF Frame
<1>8. Opened(t, n, L, Append(t, [dir |-> n, left |-> L, depth |-> Len(t)]))
  <2> HIDE DEF t, L
  <2> QED
    BY <1>4, <1>6, AppendOpens DEF t
<1>9. Opened(t, n, L, stack')
  BY <1>7, <1>8
<1>10. Above[n] = {t[j].dir : j \in 1..Len(t)}
  <2> DEFINE A == Above[n]
  <2>1. Len(t) = Len(stack) /\ \A j \in 1..Len(stack) : t[j].dir = stack[j].dir
    BY <1>4
  <2>2. /\ \A p \in A : \E j \in 1..Len(stack) : stack[j].dir = p
        /\ \A j \in 1..Len(stack) : stack[j].dir \in A
    BY <1>3
  <2> HIDE DEF t, A
  <2>3. \A j \in 1..Len(t) : t[j].dir \in A
    BY <2>1, <2>2
  <2>4. \A p \in A : \E j \in 1..Len(t) : t[j].dir = p
    BY <2>1, <2>2
  <2>5. A = {t[j].dir : j \in 1..Len(t)}
    BY <2>3, <2>4, DirSet
  <2> QED
    BY <2>5 DEF A
<1>11. /\ Chain(t) /\ Len(t) \in 1..Len(t) /\ Len(t) <= MaxDepth
       /\ Parent[n] = t[Len(t)].dir /\ n \notin t[Len(t)].left
       /\ n \in Nodes \ {Root} /\ n \notin Await(t)
  BY <1>3, <1>4, <1>5
<1>12. Chain(stack')
  <2> HIDE DEF t, L
  <2> QED
    BY <1>6, <1>9, <1>10, <1>11, PushChain
<1>13. /\ Await(stack') = Await(t) \cup
             {m \in Nodes : m \in L \/ \E q \in Above[m] : q \in L}
       /\ \A m \in Await(stack') \ Await(t) : n \in Above[m]
       /\ n \notin Await(stack')
  <2> HIDE DEF t, L
  <2> QED
    BY <1>6, <1>9, <1>11, PushAwait
<1>14. \A m \in Nodes : n \in Above[m] => m \in Await(stack)
  BY <1>3 DEF Await, Top
<1>15. Await(stack') \subseteq Await(stack)
  BY <1>4, <1>13, <1>14 DEF Await
<1>16. Len(stack') \in Nat \ {0}
  BY <1>4, <1>9 DEF Opened
<1>17. Steady'
  BY <1>1, <1>2, <1>12, <1>13, <1>15, <1>16, TakeSteady
<1>18. ASSUME changes = 0, Calm
       PROVE  Calm'
  <2>1. \A m \in Nodes : Reached(m) /\ m # n
                            => (m \in Await(stack') <=> m \in Await(stack))
    <3> SUFFICES ASSUME NEW m \in Await(stack), m \in Nodes, Reached(m), m # n
                 PROVE  m \in Await(stack')
      BY <1>15
    <3>1. CASE m \in Await(Left(n))
      BY <1>13, <3>1
    <3>2. CASE n \in Above[m]
      <4>1. m \in Entries(n) \/ \E q \in Above[m] : q \in Entries(n)
        BY <3>2, BelowEntries
      <4> QED
        BY <1>13, <4>1
    <3> QED
      BY <1>3, <3>1, <3>2
  <2>2. ~Gap(n)
    BY <1>3, <1>5 DEF Gap
  <2>3. /\ (Found \subseteq Owed)'
        /\ (Limited \/ \A m \in Nodes : Handled(m) => Settled(m))'
        /\ (partial => Cause)'
        /\ (Cause \/ entries_seen = Cardinality(Taken))'
    BY <1>1, <1>2, <1>13, <1>18, <2>1, <2>2, TakeCalm
  <2>4. \A i \in 1..Len(stack') :
           /\ tree'[stack'[i].dir] = "dir"
           /\ \A m \in stack'[i].left : tree'[m] # "gone"
    <3>1. \A i \in 1..Len(t) : /\ tree[t[i].dir] = "dir"
                               /\ \A m \in t[i].left : tree[m] # "gone"
      BY <1>1, <1>18, TakingCalm
    <3>2. \A m \in L : tree[m] # "gone"
      BY DEF Entries
    <3>3. /\ Len(stack') = Len(t) + 1
          /\ \A i \in 1..Len(t) : stack'[i] = t[i]
          /\ stack'[Len(t) + 1].dir = n /\ stack'[Len(t) + 1].left = L
      BY <1>9 DEF Opened
    <3> HIDE DEF t, L
    <3>4. \A i \in 1..(Len(t) + 1) : i \in 1..Len(t) \/ i = Len(t) + 1
      BY <1>11
    <3> QED
      BY <1>1, <3>1, <3>2, <3>3, <3>4
  <2> QED
    BY <1>1, <2>3, <2>4 DEF Calm, Reading
<1> QED
  BY <1>1, <1>17, <1>18 DEF GrepInv

\* A directory is opened, or it is named.
LEMMA EnterDirectoryKeeps ==
  ASSUME GrepInv, NEW n \in Nodes, EnterDirectory(n)
  PROVE  GrepInv'
<1>1. /\ TakeEntry(n) /\ Walking /\ Recorded /\ tree' = tree
      /\ tree[n] \in {"dir", "dir_closed"} /\ n \notin Blocked
  BY DEF EnterDirectory, GrepInv, Steady, Walking, Denied, TakeEntry, disk
<1>2. /\ Top.depth = Len(stack) - 1 /\ Len(stack) \in Nat
      /\ Cardinality(Above[n]) = Len(stack) /\ MaxDepth \in Nat
  BY <1>1, Taking, TreeAssumption
<1>3. ASSUME PassOver(n), NEW kind \in Kinds, Record(kind, n),
             tree[n] = "dir_closed" \/ Top.depth >= MaxDepth
      PROVE  GrepInv'
  <2>1. /\ Recorded' /\ (Gap(n) => Carried(n))
        /\ Limited' \/ Named(n)'
    BY <1>1, <1>3, LoudCarries
  <2>2. tree[n] # "dir" \/ ~(Cardinality(Above[n]) <= MaxDepth)
    BY <1>2, <1>3
  <2>3. ASSUME changes = 0, Calm
        PROVE  Gap(n)
    <3>1. Reached(n)
      BY <1>1, <2>3, TakingCalm
    <3>2. Cardinality(Above[n]) > MaxDepth \/ tree[n] = "dir_closed"
      BY <1>2, <1>3
    <3> QED
      BY <1>1, <3>1, <3>2 DEF Gap
  <2> QED
    BY <1>1, <1>3, <2>1, <2>2, <2>3, PassKeeps
<1>4. CASE Top.depth >= MaxDepth
  BY <1>3, <1>4 DEF EnterDirectory, Kinds
<1>5. CASE ~(Top.depth >= MaxDepth) /\ tree[n] = "dir_closed"
  BY <1>3, <1>5 DEF EnterDirectory, Kinds
<1>6. CASE ~(Top.depth >= MaxDepth) /\ tree[n] # "dir_closed"
  <2>1. /\ stack' = Append(Left(n), Frame(n, Top.depth + 1))
        /\ UNCHANGED <<pc, reading, verdict>>
    BY <1>6 DEF EnterDirectory
  <2>2. tree[n] = "dir" /\ Top.depth < MaxDepth
    BY <1>1, <1>2, <1>6
  <2> QED
    BY <1>1, <2>1, <2>2, DescendKeeps
<1> QED
  BY <1>4, <1>5, <1>6

\* However the tree changes: the innermost directory is closed.
LEMMA PopSteady ==
  ASSUME Steady, pc = "walk", PopFrame, Recorded',
         UNCHANGED <<disk, entries_seen, reading, matches>>
  PROVE  /\ Steady' /\ pc' \in {"walk", "done"}
         /\ Await(stack') \subseteq Await(stack)
         /\ Top.left = {} => Await(stack') = Await(stack)
         /\ Len(stack) \in 1..Len(stack) /\ Shut(stack, stack')
<1>1. /\ Chain(stack) /\ stack # << >> /\ stack' = Front(stack)
      /\ pc' = IF Len(stack) = 1 THEN "done" ELSE "walk"
  BY DEF Steady, Walking, PopFrame
<1>2. Len(stack) \in Nat /\ Len(stack) \in 1..Len(stack)
  <2>1. stack \in Seq(Frames)
    BY <1>1 DEF Chain
  <2>2. Len(stack) \in Nat \ {0}
    BY <1>1, <2>1, EmptySeq
  <2> QED
    BY <2>2
<1>3. Shut(stack, stack')
  BY <1>1, <1>2, FrontShuts
<1>4. /\ Chain(stack') /\ Await(stack') \subseteq Await(stack)
      /\ stack[Len(stack)].left = {} => Await(stack') = Await(stack)
  BY <1>1, <1>2, <1>3, PopChain
<1>5. Len(stack') = Len(stack) - 1 /\ stack' \in Seq(Frames)
  BY <1>3 DEF Shut
<1>6. /\ pc' = "walk" => stack' # << >>
      /\ pc' = "done" => stack' = << >>
  <2>1. stack' # << >> => Len(stack') # 0
    BY <1>5, EmptySeq
  <2>2. Len(<< >>) = 0
    OBVIOUS
  <2> QED
    BY <1>1, <1>2, <1>5, <2>1, <2>2
<1>7. pc' \in {"walk", "done"} /\ ~Reading'
  BY <1>1 DEF Reading
<1>8. UNCHANGED <<tree, changes, entries_seen, file, next_line, matches>>
  BY DEF disk, reading
<1>9. Walking'
  BY <1>4, <1>6, <1>7, <1>8 DEF Steady, Walking
<1>10. AtFile'
  BY <1>7, <1>8 DEF Steady, AtFile
<1>11. Matched'
  <2>1. \A p : Hits(p)' = Hits(p)
    BY DEF Hits, BadLines
  <2> QED
    BY <1>4, <1>7, <1>8, <2>1 DEF Steady, Matched
<1> QED
  BY <1>2, <1>3, <1>4, <1>7, <1>9, <1>10, <1>11 DEF Steady, Top

\* The directories that stay open are what they were.
LEMMA PopCalm ==
  ASSUME Steady, Calm, Shut(stack, stack'), Len(stack) \in 1..Len(stack),
         tree' = tree
  PROVE  \A i \in 1..Len(stack') :
            /\ tree'[stack'[i].dir] = "dir"
            /\ \A n \in stack'[i].left : tree'[n] # "gone"
<1>1. /\ Len(stack') = Len(stack) - 1 /\ Len(stack) \in Nat
      /\ \A i \in 1..Len(stack') : stack'[i] = stack[i]
  BY LenProperties DEF Shut, Steady, Walking, Chain
<1>2. 1..Len(stack') \subseteq 1..Len(stack)
  BY <1>1
<1> QED
  BY <1>1, <1>2 DEF Calm

\* A directory of which nothing is left is waited for no longer.
LEMMA EndOfDirectoryKeeps ==
  ASSUME GrepInv, EndOfDirectory
  PROVE  GrepInv'
<1>1. /\ Steady /\ (changes = 0 => Calm) /\ Recorded
      /\ pc = "walk" /\ Top.left = {} /\ PopFrame
      /\ UNCHANGED <<disk, entries_seen, reading, matches>>
      /\ UNCHANGED verdict /\ UNCHANGED <<tree, changes, file>>
  BY DEF GrepInv, Steady, Walking, EndOfDirectory, disk, reading
<1>2. /\ Recorded' /\ partial' = partial /\ Limited' = Limited
      /\ \A m : Noted(m)' = Noted(m)
  BY <1>1, QuietTells
<1>3. /\ Steady' /\ pc' \in {"walk", "done"} /\ Await(stack') = Await(stack)
      /\ Len(stack) \in 1..Len(stack) /\ Shut(stack, stack')
  BY <1>1, <1>2, PopSteady
<1>4. ASSUME changes = 0, Calm
      PROVE  Calm'
  <2>1. \A i \in 1..Len(stack') :
           /\ tree'[stack'[i].dir] = "dir"
           /\ \A n \in stack'[i].left : tree'[n] # "gone"
    BY <1>1, <1>3, <1>4, PopCalm
  <2>2. /\ \A m : Reached(m)' = Reached(m) /\ Gap(m)' = Gap(m)
        /\ Owed' = Owed /\ Cause' = Cause
    BY <1>1, SameTree
  <2>3. Found' = Found /\ Taken' = Taken
    BY <1>1, <1>3, <2>2 DEF Found, Taken
  <2>4. \A m : Handled(m)' => Handled(m)
    BY <1>1, <1>3, <2>2 DEF Handled, Reading
  <2>5. \A m : Settled(m) => Settled(m)'
    BY <1>1, <1>2, <2>2, <2>3 DEF Settled, Named, Hits, BadLines
  <2>6. (Limited \/ \A m \in Nodes : Handled(m) => Settled(m))'
    BY <1>2, <1>4, <2>4, <2>5 DEF Calm
  <2>7. (partial => Cause)' /\ (Found \subseteq Owed)'
    BY <1>2, <1>4, <2>2, <2>3 DEF Calm
  <2>8. (Cause \/ entries_seen = Cardinality(Taken))'
    BY <1>1, <1>4, <2>2, <2>3 DEF Calm
  <2> QED
    BY <1>3, <2>1, <2>6, <2>7, <2>8 DEF Calm, Reading
<1> QED
  BY <1>1, <1>3, <1>4 DEF GrepInv

\* The walk gives up an entry it has reached: there are more than it reads.
LEMMA TooMany ==
  ASSUME Walking, Calm, pc = "walk", entries_seen >= MaxEntries, Top.left # {}
  PROVE  Cause
<1>1. Chain(stack) /\ stack # << >> /\ entries_seen \in 0..MaxEntries
  BY DEF Walking
<1>2. Len(stack) \in Nat /\ Len(stack) \in 1..Len(stack)
  <2>1. stack \in Seq(Frames)
    BY <1>1 DEF Chain
  <2>2. Len(stack) \in Nat \ {0}
    BY <1>1, <2>1, EmptySeq
  <2> QED
    BY <2>2
<1>3. PICK n \in stack[Len(stack)].left : TRUE
  BY DEF Top
<1>4. n \in Nodes \ {Root} /\ Parent[n] = stack[Len(stack)].dir
  BY <1>1, <1>2, <1>3, LeftAbove
<1>5. /\ \A j \in 1..Len(stack) : tree[stack[j].dir] = "dir"
      /\ tree[n] # "gone"
  BY <1>2, <1>3 DEF Calm
<1>6. Reached(n)
  BY <1>1, <1>2, <1>4, <1>5, UnderReached
<1>7. n \in Await(stack)
  BY <1>2, <1>3, <1>4 DEF Await
<1> SUFFICES ASSUME ~Cause
             PROVE  Cause
  OBVIOUS
<1>8. entries_seen = Cardinality(Taken)
  BY DEF Calm
<1> DEFINE All == {m \in Nodes \ {Root} : Reached(m)}
<1>9. IsFiniteSet(All)
  <2>1. All \subseteq Nodes /\ IsFiniteSet(Nodes)
    BY TreeAssumption
  <2> QED
    BY <2>1, FS_Subset
<1>10. Taken \subseteq All /\ n \in All /\ n \notin Taken
  BY <1>4, <1>6, <1>7 DEF Taken
<1>11. Cardinality(Taken) < Cardinality(All)
  <2> HIDE DEF All
  <2>1. Taken # All
    BY <1>10
  <2>2. /\ IsFiniteSet(Taken) /\ Cardinality(Taken) <= Cardinality(All)
        /\ Cardinality(Taken) = Cardinality(All) => Taken = All
    BY <1>9, <1>10, FS_Subset
  <2>3. Cardinality(Taken) \in Nat /\ Cardinality(All) \in Nat
    BY <1>9, <2>2, FS_CardinalityType
  <2> QED
    BY <2>1, <2>2, <2>3
<1>12. Cardinality(All) \in Nat /\ MaxEntries \in Nat
  BY <1>9, FS_CardinalityType, TreeAssumption
<1>13. Cardinality(All) > MaxEntries
  BY <1>1, <1>8, <1>11, <1>12
<1> QED
  BY <1>13 DEF Cause

\* What is given up at the limit is answered for by the limit.
LEMMA EntryLimitKeeps ==
  ASSUME GrepInv, EntryLimit
  PROVE  GrepInv'
<1>1. /\ Steady /\ (changes = 0 => Calm) /\ Walking /\ Recorded
      /\ pc = "walk" /\ entries_seen >= MaxEntries /\ Top.left # {} /\ PopFrame
      /\ Record("resource_limit_reached", Top.dir)
      /\ UNCHANGED <<disk, entries_seen, reading, matches>>
      /\ UNCHANGED <<tree, changes, file>>
  BY DEF GrepInv, Steady, Walking, EntryLimit, disk, reading
<1>2. Top.dir \in Nodes
  <2>1. Chain(stack) /\ stack # << >> /\ stack \in Seq(Frames)
    BY <1>1 DEF Walking, Chain
  <2>2. Len(stack) \in 1..Len(stack)
    <3>1. Len(stack) \in Nat \ {0}
      BY <2>1, EmptySeq
    <3> QED
      BY <3>1
  <2> QED
    BY <2>1, <2>2, FrameType DEF Top
<1>3. Recorded' /\ Limited'
  BY <1>1, <1>2, RecordTells DEF Kinds
<1>4. /\ Steady' /\ pc' \in {"walk", "done"}
      /\ Len(stack) \in 1..Len(stack) /\ Shut(stack, stack')
  BY <1>1, <1>3, PopSteady
<1>5. ASSUME changes = 0, Calm
      PROVE  Calm'
  <2>1. \A i \in 1..Len(stack') :
           /\ tree'[stack'[i].dir] = "dir"
           /\ \A n \in stack'[i].left : tree'[n] # "gone"
    BY <1>1, <1>4, <1>5, PopCalm
  <2>2. Owed' = Owed /\ Cause' = Cause
    BY <1>1, SameTree
  <2>3. Cause
    BY <1>1, <1>5, TooMany
  <2>4. (Found \subseteq Owed)'
    <3>1. Found' = Found
      BY <1>1 DEF Found
    <3> QED
      BY <1>5, <2>2, <3>1 DEF Calm
  <2> QED
    BY <1>3, <1>4, <2>1, <2>2, <2>3, <2>4 DEF Calm, Reading
<1> QED
  BY <1>1, <1>4, <1>5 DEF GrepInv

\* The target is opened: nothing is handled yet, and all that is reached is
\* waited for.
LEMMA ScanRootKeeps ==
  ASSUME GrepInv, ScanRoot
  PROVE  GrepInv'
<1>1. /\ Steady /\ (changes = 0 => Calm) /\ Walking /\ Recorded
      /\ pc = "start" /\ stack = << >> /\ matches = << >>
      /\ entries_seen \in 0..MaxEntries
      /\ UNCHANGED verdict
      /\ UNCHANGED <<tree, changes, file, next_line, entries_seen, matches>>
  BY DEF GrepInv, Steady, Walking, ScanRoot, disk, reading
<1>2. /\ Recorded' /\ partial' = partial
  BY <1>1, QuietTells
<1>3. matches' = << >> /\ Found' = {}
  BY <1>1 DEF Found
<1>4. ASSUME pc' \in {"walk", "failed"}
      PROVE  AtFile' /\ Matched'
  <2>1. AtFile'
    BY <1>1, <1>4 DEF Steady, AtFile, Reading
  <2>2. /\ matches' \in Seq([path : Nodes, line : Nat])
        /\ \A i \in 1..Len(matches') : FALSE
    BY <1>3
  <2> QED
    BY <2>1, <2>2 DEF Matched
<1>5. CASE tree[Root] # "dir"
  <2>1. pc' = "failed" /\ stack' = stack
    BY <1>5 DEF ScanRoot
  <2>2. Walking'
    BY <1>1, <1>2, <2>1 DEF Walking
  <2>3. changes # 0
    BY <1>1, <1>5 DEF Calm
  <2> QED
    BY <1>1, <1>4, <2>1, <2>2, <2>3 DEF GrepInv, Steady
<1>6. CASE tree[Root] = "dir"
  <2> DEFINE L == Entries(Root)
  <2>1. pc' = "walk" /\ stack' = <<[dir |-> Root, left |-> L, depth |-> 0]>>
    BY <1>6 DEF ScanRoot, Frame
  <2>2. L \in SUBSET (Nodes \ {Root}) /\ \A c \in L : Parent[c] = Root
    BY DEF Entries
  <2>3. \A c \in L : tree[c] # "gone"
    BY DEF Entries
  <2> HIDE DEF L
  <2>4. /\ Chain(stack') /\ Len(stack') = 1 /\ stack'[1].dir = Root
        /\ stack'[1].left = L
        /\ Await(stack') = {m \in Nodes :
                              m \in L \/ \E q \in Above[m] : q \in L}
    BY <2>1, <2>2, FirstChain
  <2>5. stack' # << >>
    BY <2>1
  <2>6. Walking'
    BY <1>1, <1>2, <1>3, <2>1, <2>4, <2>5 DEF Walking
  <2>7. ASSUME changes = 0, Calm
        PROVE  Calm'
    <3>1. /\ \A m : Reached(m)' = Reached(m)
          /\ Owed' = Owed /\ Cause' = Cause
      BY <1>1, SameTree
    <3>2. \A m \in Nodes : Reached(m) => m \in Await(stack') /\ m # Root
      <4> SUFFICES ASSUME NEW m \in Nodes, Reached(m)
                   PROVE  m \in Await(stack') /\ m # Root
        OBVIOUS
      <4>1. m # Root
        BY <1>6 DEF Reached
      <4>2. Root \in Above[m]
        BY <4>1, AboveNodes
      <4>3. m \in Entries(Root) \/ \E q \in Above[m] : q \in Entries(Root)
        BY <4>2, BelowEntries, TreeAssumption
      <4> QED
        BY <2>4, <4>1, <4>3 DEF L
    <3>3. \A m \in Nodes : ~Handled(m)'
      BY <3>1, <3>2 DEF Handled
    <3>4. Taken' = {}
      BY <3>1, <3>2 DEF Taken
    <3>5. entries_seen' = Cardinality(Taken')
      <4>1. Cardinality({}) = 0
        BY FS_EmptySet
      <4>2. entries_seen = 0
        BY <1>1, <2>7 DEF Calm
      <4> QED
        BY <1>1, <3>4, <4>1, <4>2
    <3>6. \A i \in 1..Len(stack') :
             /\ tree'[stack'[i].dir] = "dir"
             /\ \A n \in stack'[i].left : tree'[n] # "gone"
      <4>1. \A i \in 1..Len(stack') : i = 1
        BY <2>4
      <4> QED
        BY <1>1, <1>6, <2>3, <2>4, <4>1
    <3>7. (partial => Cause)'
      BY <1>2, <2>7, <3>1 DEF Calm
    <3> QED
      BY <1>3, <2>1, <3>3, <3>5, <3>6, <3>7 DEF Calm, Reading
  <2> QED
    BY <1>1, <1>4, <2>1, <2>6, <2>7 DEF GrepInv, Steady
<1> QED
  BY <1>5, <1>6

-------------------------------------------------------------------------------
(* The steps of a file.                                                      *)

\* The file at hand is reached.
LEMMA FileReached ==
  ASSUME Steady, Calm, Reading
  PROVE  Reached(file) /\ tree[file] # "gone"
<1>1. /\ file \in Nodes /\ tree[file] \in FileShapes
      /\ file = Root => tree[file] = "file"
      /\ file # Root => stack # << >> /\ Parent[file] = Top.dir
  BY DEF Steady, AtFile, Calm
<1>2. tree[file] # "gone"
  BY <1>1 DEF FileShapes
<1>3. CASE file = Root
  BY <1>1, <1>2, <1>3 DEF Reached
<1>4. CASE file # Root
  <2>1. Chain(stack) /\ stack \in Seq(Frames) /\ stack # << >>
    BY <1>1, <1>4 DEF Steady, Walking, Chain
  <2>2. Len(stack) \in Nat /\ Len(stack) \in 1..Len(stack)
    <3>1. Len(stack) \in Nat \ {0}
      BY <2>1, EmptySeq
    <3> QED
      BY <3>1
  <2>3. \A j \in 1..Len(stack) : tree[stack[j].dir] = "dir"
    BY DEF Calm
  <2>4. file \in Nodes \ {Root} /\ Parent[file] = stack[Len(stack)].dir
    BY <1>1, <1>4 DEF Top
  <2> QED
    BY <1>2, <2>1, <2>2, <2>3, <2>4, UnderReached
<1> QED
  BY <1>3, <1>4

\* The walk goes on once the file is closed.
LEMMA CloseSteady ==
  ASSUME Steady, Reading, CloseFile, Recorded',
         UNCHANGED <<disk, walk, file, next_line, matches>>
  PROVE  Steady' /\ pc' \in {"walk", "done"}
<1>1. pc' \in {"walk", "done"} /\ ~Reading'
      /\ (pc' = "walk" => stack # << >>) /\ (pc' = "done" => stack = << >>)
  BY DEF CloseFile, Reading
<1>2. UNCHANGED <<tree, changes, stack, entries_seen, file, next_line, matches>>
  BY DEF disk, walk
<1>3. Walking'
  BY <1>1, <1>2 DEF Steady, Walking
<1>4. AtFile'
  BY <1>1, <1>2 DEF Steady, AtFile
<1>5. Matched'
  <2>1. \A p : Hits(p)' = Hits(p)
    BY DEF Hits, BadLines
  <2> QED
    BY <1>1, <1>2, <2>1 DEF Steady, Matched
<1> QED
  BY <1>1, <1>3, <1>4, <1>5 DEF Steady

\* Then the file is settled, like all that was handled before.
LEMMA CloseCalm ==
  ASSUME Steady, Calm, Reading, pc' \in {"walk", "done"},
         UNCHANGED <<disk, walk, file, matches>>,
         Carried(file), Gap(file) => Limited' \/ Named(file)',
         tree[file] = "file" => Hits(file) \subseteq Found
  PROVE  Calm'
<1>1. UNCHANGED <<tree, changes, stack, entries_seen, file, matches>>
  BY DEF disk, walk
<1>2. /\ \A m : Reached(m)' = Reached(m) /\ Gap(m)' = Gap(m)
      /\ Owed' = Owed /\ Cause' = Cause
  BY <1>1, SameTree
<1>3. Found' = Found /\ Taken' = Taken
  BY <1>1, <1>2 DEF Found, Taken
<1>4. pc # "start" /\ file \in Nodes
  BY DEF Reading, Steady, AtFile
<1>5. ASSUME ~Limited', NEW m \in Nodes, Handled(m)'
      PROVE  Settled(m)'
  <2>1. Reached(m) /\ m \notin Await(stack)
    BY <1>1, <1>2, <1>5 DEF Handled
  <2>2. CASE m = file
    <3>1. Hits(m)' = Hits(m)
      BY DEF Hits, BadLines
    <3> QED
      BY <1>1, <1>2, <1>3, <1>5, <2>2, <3>1 DEF Settled
  <2>3. CASE m # file
    <3>1. Handled(m)
      BY <1>4, <2>1, <2>3 DEF Handled
    <3>2. ~Limited /\ \A k \in Nodes : Noted(k) => Noted(k)'
      BY <1>5 DEF Carried
    <3>3. Settled(m)
      BY <3>1, <3>2 DEF Calm
    <3>4. tree[m] = "lost" => Parent[m] \in Nodes
      <4>1. m = Root => tree[m] = "file"
        BY <2>1 DEF Reached
      <4> QED
        BY <4>1, AboveStep
    <3> QED
      BY <1>1, <1>3, <3>2, <3>3, <3>4, SettledStill
  <2> QED
    BY <2>2, <2>3
<1>6. (partial => Cause)'
  <2>1. partial' => Cause
    BY <1>4 DEF Calm, Carried, Cause
  <2> QED
    BY <1>2, <2>1
<1>7. (Cause \/ entries_seen = Cardinality(Taken))'
  BY <1>1, <1>2, <1>3, <1>4 DEF Calm
<1>8. (Found \subseteq Owed)'
  BY <1>2, <1>3 DEF Calm
<1>9. \A i \in 1..Len(stack') :
         /\ tree'[stack'[i].dir] = "dir"
         /\ \A n \in stack'[i].left : tree'[n] # "gone"
  BY <1>1 DEF Calm
<1> QED
  BY <1>5, <1>6, <1>7, <1>8, <1>9 DEF Calm, Reading

\* A file that is not read is named.
LEMMA LeaveFile ==
  ASSUME GrepInv, Reading, CloseFile,
         UNCHANGED <<disk, walk, file, next_line, matches>>,
         NEW kind \in Kinds, Record(kind, file),
         changes = 0 /\ Calm =>
            /\ Gap(file)
            /\ tree[file] = "file" => Hits(file) \subseteq Found
  PROVE  GrepInv'
<1>1. /\ Steady /\ (changes = 0 => Calm) /\ Recorded /\ file \in Nodes
      /\ tree' = tree /\ changes' = changes
  BY DEF GrepInv, Steady, Walking, AtFile, disk
<1>2. /\ Recorded' /\ (Gap(file) => Carried(file))
      /\ Limited' \/ Named(file)'
  <2> DEFINE n == file
  <2>1. n \in Nodes /\ Record(kind, n)
    BY <1>1
  <2>2. /\ Recorded' /\ partial'
        /\ Limited => Limited'
        /\ kind = "resource_limit_reached" => Limited'
        /\ Limited' \/ \E i \in 1..Len(diagnostics') :
                          diagnostics'[i].path = n
        /\ Limited' \/ \A m : Noted(m) => Noted(m)'
    BY <1>1, <2>1, RecordTells DEF Noted
  <2> QED
    BY <2>2 DEF Carried, Named, Noted
<1>3. Steady' /\ pc' \in {"walk", "done"}
  BY <1>1, <1>2, CloseSteady
<1>4. ASSUME changes = 0, Calm
      PROVE  Calm'
  BY <1>1, <1>2, <1>3, <1>4, CloseCalm
<1> QED
  BY <1>1, <1>3, <1>4 DEF GrepInv

LEMMA ScanFileKeeps ==
  ASSUME GrepInv, ScanFile
  PROVE  GrepInv'
<1>1. /\ Steady /\ (changes = 0 => Calm) /\ Recorded /\ Reading
      /\ pc = "file" /\ file \in Nodes /\ next_line = 1
      /\ UNCHANGED <<disk, walk, reading, matches>>
      /\ UNCHANGED <<tree, changes, stack, entries_seen>>
      /\ UNCHANGED <<file, next_line, matches>>
  BY DEF GrepInv, Steady, Walking, AtFile, ScanFile, disk, walk, reading,
         Reading
<1>2. CASE tree[file] = "file"
  <2>1. pc' = "lines" /\ UNCHANGED verdict /\ Reading'
    BY <1>2 DEF ScanFile, Reading
  <2>2. /\ Recorded' /\ partial' = partial /\ Limited' = Limited
        /\ \A m : Noted(m)' = Noted(m)
    BY <1>1, <2>1, QuietTells
  <2>3. Steady'
    <3>1. Walking'
      BY <1>1, <2>1, <2>2 DEF Steady, Walking
    <3>2. AtFile'
      BY <1>1, <2>1 DEF Steady, AtFile, Reading, Top
    <3>3. \A p : Hits(p)' = Hits(p)
      BY DEF Hits, BadLines
    <3>4. Matched'
      BY <1>1, <2>1, <3>3 DEF Steady, Matched
    <3> QED
      BY <3>1, <3>2, <3>4 DEF Steady
  <2>4. ASSUME changes = 0, Calm
        PROVE  Calm'
    <3>1. /\ \A m : Reached(m)' = Reached(m) /\ Gap(m)' = Gap(m)
          /\ Owed' = Owed /\ Cause' = Cause
      BY <1>1, SameTree
    <3>2. Found' = Found /\ Taken' = Taken
      BY <1>1, <3>1 DEF Found, Taken
    <3>3. \A m : Handled(m)' => Handled(m)
      BY <1>1, <2>1, <3>1 DEF Handled
    <3>4. \A m : Hits(m)' = Hits(m)
      BY DEF Hits, BadLines
    <3>5. \A m : Settled(m) => Settled(m)'
      BY <1>1, <2>2, <3>1, <3>2, <3>4 DEF Settled, Named
    <3>6. (Limited \/ \A m \in Nodes : Handled(m) => Settled(m))'
      BY <2>2, <2>4, <3>3, <3>5 DEF Calm
    <3>7. /\ (partial => Cause)' /\ (Found \subseteq Owed)'
          /\ (Cause \/ entries_seen = Cardinality(Taken))'
      BY <1>1, <2>2, <2>4, <3>1, <3>2 DEF Calm
    <3>8. ({m \in Hits(file) : m.line < next_line} \subseteq Found)'
      BY <1>1, <2>4, <3>2, <3>4 DEF Calm
    <3>9. \A i \in 1..Len(stack') :
             /\ tree'[stack'[i].dir] = "dir"
             /\ \A n \in stack'[i].left : tree'[n] # "gone"
      BY <1>1, <2>4 DEF Calm
    <3> QED
      BY <1>1, <1>2, <2>1, <3>6, <3>7, <3>8, <3>9 DEF Calm, FileShapes
  <2> QED
    BY <1>1, <2>3, <2>4 DEF GrepInv
<1>3. CASE tree[file] # "file"
  <2>1. CloseFile
    BY <1>3 DEF ScanFile
  <2>2. PICK kind \in Kinds : Record(kind, file)
    BY <1>3 DEF ScanFile, Kinds
  <2>3. ASSUME changes = 0, Calm
        PROVE  Gap(file)
    <3>1. Reached(file) /\ file \notin Blocked
      BY <1>1, <2>3, FileReached DEF Steady, AtFile
    <3>2. tree[file] \in {"file_big", "file_closed"}
      BY <1>1, <1>3, <2>3 DEF Calm, FileShapes
    <3> QED
      BY <3>1, <3>2 DEF Gap
  <2> QED
    BY <1>1, <1>3, <2>1, <2>2, <2>3, LeaveFile
<1> QED
  BY <1>2, <1>3

\* What has been read of the file has been searched.
LEMMA LinesType ==
  \A n \in Nodes : /\ Lines[n] \in Seq({"hit", "miss", "bad"})
                   /\ Len(Lines[n]) \in Nat
BY TreeAssumption, LenProperties

\* A file that cannot be read on is named; what precedes has been searched.
LEMMA ReadBadKeeps ==
  ASSUME GrepInv, ReadLine, Lines[file][next_line] = "bad"
  PROVE  GrepInv'
<1>1. /\ Steady /\ (changes = 0 => Calm) /\ Recorded /\ Reading
      /\ pc = "lines" /\ file \in Nodes /\ next_line \in Nat
      /\ next_line \in 1..Len(Lines[file]) /\ CloseFile
      /\ Record("file_unreadable", file)
      /\ UNCHANGED <<disk, walk, file, next_line, matches>>
  BY DEF GrepInv, Steady, Walking, AtFile, ReadLine, Reading
<1>2. "file_unreadable" \in Kinds
  BY DEF Kinds
<1>3. ASSUME changes = 0, Calm
      PROVE  Gap(file) /\ Hits(file) \subseteq Found
  <2>1. Reached(file) /\ file \notin Blocked /\ tree[file] = "file"
    BY <1>1, <1>3, FileReached DEF Steady, AtFile, Calm
  <2>2. next_line \in BadLines(file)
    BY <1>1 DEF BadLines
  <2>3. Gap(file)
    BY <2>1, <2>2 DEF Gap
  <2>4. {m \in Hits(file) : m.line < next_line} \subseteq Found
    BY <1>1, <1>3 DEF Calm
  <2>5. \A m \in Hits(file) : m.line < next_line
    BY <2>2 DEF Hits
  <2> QED
    BY <2>3, <2>4, <2>5
<1> QED
  BY <1>1, <1>2, <1>3, LeaveFile

\* A line that can be read.
LEMMA ReadGoodKeeps ==
  ASSUME GrepInv, ReadLine, Lines[file][next_line] # "bad"
  PROVE  GrepInv'
<1>1. /\ Steady /\ (changes = 0 => Calm) /\ Recorded /\ Reading
      /\ pc = "lines" /\ pc' = pc /\ file \in Nodes /\ next_line \in Nat
      /\ next_line \in 1..Len(Lines[file])
      /\ next_line' = next_line + 1
      /\ UNCHANGED verdict
      /\ UNCHANGED <<tree, changes, stack, entries_seen, file>>
  BY DEF GrepInv, Steady, Walking, AtFile, ReadLine, Reading, disk, walk
<1>2. Reading'
  BY <1>1 DEF Reading
<1>3. /\ Recorded' /\ partial' = partial /\ Limited' = Limited
      /\ \A m : Noted(m)' = Noted(m)
  BY <1>1, QuietTells
<1> DEFINE new == [path |-> file, line |-> next_line]
           hit == Lines[file][next_line] = "hit"
           Line == [path : Nodes, line : Nat]
<1>4. new \in Line /\ new.path = file /\ new.line = next_line
  BY <1>1
<1>5. matches' = IF hit THEN Append(matches, new) ELSE matches
  BY DEF ReadLine
<1>6. /\ matches \in Seq(Line) /\ Len(matches) \in Nat
      /\ \A i \in 1..Len(matches) : matches[i] # new
  <2>1. \A i \in 1..Len(matches) :
           matches[i].path = file => matches[i].line < next_line
    BY <1>1 DEF Steady, Matched
  <2>2. matches \in Seq(Line)
    BY <1>1 DEF Steady, Matched
  <2> QED
    BY <1>1, <1>4, <2>1, <2>2, LenProperties
<1>7. \A k \in 1..next_line : Lines[file][k] # "bad"
  <2>1. \A k \in 1..(next_line - 1) : Lines[file][k] # "bad"
    BY <1>1 DEF Steady, AtFile
  <2> QED
    BY <1>1, <2>1
<1>8. hit => new \in Hits(file)
  <2>1. \A k \in BadLines(file) : next_line < k
    BY <1>1, <1>7 DEF BadLines
  <2> QED
    BY <1>1, <2>1 DEF Hits
<1> HIDE DEF new, Line
<1>9. /\ matches' \in Seq(Line) /\ Len(matches') \in Nat
      /\ ~hit => matches' = matches
      /\ hit => /\ Len(matches') = Len(matches) + 1
                /\ matches'[Len(matches) + 1] = new
                /\ \A i \in 1..Len(matches) : matches'[i] = matches[i]
  <2>1. CASE hit
    <3>1. /\ Append(matches, new) \in Seq(Line)
          /\ Len(Append(matches, new)) = Len(matches) + 1
          /\ \A i \in 1..Len(matches) : Append(matches, new)[i] = matches[i]
          /\ Append(matches, new)[Len(matches) + 1] = new
      BY <1>4, <1>6, AppendProperties
    <3>2. matches' = Append(matches, new)
      BY <1>5, <2>1
    <3>3. Len(matches) + 1 \in Nat
      BY <1>6
    <3> QED
      BY <2>1, <3>1, <3>2, <3>3
  <2>2. CASE ~hit
    BY <1>5, <1>6, <2>2
  <2> QED
    BY <2>1, <2>2
<1> HIDE DEF hit
<1>10. \A i \in 1..Len(matches') :
          \/ i \in 1..Len(matches) /\ matches'[i] = matches[i]
          \/ hit /\ i = Len(matches) + 1 /\ matches'[i] = new
  BY <1>6, <1>9
<1>11. Walking'
  BY <1>1, <1>3 DEF Steady, Walking
<1>12. AtFile'
  <2>1. next_line' \in 1..(Len(Lines[file]) + 1)
    BY <1>1, LinesType
  <2>2. \A k \in 1..(next_line' - 1) : Lines[file][k] # "bad"
    BY <1>1, <1>7
  <2>3. Top' = Top
    BY <1>1 DEF Top
  <2> QED
    BY <1>1, <2>1, <2>2, <2>3 DEF Steady, AtFile, Reading
<1>13. Matched'
  <2>1. \A i, j \in 1..Len(matches') : matches'[i] = matches'[j] => i = j
    <3>1. \A i, j \in 1..Len(matches) : matches[i] = matches[j] => i = j
      BY <1>1 DEF Steady, Matched
    <3> QED
      BY <1>6, <1>10, <3>1
  <2>2. ({file} \cup Above[file]) \cap Blocked = {} /\ file \notin Await(stack)
    <3>1. /\ file \notin Blocked /\ file \notin Await(stack) /\ file \in Nodes
          /\ file # Root => stack # << >> /\ Parent[file] = Top.dir
      BY <1>1 DEF Steady, AtFile
    <3>2. CASE file = Root
      BY <3>1, <3>2, AboveStep
    <3>3. CASE file # Root
      <4>1. Chain(stack) /\ stack \in Seq(Frames) /\ stack # << >>
        BY <1>1, <3>1, <3>3 DEF Steady, Walking, Chain
      <4>2. Len(stack) \in Nat /\ Len(stack) \in 1..Len(stack)
        <5>1. Len(stack) \in Nat \ {0}
          BY <4>1, EmptySeq
        <5> QED
          BY <5>1
      <4>3. Above[file] = {Top.dir} \cup Above[Top.dir]
        BY <3>1, <3>3, AboveStep
      <4>4. Top.dir \notin Blocked
        BY <4>1, <4>2, FrameType DEF Top
      <4>5. Above[Top.dir] = {stack[j].dir : j \in 1..(Len(stack) - 1)}
        BY <4>1, <4>2, FrameType DEF Top
      <4>6. \A j \in 1..(Len(stack) - 1) : stack[j].dir \notin Blocked
        BY <4>1, <4>2, FrameType
      <4>7. Above[Top.dir] \cap Blocked = {}
        BY <4>5, <4>6
      <4> QED
        BY <3>1, <4>3, <4>4, <4>7
    <3> QED
      BY <3>1, <3>2, <3>3
  <2>3. ASSUME NEW i \in 1..Len(matches')
        PROVE  /\ matches'[i] \in Hits(matches'[i].path)
               /\ matches'[i].path \notin Await(stack')
               /\ ({matches'[i].path} \cup Above[matches'[i].path])
                     \cap Blocked = {}
               /\ matches'[i].path = file => matches'[i].line < next_line'
    <3>1. CASE i \in 1..Len(matches) /\ matches'[i] = matches[i]
      <4>1. /\ matches[i] \in Hits(matches[i].path)
            /\ matches[i].path \notin Await(stack)
            /\ ({matches[i].path} \cup Above[matches[i].path])
                  \cap Blocked = {}
            /\ matches[i].path = file => matches[i].line < next_line
        BY <1>1, <3>1 DEF Steady, Matched
      <4>2. matches[i].line \in Nat
        <5>1. matches[i] \in Line
          BY <1>6, <3>1, ElementOfSeq
        <5> QED
          BY <5>1 DEF Line
      <4> QED
        BY <1>1, <3>1, <4>1, <4>2
    <3>2. CASE hit /\ matches'[i] = new
      BY <1>1, <1>4, <1>8, <2>2, <3>2
    <3> QED
      BY <1>10, <3>1, <3>2
  <2>4. \A p : Hits(p)' = Hits(p)
    BY DEF Hits, BadLines
  <2>5. matches' \in Seq([path : Nodes, line : Nat])
    BY <1>9 DEF Line
  <2> QED
    BY <1>1, <2>1, <2>3, <2>4, <2>5 DEF Matched
<1>14. ASSUME changes = 0, Calm
       PROVE  Calm'
  <2>1. /\ \A m : Reached(m)' = Reached(m) /\ Gap(m)' = Gap(m)
        /\ Owed' = Owed /\ Cause' = Cause
    BY <1>1, SameTree
  <2>2. Taken' = Taken
    BY <1>1, <2>1 DEF Taken
  <2>3. Found' = IF hit THEN Found \cup {new} ELSE Found
    <3>1. CASE ~hit
      BY <1>9, <3>1 DEF Found
    <3>2. CASE hit
      <4>1. \A m \in Found' : m \in Found \cup {new}
        BY <1>10 DEF Found
      <4>2. Found \subseteq Found'
        BY <1>6, <1>9, <3>2 DEF Found
      <4>3. new \in Found'
        BY <1>6, <1>9, <3>2 DEF Found
      <4> QED
        BY <3>2, <4>1, <4>2, <4>3
    <3> QED
      BY <3>1, <3>2
  <2>4. Reached(file) /\ tree[file] = "file" /\ file \notin Blocked
    BY <1>1, <1>14, FileReached DEF Steady, AtFile, Calm
  <2>5. (Found \subseteq Owed)'
    <3>1. hit => new \in Owed
      BY <1>1, <1>8, <2>4 DEF Owed
    <3>2. Found \subseteq Owed
      BY <1>14 DEF Calm
    <3> QED
      BY <2>1, <2>3, <3>1, <3>2
  <2>6. Found \subseteq Found'
    BY <2>3
  <2>7. \A m : Handled(m)' => Handled(m)
    BY <1>1, <1>2, <2>1 DEF Handled
  <2>8. \A m : Hits(m)' = Hits(m)
    BY DEF Hits, BadLines
  <2>9. \A m : Settled(m) => Settled(m)'
    BY <1>1, <1>3, <2>1, <2>6, <2>8 DEF Settled, Named
  <2>10. (Limited \/ \A m \in Nodes : Handled(m) => Settled(m))'
    BY <1>3, <1>14, <2>7, <2>9 DEF Calm
  <2>11. /\ (partial => Cause)'
         /\ (Cause \/ entries_seen = Cardinality(Taken))'
    BY <1>1, <1>3, <1>14, <2>1, <2>2 DEF Calm
  <2>12. ({m \in Hits(file) : m.line < next_line} \subseteq Found)'
    <3> SUFFICES ASSUME NEW m \in Hits(file), m.line < next_line'
                 PROVE  m \in Found'
      BY <1>1, <2>8
    <3>1. {k \in Hits(file) : k.line < next_line} \subseteq Found
      BY <1>1, <1>14 DEF Calm
    <3>2. PICK j \in 1..Len(Lines[file]) :
                  m = [path |-> file, line |-> j] /\ Lines[file][j] = "hit"
      BY DEF Hits
    <3>3. m.line = j /\ j \in Nat
      BY <3>2
    <3>4. CASE j < next_line
      BY <2>6, <3>1, <3>3, <3>4
    <3>5. CASE j = next_line
      BY <2>3, <3>2, <3>5 DEF new, hit
    <3> QED
      BY <1>1, <3>3, <3>4, <3>5
  <2>13. \A i \in 1..Len(stack') :
            /\ tree'[stack'[i].dir] = "dir"
            /\ \A n \in stack'[i].left : tree'[n] # "gone"
    BY <1>1, <1>14 DEF Calm
  <2> QED
    BY <1>1, <2>4, <2>5, <2>10, <2>11, <2>12, <2>13 DEF Calm, FileShapes
<1> QED
  BY <1>1, <1>11, <1>12, <1>13, <1>14 DEF GrepInv, Steady

\* At its end the file has been searched whole.
LEMMA EndOfFileKeeps ==
  ASSUME GrepInv, EndOfFile
  PROVE  GrepInv'
<1>1. /\ Steady /\ (changes = 0 => Calm) /\ Recorded /\ Reading
      /\ pc = "lines" /\ file \in Nodes /\ next_line \in Nat
      /\ next_line > Len(Lines[file]) /\ CloseFile
      /\ UNCHANGED verdict /\ changes' = changes
      /\ UNCHANGED <<disk, walk, file, next_line, matches>>
  BY DEF GrepInv, Steady, Walking, AtFile, EndOfFile, Reading, disk, reading
<1>2. Recorded' /\ Carried(file)
  BY <1>1, QuietCarries
<1>3. Steady' /\ pc' \in {"walk", "done"}
  BY <1>1, <1>2, CloseSteady
<1>4. ASSUME changes = 0, Calm
      PROVE  Calm'
  <2>1. tree[file] = "file"
    BY <1>1, <1>4 DEF Calm
  <2>2. BadLines(file) = {}
    <3>1. \A k \in 1..(next_line - 1) : Lines[file][k] # "bad"
      BY <1>1 DEF Steady, AtFile
    <3>2. 1..Len(Lines[file]) \subseteq 1..(next_line - 1)
      BY <1>1, LinesType
    <3> QED
      BY <3>1, <3>2 DEF BadLines
  <2>3. ~Gap(file)
    BY <2>1, <2>2 DEF Gap
  <2>4. Hits(file) \subseteq Found
    <3>1. {m \in Hits(file) : m.line < next_line} \subseteq Found
      BY <1>1, <1>4 DEF Calm
    <3>2. \A m \in Hits(file) : m.line < next_line
      BY <1>1, LinesType DEF Hits
    <3> QED
      BY <3>1, <3>2
  <2> QED
    BY <1>1, <1>2, <1>3, <1>4, <2>3, <2>4, CloseCalm
<1> QED
  BY <1>1, <1>3, <1>4 DEF GrepInv

-------------------------------------------------------------------------------
(* The invariant.                                                            *)

\* A tree that changes is no longer left alone.
LEMMA ChangeKeeps ==
  ASSUME GrepInv, NEW n \in Nodes, NEW shape \in Shapes, Change(n, shape)
  PROVE  GrepInv'
<1>1. /\ Steady /\ changes \in 0..MaxChanges /\ changes < MaxChanges
      /\ changes' = changes + 1 /\ tree' = [tree EXCEPT ![n] = shape]
      /\ tree \in [Nodes -> Shapes]
      /\ UNCHANGED <<pc, stack, entries_seen, file, next_line, matches>>
      /\ UNCHANGED verdict
  BY DEF GrepInv, Steady, Walking, Change, walk, reading
<1>2. Recorded'
  BY <1>1, QuietTells DEF Steady, Walking
<1>3. /\ tree' \in [Nodes -> Shapes] /\ changes' \in 0..MaxChanges
      /\ changes' # 0
  BY <1>1, TreeAssumption
<1>4. Walking'
  BY <1>1, <1>2, <1>3 DEF Steady, Walking
<1>5. AtFile'
  BY <1>1 DEF Steady, AtFile, Reading, Top
<1>6. Matched'
  <2>1. \A p : Hits(p)' = Hits(p)
    BY DEF Hits, BadLines
  <2> QED
    BY <1>1, <2>1 DEF Steady, Matched, Reading
<1> QED
  BY <1>3, <1>4, <1>5, <1>6 DEF GrepInv, Steady

\* A step that changes nothing.
LEMMA StutterKeeps ==
  ASSUME GrepInv, UNCHANGED vars
  PROVE  GrepInv'
<1>1. /\ Steady /\ (changes = 0 => Calm)
      /\ UNCHANGED <<tree, changes, pc, stack, entries_seen, file, next_line,
                     matches, diagnostics, diagnostics_capped, partial>>
  BY DEF GrepInv, vars, disk, walk, reading, verdict
<1>2. Recorded' /\ UNCHANGED verdict
  BY <1>1, QuietTells DEF Steady, Walking, verdict
<1>3. Walking'
  BY <1>1, <1>2 DEF Steady, Walking
<1>4. AtFile'
  BY <1>1 DEF Steady, AtFile, Reading, Top
<1>5. \A p : Hits(p)' = Hits(p)
  BY DEF Hits, BadLines
<1>6. Matched'
  BY <1>1, <1>5 DEF Steady, Matched, Reading
<1>7. ASSUME Calm
      PROVE  Calm'
  <2>1. /\ partial' = partial /\ Limited' = Limited
        /\ \A m : Noted(m)' = Noted(m)
    BY <1>1, <1>2, QuietTells DEF Steady, Walking
  <2>2. /\ \A m : Reached(m)' = Reached(m) /\ Gap(m)' = Gap(m)
        /\ Owed' = Owed /\ Cause' = Cause
    BY <1>1, SameTree
  <2>3. Found' = Found /\ Taken' = Taken
    BY <1>1, <2>2 DEF Found, Taken
  <2>4. \A m : Handled(m)' => Handled(m)
    BY <1>1, <2>2 DEF Handled, Reading
  <2>5. \A m : Settled(m) => Settled(m)'
    BY <1>1, <1>5, <2>1, <2>2, <2>3 DEF Settled, Named
  <2>6. (Limited \/ \A m \in Nodes : Handled(m) => Settled(m))'
    BY <1>7, <2>1, <2>4, <2>5 DEF Calm
  <2>7. /\ (partial => Cause)' /\ (Found \subseteq Owed)'
        /\ (pc # "start" => Cause \/ entries_seen = Cardinality(Taken))'
    BY <1>1, <1>7, <2>1, <2>2, <2>3 DEF Calm
  <2>8. (Reading => /\ tree[file] \in FileShapes
                    /\ file = Root \/ pc = "lines" => tree[file] = "file"
                    /\ {m \in Hits(file) : m.line < next_line} \subseteq Found)'
    BY <1>1, <1>5, <1>7, <2>3 DEF Calm, Reading
  <2>9. \A i \in 1..Len(stack') :
           /\ tree'[stack'[i].dir] = "dir"
           /\ \A n \in stack'[i].left : tree'[n] # "gone"
    BY <1>1, <1>7 DEF Calm
  <2>10. (pc = "start" => tree[Root] = "dir" /\ entries_seen = 0)'
         /\ (pc # "failed")'
    BY <1>1, <1>7 DEF Calm
  <2> QED
    BY <2>6, <2>7, <2>8, <2>9, <2>10 DEF Calm
<1> QED
  BY <1>1, <1>3, <1>4, <1>6, <1>7 DEF GrepInv, Steady

\* It holds where a search begins,
LEMMA GrepInit ==
  Init => GrepInv
<1> SUFFICES ASSUME Init
             PROVE  GrepInv
  OBVIOUS
<1>1. /\ tree \in [Nodes -> Shapes] /\ tree[Root] \in {"dir", "file"}
      /\ changes = 0
      /\ pc = (IF tree[Root] = "file" THEN "file" ELSE "start")
      /\ stack = << >> /\ entries_seen = 0 /\ file = Root /\ next_line = 1
      /\ matches = << >> /\ diagnostics = << >>
      /\ diagnostics_capped = FALSE /\ partial = FALSE
  BY TreeAssumption DEF Init
<1>2. /\ Root \in Nodes /\ Root \notin Blocked
      /\ MaxChanges \in Nat /\ MaxEntries \in Nat /\ MaxDiagnostics \in Nat
  BY TreeAssumption
<1>3. Recorded
  <2>1. /\ diagnostics \in Seq([kind : Kinds, path : Nodes])
        /\ Len(diagnostics) = 0
    BY <1>1
  <2>2. /\ diagnostics_capped \in BOOLEAN /\ ~diagnostics_capped
        /\ partial \in BOOLEAN /\ diagnostics = << >>
    BY <1>1
  <2>3. Len(diagnostics) <= MaxDiagnostics
    BY <1>2, <2>1
  <2> QED
    BY <2>1, <2>2, <2>3 DEF Recorded
<1>4. Walking
  BY <1>1, <1>2, <1>3, NoChain DEF Walking
<1>5. AtFile
  <2>1. next_line \in 1..(Len(Lines[file]) + 1)
    BY <1>1, <1>2, LinesType
  <2>2. \A k \in 1..(next_line - 1) : FALSE
    BY <1>1
  <2> QED
    BY <1>1, <1>2, <2>1, <2>2, NoChain DEF AtFile, Reading
<1>6. Matched
  BY <1>1 DEF Matched
<1>7. Calm
  <2>1. \A m \in Nodes : m # Root => (Reached(m) => tree[Root] = "dir")
    BY AboveNodes DEF Reached
  <2>2. pc = "file" => \A m \in Nodes : m # Root => ~Reached(m)
    BY <1>1, <2>1
  <2>3. pc = "file" => Taken = {}
    BY <2>2 DEF Taken
  <2>4. Cardinality({}) = 0
    BY FS_EmptySet
  <2>5. \A m \in Nodes : ~Handled(m)
    <3>1. CASE pc = "file"
      BY <1>1, <2>2, <3>1 DEF Handled, Reading
    <3>2. CASE pc = "start"
      BY <3>2 DEF Handled
    <3> QED
      BY <1>1, <3>1, <3>2
  <2>6. Found = {}
    BY <1>1 DEF Found
  <2>7. {m \in Hits(file) : m.line < next_line} = {}
    BY <1>1 DEF Hits
  <2>8. pc # "start" => entries_seen = Cardinality(Taken)
    BY <1>1, <2>3, <2>4
  <2>9. \A i \in 1..Len(stack) : FALSE
    BY <1>1
  <2>10. pc = "start" => tree[Root] = "dir"
    BY <1>1
  <2>11. Reading => tree[file] = "file"
    BY <1>1 DEF Reading
  <2> QED
    BY <1>1, <2>5, <2>6, <2>7, <2>8, <2>9, <2>10, <2>11 DEF Calm, FileShapes
<1> QED
  BY <1>4, <1>5, <1>6, <1>7 DEF GrepInv, Steady

\* and every step keeps it,
LEMMA GrepStep ==
  GrepInv /\ [Next]_vars => GrepInv'
<1> SUFFICES ASSUME GrepInv, [Next]_vars
             PROVE  GrepInv'
  OBVIOUS
<1>1. CASE ScanRoot
  BY <1>1, ScanRootKeeps
<1>2. CASE EndOfDirectory
  BY <1>2, EndOfDirectoryKeeps
<1>3. CASE EntryLimit
  BY <1>3, EntryLimitKeeps
<1>4. ASSUME NEW n \in Nodes,
             \/ SkipUnread(n)
             \/ SkipDenied(n)
             \/ EnterDirectory(n)
             \/ EnterFile(n)
             \/ SkipUnsupported(n)
             \/ \E shape \in {"gone", "symlink", "file_big", "dir_closed"} :
                   Change(n, shape)
      PROVE  GrepInv'
  <2>1. CASE SkipUnread(n)
    BY <2>1, UnreadKeeps
  <2>2. CASE SkipDenied(n)
    BY <2>2, DeniedKeeps
  <2>3. CASE EnterDirectory(n)
    BY <2>3, EnterDirectoryKeeps
  <2>4. CASE EnterFile(n)
    BY <2>4, EnterFileKeeps
  <2>5. CASE SkipUnsupported(n)
    BY <2>5, UnsupportedKeeps
  <2>6. ASSUME NEW shape \in {"gone", "symlink", "file_big", "dir_closed"},
               Change(n, shape)
        PROVE  GrepInv'
    <3>1. shape \in Shapes
      BY DEF Shapes
    <3> QED
      BY <2>6, <3>1, ChangeKeeps
  <2> QED
    BY <1>4, <2>1, <2>2, <2>3, <2>4, <2>5, <2>6
<1>5. CASE ScanFile
  BY <1>5, ScanFileKeeps
<1>6. CASE ReadLine
  BY <1>6, ReadBadKeeps, ReadGoodKeeps
<1>7. CASE EndOfFile
  BY <1>7, EndOfFileKeeps
<1>8. CASE UNCHANGED vars
  BY <1>8, StutterKeeps
<1> QED
  BY <1>1, <1>2, <1>3, <1>4, <1>5, <1>6, <1>7, <1>8 DEF Next

\* so it holds throughout.
THEOREM GrepInvariant == Spec => []GrepInv
<1>1. Init => GrepInv
  BY GrepInit
<1>2. GrepInv /\ [Next]_vars => GrepInv'
  BY GrepStep
<1> QED
  BY <1>1, <1>2, PTL DEF Spec

-------------------------------------------------------------------------------
(* What follows.                                                             *)

\* Everything keeps its type and its bound: never more directories open than
\* the depth limit allows, never more entries read or diagnostics kept than
\* their limits (scan_directory_entries, record).
THEOREM GrepTypes == Spec => []TypeOK
<1>1. GrepInv => TypeOK
  <2> SUFFICES ASSUME GrepInv
               PROVE  TypeOK
    OBVIOUS
  <2>1. Walking /\ AtFile /\ Matched
    BY DEF GrepInv, Steady
  <2>2. Found \subseteq [path : Nodes, line : Nat]
    <3>1. matches \in Seq([path : Nodes, line : Nat])
      BY <2>1 DEF Matched
    <3>2. \A i \in 1..Len(matches) : matches[i] \in [path : Nodes, line : Nat]
      BY <3>1, ElementOfSeq
    <3> QED
      BY <3>2 DEF Found
  <2> QED
    BY <2>1, <2>2 DEF TypeOK, Walking, AtFile, Chain, Recorded
<1> QED
  BY <1>1, GrepInvariant, PTL

\* No line is reported twice, none that does not match, and none from a path the
\* policy denies or from below one, even while the tree changes
\* (scan_file, block_rule_for_path).
THEOREM ReportsAreClean == Spec => []MatchesAreClean
<1>1. GrepInv => MatchesAreClean
  <2> SUFFICES ASSUME GrepInv
               PROVE  MatchesAreClean
    OBVIOUS
  <2>1. /\ matches \in Seq([path : Nodes, line : Nat])
        /\ \A i, j \in 1..Len(matches) : matches[i] = matches[j] => i = j
        /\ \A i \in 1..Len(matches) :
              /\ matches[i] \in Hits(matches[i].path)
              /\ ({matches[i].path} \cup Above[matches[i].path])
                    \cap Blocked = {}
    BY DEF GrepInv, Steady, Matched
  <2>2. Cardinality(Found) = Len(matches)
    <3> DEFINE k == Len(matches)
               T == Found
    <3>1. k \in Nat /\ matches \in [1..k -> T]
      <4>1. Len(matches) \in Nat /\ DOMAIN matches = 1..Len(matches)
            /\ matches \in [1..Len(matches) -> [path : Nodes, line : Nat]]
        BY <2>1, LenProperties
      <4>2. \A i \in 1..Len(matches) : matches[i] \in Found
        BY DEF Found
      <4> QED
        BY <4>1, <4>2
    <3>2. \A t \in T : \E i \in 1..k : matches[i] = t
      BY DEF Found
    <3>3. \A i, j \in 1..k : matches[i] = matches[j] => i = j
      BY <2>1
    <3> HIDE DEF k, T
    <3>4. IsFiniteSet(T) /\ Cardinality(T) = k
      BY <3>1, <3>2, <3>3, Numbered
    <3> QED
      BY <3>4 DEF k, T
  <2>3. \A m \in Found : /\ m \in Hits(m.path)
                          /\ ({m.path} \cup Above[m.path]) \cap Blocked = {}
    BY <2>1 DEF Found
  <2> QED
    BY <2>2, <2>3 DEF MatchesAreClean
<1> QED
  BY <1>1, GrepInvariant, PTL

\* Of a search that ends, with the tree left alone, all that is reached is
\* settled, unless a limit is named.
LEMMA AllSettled ==
  ASSUME GrepInv, Undisturbed
  PROVE  /\ Calm /\ Recorded
         /\ Limited \/ \A n \in Nodes : Reached(n) => Settled(n)
<1>1. Calm /\ Walking /\ pc = "done"
  BY DEF GrepInv, Steady, Undisturbed
<1>2. stack = << >>
  BY <1>1 DEF Walking
<1>3. Await(stack) = {}
  BY <1>2, NoChain
<1>4. \A n \in Nodes : Reached(n) => Handled(n)
  BY <1>1, <1>3 DEF Handled, Reading
<1> QED
  BY <1>1, <1>4 DEF Calm, Walking

\* A search that calls itself complete left nothing out and has every matching
\* line (scan_directory_entries, scan_file: each early exit has its record).
THEOREM CompleteIsAll == Spec => []CompleteMeansAll
<1>1. GrepInv => CompleteMeansAll
  <2> SUFFICES ASSUME GrepInv, Undisturbed, ~partial
               PROVE  Found = Owed /\ \A n \in Nodes : ~Gap(n)
    BY DEF CompleteMeansAll
  <2>1. /\ Calm /\ Recorded
        /\ Limited \/ \A n \in Nodes : Reached(n) => Settled(n)
    BY AllSettled
  <2>2. \A i \in 1..Len(diagnostics) : FALSE
    BY <2>1 DEF Recorded
  <2>3. \A n \in Nodes : Reached(n) => Settled(n)
    BY <2>1, <2>2 DEF Limited
  <2>4. \A n : ~Named(n)
    BY <2>2 DEF Named, Noted
  <2>5. \A n \in Nodes : ~Gap(n)
    BY <2>3, <2>4 DEF Settled, Gap
  <2>6. Owed \subseteq Found
    BY <2>3 DEF Owed, Settled
  <2> QED
    BY <2>1, <2>5, <2>6 DEF Calm
<1> QED
  BY <1>1, GrepInvariant, PTL

\* Whatever was left out is named in the diagnostics, by the path of its
\* directory if its own is not known, or they say that a limit kept it out
\* (record).
THEOREM GapsAreNamed == Spec => []GapsAreTold
<1>1. GrepInv => GapsAreTold
  <2> SUFFICES ASSUME GrepInv, Undisturbed, NEW n \in Nodes, Gap(n)
               PROVE  \E i \in 1..Len(diagnostics) :
                         \/ diagnostics[i].path = n
                         \/ tree[n] = "lost" /\ diagnostics[i].path = Parent[n]
                         \/ diagnostics[i].kind = "resource_limit_reached"
    BY DEF GapsAreTold
  <2>1. Limited \/ Settled(n)
    BY AllSettled DEF Gap
  <2> QED
    BY <2>1 DEF Limited, Settled, Named, Noted
<1> QED
  BY <1>1, GrepInvariant, PTL

\* A search calls itself partial for a reason only: something was left out, or
\* there were more entries than MAX_TRAVERSAL_ENTRIES (entries_seen).
THEOREM PartialIsForCause == Spec => []PartialForCause
<1>1. GrepInv => PartialForCause
  <2> SUFFICES ASSUME GrepInv, Undisturbed, partial
               PROVE  Cause
    BY DEF PartialForCause, Cause
  <2>1. Calm
    BY AllSettled
  <2> QED
    BY <2>1 DEF Calm
<1> QED
  BY <1>1, GrepInvariant, PTL

===============================================================================
