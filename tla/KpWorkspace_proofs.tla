-------------------------- MODULE KpWorkspace_proofs --------------------------
(***************************************************************************)
(* Proofs about a workspace, for any tree of paths and any number of       *)
(* commands that run at a time.                                            *)
(***************************************************************************)
EXTENDS KpWorkspace, TLAPS

-----------------------------------------------------------------------------
(* The directories above a path                                             *)

\* What Above[n] is without recursion: what is in every set that has n's parent and
\* with each path its parent
Up == [n \in Paths |->
        {d \in Paths : \A S \in SUBSET Paths :
           /\ n # Root => Parent[n] \in S
           /\ \A m \in S \ {Root} : Parent[m] \in S
           => d \in S}]

AboveBody(f) == [n \in Paths |-> IF n = Root THEN {} ELSE {Parent[n]} \cup f[Parent[n]]]

\* There is a function that Above can be.
LEMMA UpBody == Up = AboveBody(Up)
<1> USE TreeAssumption
<1>1. Up[Root] = {}
  <2>1. {} \in SUBSET Paths
    OBVIOUS
  <2> QED
    BY <2>1 DEF Up
<1>2. ASSUME NEW n \in Paths \ {Root}
      PROVE  Up[n] = {Parent[n]} \cup Up[Parent[n]]
  <2> DEFINE p == Parent[n]
  <2>1. p \in Paths /\ (p # Root => Parent[p] \in Paths)
    OBVIOUS
  <2>2. ASSUME NEW d \in Up[n]
        PROVE  d \in {p} \cup Up[p]
    <3> DEFINE S == {p} \cup Up[p]
    <3>1. S \in SUBSET Paths
      BY <2>1 DEF Up
    <3>2. \A m \in S \ {Root} : Parent[m] \in S
      BY <2>1, <3>1 DEF Up
    <3> HIDE DEF S
    <3>3. p \in S
      BY DEF S
    <3>4. d \in S
      BY <2>2, <3>1, <3>2, <3>3 DEF Up
    <3> QED
      BY <3>4 DEF S
  <2>3. ASSUME NEW d \in {p} \cup Up[p]
        PROVE  d \in Up[n]
    <3>1. d \in Paths
      BY <2>1, <2>3 DEF Up
    <3>2. ASSUME NEW S \in SUBSET Paths, p \in S, \A m \in S \ {Root} : Parent[m] \in S
          PROVE  d \in S
      BY <2>1, <2>3, <3>2 DEF Up
    <3> QED
      BY <3>1, <3>2 DEF Up
  <2> QED
    BY <2>2, <2>3
<1> QED
  BY <1>1, <1>2 DEF Up, AboveBody

LEMMA AboveIsBody == Above = AboveBody(Above)
<1>1. \E f : f = AboveBody(f)
  BY UpBody
<1>2. Above = CHOOSE f : f = AboveBody(f)
  BY DEF Above, AboveBody
<1> QED
  BY <1>1, <1>2

\* Above is what its definition says.
LEMMA AboveEquation ==
  /\ Above[Root] = {}
  /\ \A n \in Paths \ {Root} : Above[n] = {Parent[n]} \cup Above[Parent[n]]
BY AboveIsBody, TreeAssumption DEF AboveBody

\* A set of paths with the root and with each path whose parent it has is all paths.
LEMMA PathInduction ==
  ASSUME NEW S \in SUBSET Paths,
         Root \in S, \A n \in Paths \ {Root} : Parent[n] \in S => n \in S
  PROVE  S = Paths
<1> DEFINE T == Paths \ S
<1>1. T \in SUBSET Paths
  OBVIOUS
<1>2. CASE T # {}
  <2>1. \E n \in T : n = Root \/ Parent[n] \notin T
    BY <1>1, <1>2, TreeAssumption
  <2> QED
    BY <2>1, TreeAssumption
<1>3. CASE T = {}
  BY <1>3
<1> QED
  BY <1>2, <1>3

LEMMA AboveDirs == \A n \in Paths : Above[n] \subseteq Dirs
<1> DEFINE S == {n \in Paths : Above[n] \subseteq Dirs}
<1>1. Root \in S /\ \A n \in Paths \ {Root} : Parent[n] \in S => n \in S
  BY AboveEquation, TreeAssumption
<1>2. S \in SUBSET Paths
  OBVIOUS
<1> HIDE DEF S
<1>3. S = Paths
  BY <1>1, <1>2, PathInduction
<1> QED
  BY <1>3 DEF S

\* What is above a directory above a path is above the path.
LEMMA AboveTransitive == \A n \in Paths : \A d \in Above[n] : Above[d] \subseteq Above[n]
<1> DEFINE S == {n \in Paths : \A d \in Above[n] : Above[d] \subseteq Above[n]}
<1>1. Root \in S /\ \A n \in Paths \ {Root} : Parent[n] \in S => n \in S
  BY AboveEquation, TreeAssumption
<1>2. S \in SUBSET Paths
  OBVIOUS
<1> HIDE DEF S
<1>3. S = Paths
  BY <1>1, <1>2, PathInduction
<1> QED
  BY <1>3 DEF S

\* No path is above itself.
LEMMA AboveIrreflexive == \A n \in Paths : n \notin Above[n]
<1> DEFINE S == {n \in Paths : n \notin Above[n]}
<1>1. Root \in S
  BY AboveEquation, TreeAssumption
<1>2. ASSUME NEW n \in Paths \ {Root}, Parent[n] \in S
      PROVE  n \in S
  <2>1. Above[n] = {Parent[n]} \cup Above[Parent[n]] /\ Parent[n] \in Paths
    BY AboveEquation, TreeAssumption
  <2>2. n \in Above[n] => Parent[n] \in Above[Parent[n]]
    BY <2>1, AboveTransitive
  <2> QED
    BY <1>2, <2>2
<1>3. S \in SUBSET Paths
  OBVIOUS
<1> HIDE DEF S
<1>4. S = Paths
  BY <1>1, <1>2, <1>3, PathInduction
<1> QED
  BY <1>4 DEF S

\* The root is above every other path.
LEMMA AboveRoot == \A n \in Paths \ {Root} : Root \in Above[n]
<1> DEFINE S == {n \in Paths : n # Root => Root \in Above[n]}
<1>1. Root \in S /\ \A n \in Paths \ {Root} : Parent[n] \in S => n \in S
  BY AboveEquation, TreeAssumption
<1>2. S \in SUBSET Paths
  OBVIOUS
<1> HIDE DEF S
<1>3. S = Paths
  BY <1>1, <1>2, PathInduction
<1> QED
  BY <1>3 DEF S

\* Below a directory there is a next one on the way to each path under it.
LEMMA AboveStep ==
  \A n \in Paths : \A d \in Above[n] :
    n # Root /\ (Parent[n] = d \/ \E e \in Above[n] : e # Root /\ Parent[e] = d)
<1> DEFINE S == {n \in Paths : \A d \in Above[n] :
                   n # Root /\ (Parent[n] = d \/ \E e \in Above[n] : e # Root /\ Parent[e] = d)}
<1>1. Root \in S
  BY AboveEquation, TreeAssumption
<1>2. ASSUME NEW n \in Paths \ {Root}, Parent[n] \in S
      PROVE  n \in S
  <2>1. Above[n] = {Parent[n]} \cup Above[Parent[n]] /\ Parent[n] \in Paths
    BY AboveEquation, TreeAssumption
  <2>2. ASSUME NEW d \in Above[n], d # Parent[n]
        PROVE  \E e \in Above[n] : e # Root /\ Parent[e] = d
    BY <1>2, <2>1, <2>2
  <2> QED
    BY <2>2
<1>3. S \in SUBSET Paths
  OBVIOUS
<1> HIDE DEF S
<1>4. S = Paths
  BY <1>1, <1>2, <1>3, PathInduction
<1> QED
  BY <1>4 DEF S
-----------------------------------------------------------------------------
(* Types                                                                    *)

Places == {"idle", "initdir", "find", "load", "mkdir", "check", "read",
           "write", "unlink", "move", "list", "listed"}

NodeOK ==
  /\ node \in [Paths -> Passwords \cup {Nothing, Directory, Torn}]
  /\ \A n \in Paths \ {Root} : node[n] # Nothing => node[Parent[n]] = Directory

CmdOK == cmd \in [Procs -> Cmd]

\* The fields of a command are where they were.
Same(p) ==
  /\ cmd'[p].job = cmd[p].job /\ cmd'[p].password = cmd[p].password

OthersSame(p) == \A q \in Procs \ {p} : cmd'[q] = cmd[q]

LEMMA IdleType == Idle \in Cmd /\ Idle.pc = "idle"
<1>1. (CHOOSE j \in Jobs : TRUE) \in Jobs
  BY JobsAssumption
<1>2. (CHOOSE k \in Passwords : TRUE) \in Passwords
  BY MarkAssumption
<1> QED
  BY <1>1, <1>2, TreeAssumption DEF Idle, Cmd

\* A command that goes on, and one that ends
LEMMA GotoFacts ==
  ASSUME CmdOK, NEW p \in Procs, NEW pc \in Places, Goto(p, pc)
  PROVE  /\ CmdOK' /\ OthersSame(p) /\ Same(p)
         /\ cmd'[p].pc = pc /\ cmd'[p].at = cmd[p].at
         /\ cmd'[p].todo = cmd[p].todo /\ cmd'[p].shown = cmd[p].shown
         /\ cmd'[p].unread = cmd[p].unread
<1>1. cmd[p] \in Cmd
  BY DEF CmdOK
<1>2. [cmd[p] EXCEPT !.pc = pc] \in Cmd
  BY <1>1 DEF Cmd, Places
<1>3. cmd' = [cmd EXCEPT ![p] = [cmd[p] EXCEPT !.pc = pc]]
  BY DEF Goto, CmdOK
<1> QED
  BY <1>1, <1>2, <1>3 DEF CmdOK, OthersSame, Same, Cmd

LEMMA EndFacts ==
  ASSUME CmdOK, NEW p \in Procs, End(p)
  PROVE  CmdOK' /\ OthersSame(p) /\ cmd'[p] = Idle /\ cmd'[p].pc = "idle"
BY IdleType DEF End, CmdOK, OthersSame

LEMMA CfgFindFacts ==
  ASSUME CmdOK, NEW p \in Procs, NEW d \in Paths,
         \/ cmd' = [cmd EXCEPT ![p].pc = "load", ![p].at = d]
         \/ cmd' = [cmd EXCEPT ![p].at = d]
  PROVE  /\ CmdOK' /\ OthersSame(p) /\ Same(p) /\ cmd'[p].at = d
         /\ cmd'[p].todo = cmd[p].todo /\ cmd'[p].shown = cmd[p].shown
         /\ cmd'[p].unread = cmd[p].unread
         /\ cmd'[p].pc = "load" \/ cmd'[p].pc = cmd[p].pc
<1>1. cmd[p] \in Cmd
  BY DEF CmdOK
<1>2. CASE cmd' = [cmd EXCEPT ![p].pc = "load", ![p].at = d]
  <2>1. [[cmd[p] EXCEPT !.pc = "load"] EXCEPT !.at = d] \in Cmd
    BY <1>1 DEF Cmd
  <2>2. cmd' = [cmd EXCEPT ![p] = [[cmd[p] EXCEPT !.pc = "load"] EXCEPT !.at = d]]
    BY <1>2 DEF CmdOK
  <2> QED
    BY <1>1, <2>1, <2>2 DEF CmdOK, OthersSame, Same, Cmd
<1>3. CASE cmd' = [cmd EXCEPT ![p].at = d]
  <2>1. [cmd[p] EXCEPT !.at = d] \in Cmd
    BY <1>1 DEF Cmd
  <2>2. cmd' = [cmd EXCEPT ![p] = [cmd[p] EXCEPT !.at = d]]
    BY <1>3 DEF CmdOK
  <2> QED
    BY <1>1, <2>1, <2>2 DEF CmdOK, OthersSame, Same, Cmd
<1> QED
  BY <1>2, <1>3

LEMMA CfgLoadFacts ==
  ASSUME CmdOK, NEW p \in Procs, NEW pc \in Places,
         cmd' = [cmd EXCEPT ![p].pc = pc, ![p].at = Root]
  PROVE  CmdOK' /\ OthersSame(p) /\ Same(p) /\ cmd'[p].pc = pc
<1>1. cmd[p] \in Cmd
  BY DEF CmdOK
<1>2. [[cmd[p] EXCEPT !.pc = pc] EXCEPT !.at = Root] \in Cmd
  BY <1>1, TreeAssumption DEF Cmd, Places
<1>3. cmd' = [cmd EXCEPT ![p] = [[cmd[p] EXCEPT !.pc = pc] EXCEPT !.at = Root]]
  BY DEF CmdOK
<1> QED
  BY <1>1, <1>2, <1>3 DEF CmdOK, OthersSame, Same, Cmd

\* list_dir_r has read a directory, or could not open it
Opened(p, d) ==
  /\ cmd'[p].todo = (cmd[p].todo \ {d}) \cup {n \in Entries(d) : Is(n, Directory)}
  /\ cmd'[p].shown = cmd[p].shown \cup Visible(d) /\ cmd'[p].unread = cmd[p].unread
NotOpened(p, d) ==
  /\ cmd'[p].todo = cmd[p].todo \ {d}
  /\ cmd'[p].shown = cmd[p].shown /\ cmd'[p].unread = cmd[p].unread \cup {d}

LEMMA ListDirFacts ==
  ASSUME CmdOK, NEW p \in Procs, ListDir(p)
  PROVE  /\ CmdOK' /\ OthersSame(p) /\ Same(p) /\ cmd'[p].pc = cmd[p].pc
         /\ \E d \in cmd[p].todo : Opened(p, d) \/ NotOpened(p, d)
<1>1. cmd[p] \in Cmd
  BY DEF CmdOK
<1>2. PICK d \in cmd[p].todo :
        \/ cmd' = [cmd EXCEPT
             ![p].todo = (cmd[p].todo \ {d}) \cup {n \in Entries(d) : Is(n, Directory)},
             ![p].shown = cmd[p].shown \cup Visible(d), ![p].ok = TRUE]
        \/ cmd' = [cmd EXCEPT ![p].todo = cmd[p].todo \ {d},
                              ![p].unread = cmd[p].unread \cup {d}, ![p].ok = FALSE]
  BY DEF ListDir
<1>3. ASSUME NEW todo \in SUBSET Paths, NEW shown \in SUBSET Paths,
             cmd' = [cmd EXCEPT ![p].todo = todo, ![p].shown = shown, ![p].ok = TRUE]
      PROVE  /\ CmdOK' /\ OthersSame(p) /\ Same(p) /\ cmd'[p].pc = cmd[p].pc
             /\ cmd'[p].todo = todo /\ cmd'[p].shown = shown /\ cmd'[p].unread = cmd[p].unread
  <2> DEFINE c == [[[cmd[p] EXCEPT !.todo = todo] EXCEPT !.shown = shown] EXCEPT !.ok = TRUE]
  <2>1. /\ c \in Cmd /\ c.pc = cmd[p].pc /\ c.job = cmd[p].job /\ c.password = cmd[p].password
        /\ c.todo = todo /\ c.shown = shown /\ c.unread = cmd[p].unread
    BY <1>1 DEF Cmd
  <2>2. cmd' = [cmd EXCEPT ![p] = c]
    BY <1>3 DEF CmdOK
  <2> HIDE DEF c
  <2> QED
    BY <1>1, <2>1, <2>2 DEF CmdOK, OthersSame, Same
<1>4. ASSUME NEW todo \in SUBSET Paths, NEW unread \in SUBSET Paths,
             cmd' = [cmd EXCEPT ![p].todo = todo, ![p].unread = unread, ![p].ok = FALSE]
      PROVE  /\ CmdOK' /\ OthersSame(p) /\ Same(p) /\ cmd'[p].pc = cmd[p].pc
             /\ cmd'[p].todo = todo /\ cmd'[p].shown = cmd[p].shown /\ cmd'[p].unread = unread
  <2> DEFINE c == [[[cmd[p] EXCEPT !.todo = todo] EXCEPT !.unread = unread] EXCEPT !.ok = FALSE]
  <2>1. /\ c \in Cmd /\ c.pc = cmd[p].pc /\ c.job = cmd[p].job /\ c.password = cmd[p].password
        /\ c.todo = todo /\ c.unread = unread /\ c.shown = cmd[p].shown
    BY <1>1 DEF Cmd
  <2>2. cmd' = [cmd EXCEPT ![p] = c]
    BY <1>4 DEF CmdOK
  <2> HIDE DEF c
  <2> QED
    BY <1>1, <2>1, <2>2 DEF CmdOK, OthersSame, Same
<1> DEFINE todo == (cmd[p].todo \ {d}) \cup {n \in Entries(d) : Is(n, Directory)}
           shown == cmd[p].shown \cup Visible(d)
           less == cmd[p].todo \ {d}
           unread == cmd[p].unread \cup {d}
<1>5. todo \in SUBSET Paths /\ shown \in SUBSET Paths /\ less \in SUBSET Paths /\ unread \in SUBSET Paths
  BY <1>1 DEF Cmd, Entries, Visible
<1>6. \/ cmd' = [cmd EXCEPT ![p].todo = todo, ![p].shown = shown, ![p].ok = TRUE]
      \/ cmd' = [cmd EXCEPT ![p].todo = less, ![p].unread = unread, ![p].ok = FALSE]
  BY <1>2
<1> HIDE DEF todo, shown, less, unread
<1>7. CASE cmd' = [cmd EXCEPT ![p].todo = todo, ![p].shown = shown, ![p].ok = TRUE]
  BY <1>3, <1>5, <1>7 DEF todo, shown, Opened
<1>8. CASE cmd' = [cmd EXCEPT ![p].todo = less, ![p].unread = unread, ![p].ok = FALSE]
  BY <1>4, <1>5, <1>8 DEF less, unread, NotOpened
<1> QED
  BY <1>6, <1>7, <1>8

LEMMA FirstFacts ==
  ASSUME NEW j \in Jobs
  PROVE  /\ First(j.cmd) \in {"initdir", "find", "read", "list"}
         /\ First(j.cmd) = "initdir" <=> j.cmd = "init"
         /\ First(j.cmd) = "find" <=> j.cmd \in {"create", "edit"}
         /\ First(j.cmd) = "read" <=> j.cmd \in {"cat", "delete", "rename"}
         /\ First(j.cmd) = "list" <=> j.cmd = "list"
BY JobsAssumption DEF First, Commands

\* What Start does to the commands
Starts(p, j, k, at, todo) ==
  cmd' = [cmd EXCEPT ![p] = [Idle EXCEPT !.pc = First(j.cmd), !.job = j, !.password = k,
                                         !.at = at, !.todo = todo]]

LEMMA StartFacts ==
  ASSUME CmdOK, NEW p \in Procs, NEW j \in Jobs, NEW k \in Passwords,
         NEW at \in Paths, NEW todo \in SUBSET Paths, Starts(p, j, k, at, todo)
  PROVE  /\ CmdOK' /\ OthersSame(p)
         /\ cmd'[p].pc = First(j.cmd) /\ cmd'[p].job = j /\ cmd'[p].password = k
         /\ cmd'[p].at = at /\ cmd'[p].todo = todo
         /\ cmd'[p].shown = {} /\ cmd'[p].unread = {}
<1> DEFINE c == [Idle EXCEPT !.pc = First(j.cmd), !.job = j, !.password = k,
                             !.at = at, !.todo = todo]
<1>1. First(j.cmd) \in Places
  BY FirstFacts DEF Places
<1>2. /\ c \in Cmd
      /\ c.pc = First(j.cmd) /\ c.job = j /\ c.password = k
      /\ c.at = at /\ c.todo = todo /\ c.shown = Idle.shown /\ c.unread = Idle.unread
  <2> HIDE DEF c
  <2>1. ASSUME NEW pc \in Places
        PROVE  LET r == [Idle EXCEPT !.pc = pc, !.job = j, !.password = k,
                                     !.at = at, !.todo = todo]
               IN /\ r \in Cmd /\ r.pc = pc /\ r.job = j /\ r.password = k
                  /\ r.at = at /\ r.todo = todo /\ r.shown = Idle.shown /\ r.unread = Idle.unread
    BY IdleType DEF Cmd, Places
  <2> QED
    BY <1>1, <2>1 DEF c
<1>3. cmd' = [cmd EXCEPT ![p] = c]
  BY DEF Starts
<1> HIDE DEF c
<1>4. CmdOK' /\ OthersSame(p) /\ cmd'[p] = c
  BY <1>2, <1>3 DEF CmdOK, OthersSame
<1>5. Idle.shown = {} /\ Idle.unread = {}
  BY DEF Idle
<1> QED
  BY <1>2, <1>4, <1>5

-----------------------------------------------------------------------------
(* The tree keeps its shape                                                 *)

\* What a command can be at, at each of its places
Passes(p) ==
  /\ At(p, "initdir") => Job(p).cmd = "init"
  /\ At(p, "find") => Job(p).cmd \in {"create", "edit"}
  /\ At(p, "load") => Job(p).cmd \in {"create", "edit"}
  /\ At(p, "mkdir") => Job(p).cmd \in {"init", "create", "rename"}
  /\ At(p, "check") => Job(p).cmd \in {"init", "create"}
  /\ At(p, "read") => Job(p).cmd \in {"edit", "cat", "delete", "rename"}
  /\ At(p, "write") => Job(p).cmd \in {"init", "create", "edit"}
  /\ At(p, "unlink") => Job(p).cmd = "delete"
  /\ At(p, "move") => Job(p).cmd = "rename"
  /\ At(p, "list") \/ At(p, "listed") => Job(p).cmd = "list"

\* Only init runs without a workspace, and no command is about to change what is at
\* the root itself.
Rooted(p) ==
  /\ Running(p) /\ Job(p).cmd # "init" => node[Root] = Directory
  /\ \/ At(p, "write") \/ At(p, "unlink") \/ At(p, "move")
     \/ At(p, "mkdir") /\ Job(p).cmd = "rename"
     => Target(p) # Root

TreeInv == NodeOK /\ CmdOK /\ \A p \in Procs : Passes(p) /\ Rooted(p)

DirsStay == \A n \in Paths : node[n] = Directory => node'[n] = Directory

\* What a step of p has to be for TreeInv
StepOK(p) == NodeOK' /\ CmdOK' /\ DirsStay /\ OthersSame(p) /\ (Passes(p) /\ Rooted(p))'

LEMMA ParentOther == \A n \in Paths \ {Root} : Parent[n] \in Paths /\ Parent[n] # n
BY TreeAssumption, AboveEquation, AboveIrreflexive

LEMMA TargetPath ==
  ASSUME CmdOK, NEW p \in Procs
  PROVE  /\ Target(p) \in Paths /\ Wanted(p) \in Paths
         /\ Job(p) \in Jobs /\ Job(p).path \in Paths /\ Job(p).to \in Paths
         /\ Job(p).cmd \in Commands
         /\ Job(p).cmd = "init" =>
              /\ Job(p).path \in Dirs /\ Target(p) = Config[Job(p).path]
              /\ Target(p) # Root /\ Parent[Target(p)] = Job(p).path
         /\ Job(p).cmd # "init" => Target(p) = Job(p).path
<1>1. cmd[p] \in Cmd /\ Job(p) \in Jobs
  BY DEF CmdOK, Cmd, Job
<1>2. /\ Job(p).path \in Paths /\ Job(p).to \in Paths /\ Job(p).cmd \in Commands
      /\ Job(p).cmd = "init" => Job(p).path \in Dirs
  BY <1>1, JobsAssumption
<1> QED
  BY <1>1, <1>2, ConfigAssumption, TreeAssumption DEF Target, Wanted

\* The changes that can be made to the tree: a directory where there is nothing, ...
LEMMA MakeDirectory ==
  ASSUME NodeOK, NEW d \in Paths, node[d] = Nothing,
         d # Root => node[Parent[d]] = Directory, Put(d, Directory)
  PROVE  NodeOK' /\ DirsStay
<1>1. ASSUME NEW n \in Paths \ {Root}, node'[n] # Nothing
      PROVE  node'[Parent[n]] = Directory
  BY <1>1, ParentOther, MarkAssumption DEF NodeOK, Put
<1> QED
  BY <1>1, MarkAssumption DEF NodeOK, Put, DirsStay

\* ... a file where there is no directory, ...
LEMMA WriteFile ==
  ASSUME NodeOK, NEW n \in Paths \ {Root}, node[Parent[n]] = Directory, node[n] # Directory,
         NEW what \in Passwords \cup {Torn}, Put(n, what)
  PROVE  NodeOK' /\ DirsStay
<1>1. ASSUME NEW m \in Paths \ {Root}, node'[m] # Nothing
      PROVE  node'[Parent[m]] = Directory
  BY <1>1, ParentOther, MarkAssumption DEF NodeOK, Put
<1> QED
  BY <1>1, MarkAssumption DEF NodeOK, Put, DirsStay

\* ... and nothing where there is a file
LEMMA RemoveFile ==
  ASSUME NodeOK, NEW n \in Paths, IsFile(n), Put(n, Nothing)
  PROVE  NodeOK' /\ DirsStay
<1>1. ASSUME NEW m \in Paths \ {Root}, node'[m] # Nothing
      PROVE  node'[Parent[m]] = Directory
  BY <1>1, ParentOther, MarkAssumption DEF NodeOK, Put, IsFile
<1> QED
  BY <1>1, MarkAssumption DEF NodeOK, Put, DirsStay, IsFile

LEMMA MoveFile ==
  ASSUME NodeOK, NEW n \in Paths, NEW to \in Paths \ {Root}, n # to, IsFile(n),
         node[to] # Directory, node[Parent[to]] = Directory,
         node' = [node EXCEPT ![to] = node[n], ![n] = Nothing]
  PROVE  NodeOK' /\ DirsStay
<1>1. ASSUME NEW m \in Paths \ {Root}, node'[m] # Nothing
      PROVE  node'[Parent[m]] = Directory
  BY <1>1, ParentOther, MarkAssumption DEF NodeOK, IsFile
<1> QED
  BY <1>1, MarkAssumption DEF NodeOK, DirsStay, IsFile

LEMMA SameTree ==
  ASSUME NodeOK, UNCHANGED node
  PROVE  NodeOK' /\ DirsStay
BY DEF NodeOK, DirsStay

\* A command that ends
LEMMA EndOK ==
  ASSUME TreeInv, NEW p \in Procs, End(p), NodeOK', DirsStay
  PROVE  StepOK(p)
BY EndFacts DEF TreeInv, StepOK, Passes, Rooted, At, Running
\* A command that goes on to another place
LEMMA GotoOK ==
  ASSUME TreeInv, NEW p \in Procs, NEW pc \in Places, Goto(p, pc), pc # "idle",
         NodeOK', DirsStay, Running(p),
         /\ pc = "mkdir" => Job(p).cmd \in {"init", "create", "rename"}
         /\ pc = "check" => Job(p).cmd \in {"init", "create"}
         /\ pc = "write" => Job(p).cmd \in {"init", "create", "edit"}
         /\ pc = "unlink" => Job(p).cmd = "delete"
         /\ pc = "move" => Job(p).cmd = "rename"
         /\ pc = "listed" => Job(p).cmd = "list"
         /\ pc \notin {"initdir", "find", "load", "read", "list"}
         /\ pc \in {"write", "unlink", "move"} => Target(p) # Root
         /\ pc = "mkdir" /\ Job(p).cmd = "rename" => Target(p) # Root
  PROVE  StepOK(p)
<1>1. /\ CmdOK' /\ OthersSame(p) /\ Job(p)' = Job(p)
      /\ cmd'[p].pc = pc
  BY GotoFacts DEF TreeInv, Same, Job
<1>2. Target(p)' = Target(p)
  BY <1>1 DEF Target
<1>3. Passes(p)'
  BY <1>1 DEF Passes, At
<1>4. Rooted(p)'
  <2>1. node[Root] = Directory => node'[Root] = Directory
    BY TreeAssumption DEF DirsStay
  <2> QED
    BY <1>1, <1>2, <2>1 DEF Rooted, At, Running, TreeInv
<1> QED
  BY <1>1, <1>3, <1>4 DEF StepOK

LEMMA StartOK ==
  ASSUME TreeInv, NEW p \in Procs, Start(p)
  PROVE  StepOK(p)
<1>1. PICK j \in Jobs, k \in Passwords :
        /\ j.cmd # "init" => Is(Root, Directory)
        /\ cmd' = [cmd EXCEPT ![p] = [Idle EXCEPT !.pc = First(j.cmd), !.job = j,
                    !.password = k,
                    !.at = IF First(j.cmd) = "find" THEN j.path ELSE Root,
                    !.todo = IF j.cmd = "list" THEN {j.path} ELSE {}]]
  BY DEF Start
<1> DEFINE at == IF First(j.cmd) = "find" THEN j.path ELSE Root
           todo == IF j.cmd = "list" THEN {j.path} ELSE {}
<1>2. j.path \in Paths /\ at \in Paths /\ todo \in SUBSET Paths
  BY JobsAssumption, TreeAssumption
<1>3. /\ CmdOK' /\ OthersSame(p)
      /\ cmd'[p].pc = First(j.cmd) /\ cmd'[p].job = j
  <2>1. Starts(p, j, k, at, todo)
    BY <1>1 DEF Starts
  <2> HIDE DEF at, todo
  <2> QED
    BY <1>2, <2>1, StartFacts DEF TreeInv
<1>4. NodeOK' /\ DirsStay
  BY SameTree DEF Start, TreeInv
<1>5. Passes(p)'
  BY <1>3, FirstFacts DEF Passes, At, Job
<1>6. Rooted(p)'
  <2>1. j.cmd # "init" => node'[Root] = Directory
    BY <1>1, <1>4, TreeAssumption DEF Is, DirsStay
  <2>2. Job(p)'.cmd # "init" => node'[Root] = Directory
    BY <1>3, <2>1 DEF Job
  <2>3. cmd'[p].pc \notin {"write", "unlink", "move", "mkdir"}
    BY <1>3, FirstFacts
  <2> QED
    BY <2>2, <2>3 DEF Rooted, At, Running
<1> QED
  BY <1>3, <1>4, <1>5, <1>6 DEF StepOK

LEMMA InitWorkspaceOK ==
  ASSUME TreeInv, NEW p \in Procs, InitWorkspace(p)
  PROVE  StepOK(p)
<1> DEFINE d == Job(p).path
<1>1. Job(p).cmd = "init" /\ Running(p) /\ d \in Paths
  BY TargetPath DEF InitWorkspace, TreeInv, Passes, At, Running
<1>2. CASE Is(d, Nothing) /\ (d # Root => Is(Parent[d], Directory)) /\ Put(d, Directory)
           /\ Goto(p, "mkdir")
  <2>1. NodeOK' /\ DirsStay
    BY <1>1, <1>2, MakeDirectory DEF TreeInv, Is
  <2> QED
    BY <1>1, <1>2, <2>1, GotoOK DEF Places
<1>3. CASE End(p) /\ UNCHANGED node
  BY <1>3, SameTree, EndOK DEF TreeInv
<1> QED
  BY <1>2, <1>3 DEF InitWorkspace

LEMMA SafeMkdirOK ==
  ASSUME TreeInv, NEW p \in Procs, SafeMkdir(p)
  PROVE  StepOK(p)
<1>1. At(p, "mkdir") /\ Running(p) /\ Passes(p) /\ Rooted(p) /\ CmdOK /\ NodeOK
  BY DEF SafeMkdir, TreeInv, At, Running
<1>2. CASE \E d \in Above[Wanted(p)] :
             Is(d, Nothing) /\ d # Root /\ Is(Parent[d], Directory) /\ Put(d, Directory)
             /\ UNCHANGED cmd
  <2>1. NodeOK' /\ DirsStay
    BY <1>1, <1>2, MakeDirectory, TargetPath, AboveDirs, TreeAssumption DEF Is
  <2>2. UNCHANGED cmd
    BY <1>2
  <2>3. CmdOK' /\ OthersSame(p) /\ Passes(p)'
    BY <1>1, <2>2 DEF CmdOK, OthersSame, Passes, At, Job
  <2>4. Rooted(p)'
    BY <1>1, <2>1, <2>2, TreeAssumption DEF Rooted, DirsStay, Running, At, Job, Target
  <2> QED
    BY <2>1, <2>3, <2>4 DEF StepOK
<1>3. CASE End(p) /\ UNCHANGED node
  BY <1>3, SameTree, EndOK DEF TreeInv
<1>4. CASE Goto(p, IF Job(p).cmd = "rename" THEN "move" ELSE "check") /\ UNCHANGED node
  <2>1. NodeOK' /\ DirsStay
    BY <1>1, <1>4, SameTree
  <2>2. CASE Job(p).cmd = "rename"
    <3>1. Goto(p, "move")
      BY <1>4, <2>2
    <3> QED
      BY <1>1, <2>1, <2>2, <3>1, GotoOK DEF Places, Rooted
  <2>3. CASE Job(p).cmd # "rename"
    <3>1. Goto(p, "check") /\ Job(p).cmd \in {"init", "create"}
      BY <1>1, <1>4, <2>3 DEF Passes
    <3> QED
      BY <1>1, <2>1, <2>3, <3>1, GotoOK DEF Places
  <2> QED
    BY <2>2, <2>3
<1> QED
  BY <1>2, <1>3, <1>4 DEF SafeMkdir

LEMMA FindPath ==
  ASSUME CmdOK, NEW p \in Procs
  PROVE  (IF cmd[p].at = Root THEN Root ELSE Parent[cmd[p].at]) \in Dirs /\ cmd[p].at \in Paths
BY TreeAssumption DEF CmdOK, Cmd

LEMMA CfgFindOK ==
  ASSUME TreeInv, NEW p \in Procs, CfgFind(p)
  PROVE  StepOK(p)
<1> DEFINE d == IF cmd[p].at = Root THEN Root ELSE Parent[cmd[p].at]
<1>1. At(p, "find") /\ Passes(p) /\ Rooted(p) /\ CmdOK /\ NodeOK /\ UNCHANGED node
  BY DEF CfgFind, TreeInv
<1>2. NodeOK' /\ DirsStay
  BY <1>1, SameTree
<1>3. CASE End(p)
  BY <1>2, <1>3, EndOK
<1>4. CASE \/ cmd' = [cmd EXCEPT ![p].pc = "load", ![p].at = d]
           \/ cmd' = [cmd EXCEPT ![p].at = d]
  <2>1. d \in Paths
    BY <1>1, FindPath, TreeAssumption
  <2> HIDE DEF d
  <2>2. /\ CmdOK' /\ OthersSame(p) /\ Same(p)
        /\ cmd'[p].pc = "load" \/ cmd'[p].pc = cmd[p].pc
    BY <1>1, <1>4, <2>1, CfgFindFacts
  <2>3. (Passes(p) /\ Rooted(p))'
    BY <1>1, <2>2 DEF Passes, Rooted, Same, At, Running, Job
  <2> QED
    BY <1>2, <2>2, <2>3 DEF StepOK
<1> QED
  BY <1>3, <1>4 DEF CfgFind

LEMMA CfgLoadOK ==
  ASSUME TreeInv, NEW p \in Procs, CfgLoad(p)
  PROVE  StepOK(p)
<1> DEFINE pc == IF Job(p).cmd = "create" THEN "mkdir" ELSE "read"
<1>1. At(p, "load") /\ Passes(p) /\ Rooted(p) /\ CmdOK /\ NodeOK /\ UNCHANGED node
  BY DEF CfgLoad, TreeInv
<1>2. NodeOK' /\ DirsStay
  BY <1>1, SameTree
<1>3. CASE End(p)
  BY <1>2, <1>3, EndOK
<1>4. CASE cmd' = [cmd EXCEPT ![p].pc = pc, ![p].at = Root]
  <2>1. pc \in Places
    BY DEF Places
  <2>2. /\ pc = "mkdir" \/ pc = "read"
        /\ pc = "mkdir" <=> Job(p).cmd = "create"
    OBVIOUS
  <2> HIDE DEF pc
  <2>3. CmdOK' /\ OthersSame(p) /\ Same(p) /\ cmd'[p].pc = pc
    BY <1>1, <1>4, <2>1, CfgLoadFacts
  <2>4. Passes(p)'
    BY <1>1, <2>2, <2>3 DEF Passes, Same, At, Job
  <2>5. Rooted(p)'
    BY <1>1, <2>2, <2>3 DEF Passes, Rooted, Same, At, Running, Job
  <2> QED
    BY <1>2, <2>3, <2>4, <2>5 DEF StepOK
<1> QED
  BY <1>3, <1>4 DEF CfgLoad

LEMMA CheckOK ==
  ASSUME TreeInv, NEW p \in Procs, Check(p)
  PROVE  StepOK(p)
<1>1. At(p, "check") /\ Running(p) /\ Passes(p) /\ Rooted(p) /\ CmdOK /\ NodeOK /\ UNCHANGED node
  BY DEF Check, TreeInv, At, Running
<1>2. NodeOK' /\ DirsStay
  BY <1>1, SameTree
<1>3. CASE Is(Target(p), Nothing) /\ Goto(p, "write")
  <2>1. Target(p) # Root
    BY <1>1, <1>3, TargetPath, MarkAssumption DEF Rooted, Is
  <2>2. Job(p).cmd \in {"init", "create"}
    BY <1>1 DEF Passes
  <2> QED
    BY <1>1, <1>2, <1>3, <2>1, <2>2, GotoOK DEF Places
<1>4. CASE End(p)
  BY <1>2, <1>4, EndOK
<1> QED
  BY <1>3, <1>4 DEF Check

\* Where a command goes that has opened a safe
LEMMA OpenGoes ==
  ASSUME NEW p \in Procs, At(p, "read"), Passes(p), Open(p)
  PROVE  \/ /\ Is(Target(p), cmd[p].password)
            /\ \/ Job(p).cmd = "edit" /\ Goto(p, "write")
               \/ Job(p).cmd = "delete" /\ Goto(p, "unlink")
               \/ Job(p).cmd = "rename" /\ Goto(p, "mkdir")
         \/ End(p)
<1> DEFINE next == [edit |-> "write", delete |-> "unlink", rename |-> "mkdir"]
<1>1. /\ Job(p).cmd = "edit" => next[Job(p).cmd] = "write"
      /\ Job(p).cmd = "delete" => next[Job(p).cmd] = "unlink"
      /\ Job(p).cmd = "rename" => next[Job(p).cmd] = "mkdir"
  OBVIOUS
<1>2. IF Is(Target(p), cmd[p].password) /\ Job(p).cmd # "cat"
      THEN Goto(p, next[Job(p).cmd]) ELSE End(p)
  BY DEF Open
<1>3. Job(p).cmd \in {"edit", "cat", "delete", "rename"}
  BY DEF Passes
<1> HIDE DEF next
<1> QED
  BY <1>1, <1>2, <1>3

LEMMA OpenOK ==
  ASSUME TreeInv, NEW p \in Procs, Open(p)
  PROVE  StepOK(p)
<1>1. At(p, "read") /\ Running(p) /\ Passes(p) /\ Rooted(p) /\ CmdOK /\ NodeOK /\ UNCHANGED node
  BY DEF Open, TreeInv, At, Running
<1>2. NodeOK' /\ DirsStay
  BY <1>1, SameTree
<1>3. ASSUME Is(Target(p), cmd[p].password), Job(p).cmd \in {"edit", "delete", "rename"}
      PROVE  Target(p) # Root
  <2>1. cmd[p].password \in Passwords
    BY <1>1 DEF CmdOK, Cmd
  <2> QED
    BY <1>1, <1>3, <2>1, MarkAssumption DEF Rooted, Is
<1>4. CASE Is(Target(p), cmd[p].password) /\ Job(p).cmd = "edit" /\ Goto(p, "write")
  BY <1>1, <1>2, <1>3, <1>4, GotoOK DEF Places
<1>5. CASE Is(Target(p), cmd[p].password) /\ Job(p).cmd = "delete" /\ Goto(p, "unlink")
  BY <1>1, <1>2, <1>3, <1>5, GotoOK DEF Places
<1>6. CASE Is(Target(p), cmd[p].password) /\ Job(p).cmd = "rename" /\ Goto(p, "mkdir")
  BY <1>1, <1>2, <1>3, <1>6, GotoOK DEF Places
<1>7. CASE End(p)
  BY <1>2, <1>7, EndOK
<1> QED
  BY <1>1, <1>4, <1>5, <1>6, <1>7, OpenGoes

LEMMA WriteOK ==
  ASSUME TreeInv, NEW p \in Procs, Write(p)
  PROVE  StepOK(p)
<1>1. At(p, "write") /\ Rooted(p) /\ CmdOK /\ NodeOK /\ End(p)
  BY DEF Write, TreeInv
<1>2. CASE /\ Is(Parent[Target(p)], Directory) /\ ~Is(Target(p), Directory)
           /\ \E what \in {cmd[p].password, Torn} : Put(Target(p), what)
  <2>1. Target(p) \in Paths \ {Root}
    BY <1>1, TargetPath DEF Rooted
  <2>2. cmd[p].password \in Passwords
    BY <1>1 DEF CmdOK, Cmd
  <2>3. NodeOK' /\ DirsStay
    BY <1>1, <1>2, <2>1, <2>2, WriteFile DEF Is
  <2> QED
    BY <1>1, <2>3, EndOK
<1>3. CASE UNCHANGED node
  BY <1>1, <1>3, SameTree, EndOK
<1> QED
  BY <1>2, <1>3 DEF Write

LEMMA UnlinkOK ==
  ASSUME TreeInv, NEW p \in Procs, Unlink(p)
  PROVE  StepOK(p)
<1>1. CmdOK /\ NodeOK /\ End(p)
  BY DEF Unlink, TreeInv
<1>2. CASE IsFile(Target(p)) /\ Put(Target(p), Nothing)
  BY <1>1, <1>2, TargetPath, RemoveFile, EndOK
<1>3. CASE UNCHANGED node
  BY <1>1, <1>3, SameTree, EndOK
<1> QED
  BY <1>2, <1>3 DEF Unlink

LEMMA MoveOK ==
  ASSUME TreeInv, NEW p \in Procs, Move(p)
  PROVE  StepOK(p)
<1> DEFINE j == Job(p)
<1>1. At(p, "move") /\ Passes(p) /\ Rooted(p) /\ CmdOK /\ NodeOK /\ End(p)
  BY DEF Move, TreeInv
<1>2. CASE /\ IsFile(j.path) /\ ~Is(j.to, Directory) /\ Is(Parent[j.to], Directory)
           /\ j.path # j.to
           /\ node' = [node EXCEPT ![j.to] = node[j.path], ![j.path] = Nothing]
  <2>1. node[Root] = Directory
    BY <1>1 DEF Passes, Rooted, Running, At
  <2>2. j.path \in Paths /\ j.to \in Paths \ {Root}
    BY <1>1, <1>2, <2>1, TargetPath DEF Is
  <2>3. NodeOK' /\ DirsStay
    BY <1>1, <1>2, <2>2, MoveFile DEF Is
  <2> QED
    BY <1>1, <2>3, EndOK
<1>3. CASE UNCHANGED node
  BY <1>1, <1>3, SameTree, EndOK
<1> QED
  BY <1>2, <1>3 DEF Move

LEMMA ListDirOK ==
  ASSUME TreeInv, NEW p \in Procs, ListDir(p)
  PROVE  StepOK(p)
<1>1. At(p, "list") /\ Passes(p) /\ Rooted(p) /\ CmdOK /\ NodeOK /\ UNCHANGED node
  BY DEF ListDir, TreeInv
<1>2. NodeOK' /\ DirsStay
  BY <1>1, SameTree
<1>3. CmdOK' /\ OthersSame(p) /\ Same(p) /\ cmd'[p].pc = cmd[p].pc
  BY <1>1, ListDirFacts
<1>4. (Passes(p) /\ Rooted(p))'
  BY <1>1, <1>3 DEF Passes, Rooted, Same, At, Running, Job
<1> QED
  BY <1>2, <1>3, <1>4 DEF StepOK

LEMMA ListEndsOK ==
  ASSUME TreeInv, NEW p \in Procs, ListEnds(p)
  PROVE  StepOK(p)
<1>1. At(p, "list") /\ Running(p) /\ Passes(p) /\ Rooted(p) /\ CmdOK /\ NodeOK
      /\ UNCHANGED node /\ (Goto(p, "listed") \/ End(p))
  BY DEF ListEnds, TreeInv, At, Running
<1>2. Job(p).cmd = "list"
  BY <1>1 DEF Passes
<1> QED
  BY <1>1, <1>2, SameTree, GotoOK, EndOK DEF Places

LEMMA StepKeepsTree ==
  ASSUME TreeInv, NEW p \in Procs, Start(p) \/ Works(p) \/ Fails(p)
  PROVE  StepOK(p)
<1>1. CASE ListExit(p) \/ Fails(p)
  BY <1>1, SameTree, EndOK DEF ListExit, Fails, TreeInv
<1> QED
  BY <1>1, StartOK, InitWorkspaceOK, SafeMkdirOK, CfgFindOK, CfgLoadOK, CheckOK, OpenOK,
     WriteOK, UnlinkOK, MoveOK, ListDirOK, ListEndsOK DEF Works

LEMMA StepOthers ==
  ASSUME TreeInv, NEW p \in Procs, StepOK(p)
  PROVE  TreeInv'
<1>1. ASSUME NEW q \in Procs, q # p
      PROVE  (Passes(q) /\ Rooted(q))'
  <2>1. cmd'[q] = cmd[q] /\ (node[Root] = Directory => node'[Root] = Directory)
    BY <1>1, TreeAssumption DEF StepOK, OthersSame, DirsStay
  <2> QED
    BY <2>1 DEF TreeInv, Passes, Rooted, At, Running, Job, Target
<1> QED
  BY <1>1 DEF StepOK, TreeInv

LEMMA TreeInit == WorkspaceInit => TreeInv
<1> SUFFICES ASSUME WorkspaceInit PROVE TreeInv
  OBVIOUS
<1>1. NodeOK /\ CmdOK
  BY IdleType, MarkAssumption DEF WorkspaceInit, NodeOK, CmdOK
<1>2. ASSUME NEW p \in Procs PROVE Passes(p) /\ Rooted(p)
  BY IdleType DEF WorkspaceInit, Passes, Rooted, At, Running
<1> QED
  BY <1>1, <1>2 DEF TreeInv

LEMMA TreeNext == TreeInv /\ [WorkspaceNext]_workspaceVars => TreeInv'
<1> SUFFICES ASSUME TreeInv, [WorkspaceNext]_workspaceVars PROVE TreeInv'
  OBVIOUS
<1>1. CASE UNCHANGED workspaceVars
  BY <1>1 DEF workspaceVars, TreeInv, NodeOK, CmdOK, Passes, Rooted, At, Running, Job, Target
<1>2. CASE WorkspaceNext
  BY <1>2, StepKeepsTree, StepOthers DEF WorkspaceNext
<1> QED
  BY <1>1, <1>2
\* Every step adds to the two histories what it should.
HistoryOK == raced \in BOOLEAN /\ lasting \in [Procs -> SUBSET Paths]

LEMMA HistoryNext ==
  ASSUME TreeInv, HistoryOK, [WorkspaceNext]_workspaceVars
  PROVE  HistoryOK'
<1>1. CASE UNCHANGED workspaceVars
  BY <1>1 DEF workspaceVars, HistoryOK
<1>2. CASE WorkspaceNext
  <2>1. lasting' \in [Procs -> SUBSET Paths]
    BY <1>2 DEF WorkspaceNext, History, HistoryOK, Files
  <2>2. PICK p \in Procs : Start(p) \/ Works(p) \/ (Fails(p) /\ UNCHANGED raced)
    BY <1>2 DEF WorkspaceNext
  <2>3. CASE Start(p)
    <3>1. \E j \in Jobs : raced' = (raced \/ \E q \in Procs \ {p} :
                      Running(q) /\ (j.cmd = "init" \/ Job(q).cmd = "init"))
      BY <2>3 DEF Start
    <3>2. raced' \in BOOLEAN
      BY <3>1, Zenon
    <3> QED
      BY <2>1, <3>2 DEF HistoryOK
  <2>4. CASE UNCHANGED raced
    BY <2>1, <2>4 DEF HistoryOK
  <2> QED
    BY <2>2, <2>3, <2>4 DEF Works
<1> QED
  BY <1>1, <1>2

TypesInv == TreeInv /\ HistoryOK

LEMMA TypesInit == WorkspaceInit => TypesInv
BY TreeInit DEF TypesInv, HistoryOK, WorkspaceInit

\* The variables keep their types, and the tree of a workspace never has a hole, however
\* many commands make, write, move and remove things in it at a time: what has a path
\* is in a directory.
THEOREM WorkspaceTypes == WorkspaceSpec => []WorkspaceTypeOK
<1>1. WorkspaceInit => TypesInv
  BY TypesInit
<1>2. TypesInv /\ [WorkspaceNext]_workspaceVars => TypesInv'
  BY TreeNext, HistoryNext DEF TypesInv
<1>3. TypesInv => WorkspaceTypeOK
  BY DEF TypesInv, TreeInv, HistoryOK, NodeOK, CmdOK, WorkspaceTypeOK
<1> QED
  BY <1>1, <1>2, <1>3, PTL DEF WorkspaceSpec

-----------------------------------------------------------------------------
(* list                                                                     *)

\* The safes that a command may show
Here(p) == {n \in Paths \ Configs : Job(p).path \in Above[n]}

\* While a list runs, each safe that has been there since it began has been found, or is
\* below a directory that is still to be read or could not be opened.
Finds(p) ==
  At(p, "list") \/ At(p, "listed") =>
    /\ cmd[p].shown \subseteq Here(p)
    /\ \A d \in cmd[p].todo : d = Job(p).path \/ Job(p).path \in Above[d]
    /\ lasting[p] \subseteq Files
    /\ \A n \in lasting[p] \cap Here(p) :
         n \in cmd[p].shown \/ \E d \in cmd[p].todo \cup cmd[p].unread : d \in Above[n]
    /\ At(p, "listed") => cmd[p].todo = {}

ListInv == TypesInv /\ \A p \in Procs : Finds(p)

\* Everything above what there is is a directory.
LEMMA NoHoles ==
  ASSUME NodeOK
  PROVE  \A n \in Paths : node[n] # Nothing => \A d \in Above[n] : node[d] = Directory
<1> DEFINE S == {n \in Paths : node[n] # Nothing => \A d \in Above[n] : node[d] = Directory}
<1>1. Root \in S
  BY AboveEquation, TreeAssumption
<1>2. ASSUME NEW n \in Paths \ {Root}, Parent[n] \in S
      PROVE  n \in S
  BY <1>2, AboveEquation, MarkAssumption DEF NodeOK
<1>3. S \in SUBSET Paths
  OBVIOUS
<1> HIDE DEF S
<1>4. S = Paths
  BY <1>1, <1>2, <1>3, PathInduction
<1> QED
  BY <1>4 DEF S

\* What was found stays found while another command takes a step.
LEMMA FindsOther ==
  ASSUME ListInv, NEW p \in Procs, NEW q \in Procs, cmd'[q] = cmd[q], History
  PROVE  Finds(q)'
<1>1. Here(q)' = Here(q) /\ Job(q)' = Job(q)
  BY DEF Here, Job
<1>2. At(q, "list") \/ At(q, "listed") => lasting'[q] = lasting[q] \cap Files'
  BY DEF History, At
<1> QED
  BY <1>1, <1>2 DEF ListInv, Finds, At

\* A list begins with nothing found, and the directory asked about to read.
LEMMA FindsStart ==
  ASSUME ListInv, NEW p \in Procs, Start(p), History
  PROVE  Finds(p)'
<1>1. PICK j \in Jobs, k \in Passwords :
        cmd' = [cmd EXCEPT ![p] = [Idle EXCEPT !.pc = First(j.cmd), !.job = j,
                    !.password = k,
                    !.at = IF First(j.cmd) = "find" THEN j.path ELSE Root,
                    !.todo = IF j.cmd = "list" THEN {j.path} ELSE {}]]
  BY DEF Start
<1> DEFINE at == IF First(j.cmd) = "find" THEN j.path ELSE Root
           todo == IF j.cmd = "list" THEN {j.path} ELSE {}
<1>2. j.path \in Paths /\ at \in Paths /\ todo \in SUBSET Paths
  BY JobsAssumption, TreeAssumption
<1>3. /\ cmd'[p].pc = First(j.cmd) /\ cmd'[p].job = j
      /\ cmd'[p].shown = {} /\ cmd'[p].unread = {} /\ cmd'[p].todo = todo
  <2>1. Starts(p, j, k, at, todo)
    BY <1>1 DEF Starts
  <2> HIDE DEF at, todo
  <2> QED
    BY <1>2, <2>1, StartFacts DEF ListInv, TypesInv, TreeInv
<1>4. CASE j.cmd = "list"
  <2>1. lasting'[p] = Files /\ Files' = Files /\ todo = {j.path}
    BY <1>3, <1>4, FirstFacts DEF History, Start, At, Files, IsFile
  <2>2. Here(p)' = {n \in Paths \ Configs : j.path \in Above[n]}
    BY <1>3 DEF Here, Job
  <2> QED
    BY <1>3, <1>4, <2>1, <2>2, FirstFacts DEF Finds, At, Job
<1>5. CASE j.cmd # "list"
  BY <1>3, <1>5, FirstFacts DEF Finds, At
<1> QED
  BY <1>4, <1>5

\* Reading a directory passes on what is below it to the directories in it.
LEMMA FindsListDir ==
  ASSUME ListInv, NEW p \in Procs, ListDir(p), History
  PROVE  Finds(p)'
<1>1. cmd[p] \in Cmd /\ CmdOK /\ NodeOK /\ At(p, "list") /\ UNCHANGED node
  BY DEF ListInv, TypesInv, TreeInv, CmdOK, ListDir
<1>2. PICK d \in cmd[p].todo : Opened(p, d) \/ NotOpened(p, d)
  BY <1>1, ListDirFacts
<1>3. d \in Paths /\ Job(p).path \in Paths
  BY <1>1, TargetPath DEF Cmd
<1>4. cmd'[p].pc = "list" /\ Job(p)' = Job(p)
  BY <1>1, ListDirFacts DEF Same, Job, At
<1>5. Here(p)' = Here(p)
  BY <1>4 DEF Here
<1>6. lasting'[p] = lasting[p] \cap Files /\ lasting[p] \subseteq Files /\ Files' = Files
  BY <1>1, <1>4 DEF History, At, ListInv, Finds, Files, IsFile
<1>7. Finds(p)
  BY DEF ListInv
<1>8. d = Job(p).path \/ Job(p).path \in Above[d]
  BY <1>1, <1>7 DEF Finds
<1>9. \A n \in Entries(d) : n \in Paths \ {Root} /\ d \in Above[n] /\ Job(p).path \in Above[n]
  BY <1>3, <1>8, AboveEquation DEF Entries
<1>10. CASE Opened(p, d)
  <2> DEFINE todo == (cmd[p].todo \ {d}) \cup {n \in Entries(d) : Is(n, Directory)}
             shown == cmd[p].shown \cup Visible(d)
  <2>1. shown \subseteq Here(p)
    BY <1>1, <1>7, <1>9 DEF Finds, Visible, Here
  <2>2. \A e \in todo : e = Job(p).path \/ Job(p).path \in Above[e]
    BY <1>1, <1>7, <1>9 DEF Finds
  <2>3. ASSUME NEW n \in lasting'[p] \cap Here(p)
        PROVE  n \in shown \/ \E e \in todo \cup cmd[p].unread : e \in Above[n]
    <3>1. n \in lasting[p] \cap Here(p) /\ n \in Files /\ n \in Paths \ Configs
      BY <1>6, <2>3 DEF Here
    <3>2. CASE d \in Above[n]
      <4>1. CASE Parent[n] = d
        BY <3>1, <3>2, <4>1, AboveStep DEF Visible, Entries, Files
      <4>2. CASE \E e \in Above[n] : e # Root /\ Parent[e] = d
        <5>1. PICK e \in Above[n] : e # Root /\ Parent[e] = d
          BY <4>2
        <5>2. node[e] = Directory
          BY <1>1, <3>1, NoHoles DEF Files, IsFile
        <5>3. e \in Paths
          BY <3>1, AboveDirs, TreeAssumption
        <5> QED
          BY <5>1, <5>2, <5>3 DEF Entries, Is
      <4> QED
        BY <3>1, <3>2, <4>1, <4>2, AboveStep
    <3>3. CASE d \notin Above[n]
      BY <1>1, <1>7, <3>1, <3>3 DEF Finds
    <3> QED
      BY <3>2, <3>3
  <2>4. cmd'[p].todo = todo /\ cmd'[p].shown = shown /\ cmd'[p].unread = cmd[p].unread
    BY <1>10 DEF Opened
  <2> HIDE DEF todo, shown
  <2> QED
    BY <1>4, <1>5, <1>6, <2>1, <2>2, <2>3, <2>4 DEF Finds, At
<1>11. CASE NotOpened(p, d)
  <2>1. ASSUME NEW n \in lasting'[p] \cap Here(p)
        PROVE  n \in cmd[p].shown
                 \/ \E e \in (cmd[p].todo \ {d}) \cup (cmd[p].unread \cup {d}) : e \in Above[n]
    BY <1>1, <1>6, <1>7, <2>1 DEF Finds
  <2> QED
    BY <1>1, <1>4, <1>5, <1>6, <1>7, <1>11, <2>1 DEF Finds, NotOpened, At
<1> QED
  BY <1>2, <1>10, <1>11

LEMMA FindsListEnds ==
  ASSUME ListInv, NEW p \in Procs, ListEnds(p), History
  PROVE  Finds(p)'
<1>1. /\ CmdOK /\ At(p, "list") /\ UNCHANGED node /\ (Goto(p, "listed") \/ End(p))
      /\ cmd[p].todo = {} /\ Finds(p)
  BY DEF ListInv, TypesInv, TreeInv, ListEnds
<1>2. CASE Goto(p, "listed")
  <2>1. /\ cmd'[p].pc = "listed" /\ Job(p)' = Job(p) /\ cmd'[p].unread = cmd[p].unread
        /\ cmd'[p].todo = cmd[p].todo /\ cmd'[p].shown = cmd[p].shown
    BY <1>1, <1>2, GotoFacts DEF Places, Same, Job
  <2>2. Here(p)' = Here(p)
    BY <2>1 DEF Here
  <2>3. lasting'[p] = lasting[p] \cap Files /\ Files' = Files
    BY <1>1, <2>1 DEF History, At, Files, IsFile
  <2> QED
    BY <1>1, <2>1, <2>2, <2>3 DEF Finds, At
<1>3. CASE End(p)
  BY <1>1, <1>3, EndFacts DEF Finds, At
<1> QED
  BY <1>1, <1>2, <1>3

\* All other steps of a command are no steps of a list.
LEMMA FindsElse ==
  ASSUME ListInv, NEW p \in Procs, Works(p) \/ Fails(p), ~ListDir(p), ~ListEnds(p)
  PROVE  Finds(p)'
<1>1. CmdOK
  BY DEF ListInv, TypesInv, TreeInv
<1>2. ASSUME NEW pc \in Places \ {"list", "listed"}, Goto(p, pc)
      PROVE  Finds(p)'
  BY <1>1, <1>2, GotoFacts DEF Finds, At
<1>3. ASSUME End(p)
      PROVE  Finds(p)'
  BY <1>1, <1>3, EndFacts DEF Finds, At
<1>4. CASE InitWorkspace(p)
  BY <1>2, <1>3, <1>4 DEF InitWorkspace, Places
<1>5. CASE SafeMkdir(p)
  <2>1. CASE Goto(p, "move") \/ Goto(p, "check")
    BY <1>2, <2>1 DEF Places
  <2>2. CASE UNCHANGED cmd
    BY <1>5, <2>2 DEF SafeMkdir, Finds, At
  <2> QED
    BY <1>3, <1>5, <2>1, <2>2 DEF SafeMkdir
<1>6. CASE CfgFind(p)
  <2>1. (IF cmd[p].at = Root THEN Root ELSE Parent[cmd[p].at]) \in Paths
    BY <1>1, FindPath, TreeAssumption
  <2>2. CASE cmd'[p].pc = "load" \/ cmd'[p].pc = cmd[p].pc
    BY <1>6, <2>2 DEF CfgFind, Finds, At
  <2> QED
    BY <1>1, <1>3, <1>6, <2>1, <2>2, CfgFindFacts DEF CfgFind
<1>7. CASE CfgLoad(p)
  <2> DEFINE pc == IF Job(p).cmd = "create" THEN "mkdir" ELSE "read"
  <2>1. pc \in Places /\ pc \notin {"list", "listed"}
    BY DEF Places
  <2>2. CASE cmd' = [cmd EXCEPT ![p].pc = pc, ![p].at = Root]
    <3> HIDE DEF pc
    <3>1. cmd'[p].pc = pc
      BY <1>1, <2>1, <2>2, CfgLoadFacts
    <3> QED
      BY <2>1, <3>1 DEF Finds, At
  <2> QED
    BY <1>3, <1>7, <2>2 DEF CfgLoad
<1>8. CASE Check(p)
  BY <1>2, <1>3, <1>8 DEF Check, Places
<1>9. CASE Open(p)
  <2>1. At(p, "read") /\ Passes(p)
    BY <1>9 DEF Open, ListInv, TypesInv, TreeInv
  <2> QED
    BY <1>2, <1>3, <1>9, <2>1, OpenGoes DEF Places
<1> QED
  BY <1>3, <1>4, <1>5, <1>6, <1>7, <1>8, <1>9
     DEF Works, Write, Unlink, Move, ListExit, Fails

LEMMA ListNext == ListInv /\ [WorkspaceNext]_workspaceVars => ListInv'
<1> SUFFICES ASSUME ListInv, [WorkspaceNext]_workspaceVars PROVE ListInv'
  OBVIOUS
<1>1. TypesInv'
  BY TreeNext, HistoryNext DEF ListInv, TypesInv
<1>2. CASE UNCHANGED workspaceVars
  BY <1>1, <1>2 DEF workspaceVars, ListInv, Finds, Here, At, Job, Files, IsFile
<1>3. CASE WorkspaceNext
  <2>1. PICK p \in Procs : Start(p) \/ Works(p) \/ Fails(p)
    BY <1>3 DEF WorkspaceNext
  <2>2. History
    BY <1>3 DEF WorkspaceNext
  <2>3. OthersSame(p)
    BY <2>1, StepKeepsTree DEF ListInv, TypesInv, StepOK
  <2>4. \A q \in Procs \ {p} : Finds(q)'
    BY <2>2, <2>3, FindsOther DEF OthersSame
  <2>5. Finds(p)'
    BY <2>1, <2>2, FindsStart, FindsListDir, FindsListEnds, FindsElse
  <2> QED
    BY <1>1, <2>4, <2>5 DEF ListInv
<1> QED
  BY <1>2, <1>3

\* A list that is printed shows every safe that was there from its start to its end
\* and is not below a directory that could not be opened, and nothing from outside the
\* directory it was asked about, for any tree and however the other commands change it
\* while list_dir_r reads one directory after the other.
THEOREM ListIsTruthful == WorkspaceSpec => []ListTruthful
<1>1. WorkspaceInit => ListInv
  BY TypesInit, IdleType DEF ListInv, WorkspaceInit, Finds, At
<1>2. ListInv /\ [WorkspaceNext]_workspaceVars => ListInv'
  BY ListNext
<1>3. ListInv => ListTruthful
  BY DEF ListInv, ListTruthful, Finds, Here
<1> QED
  BY <1>1, <1>2, <1>3, PTL DEF WorkspaceSpec
-----------------------------------------------------------------------------
(* Who knows the password of a workspace                                    *)

Configured(d) == node[Config[d]] # Nothing

\* k is the key of a workspace that n is in, and of the innermost one unless an init
\* has overlapped another command.
Keyed(key, n, k) ==
  \E d \in Above[n] :
    /\ Configured(d) /\ key[d] = k
    /\ ~raced => \A e \in Above[n] : Configured(e) => e \in Above[d] \cup {d}

\* A .config has the key of its workspace, and so has every safe.
ConfigsKeyed(key) == \A d \in Dirs : node[Config[d]] \in {Nothing, Torn, key[d]}
FilesKeyed(key)   == \A n \in Paths \ Configs : Whole(n) => Keyed(key, n, node[n])

\* An init that has made its directory is the only one to write the .config there.
InitPast(p) == cmd[p].pc \in {"mkdir", "check", "write"} /\ Job(p).cmd = "init"
Making(key, p) ==
  InitPast(p) =>
    /\ key[Job(p).path] = cmd[p].password
    /\ ~Configured(Job(p).path) /\ node[Job(p).path] = Directory
    /\ ~raced => \A n \in Paths : Job(p).path \in Above[n] => node[n] = Nothing
Apart ==
  \A p, q \in Procs : p # q /\ InitPast(p) /\ InitPast(q) => Job(p).path # Job(q).path
InitAlone ==
  ~raced => \A p, q \in Procs : p # q /\ Running(p) /\ Job(p).cmd = "init" => ~Running(q)

\* A command about to change a file has the password for it.
EditsConfig(key, p) ==
  \A d \in Dirs : At(p, "write") /\ Job(p).cmd = "edit" /\ Job(p).path = Config[d] =>
    Configured(d) /\ key[d] = cmd[p].password
Holds(p) ==
  /\ cmd[p].pc \in {"mkdir", "check", "write", "unlink", "move"}
  /\ Job(p).cmd # "init" /\ Job(p).path \notin Configs /\ Job(p).path # Root
Knows(key, p) == Holds(p) => Keyed(key, Job(p).path, cmd[p].password)

\* kp_cfg_find passes no .config by.
Searches(p) ==
  LET path == Job(p).path
      at   == cmd[p].at
  IN /\ At(p, "find") =>
          /\ at \in {path} \cup Above[path]
          /\ ~raced => \A e \in Above[path] : Configured(e) => e \in Above[at]
     /\ At(p, "load") /\ path # Root =>
          /\ at \in Above[path]
          /\ ~raced => \A e \in Above[path] : Configured(e) => e \in Above[at] \cup {at}

Own(key, p) == Making(key, p) /\ EditsConfig(key, p) /\ Knows(key, p) /\ Searches(p)

Keys(key) ==
  /\ ConfigsKeyed(key) /\ FilesKeyed(key) /\ Apart /\ InitAlone
  /\ \A p \in Procs : Own(key, p)

\* For each directory there is the password its .config has, had before it was torn, or
\* will have.
KeyInv == \E key \in [Dirs -> Passwords] : Keys(key)

\* Two directories are not above each other.
LEMMA AboveOneWay ==
  ASSUME NEW d \in Paths, NEW e \in Paths, d \in Above[e] \cup {e}, e \in Above[d] \cup {d}
  PROVE  d = e
BY AboveTransitive, AboveIrreflexive

\* Two .configs are not in one directory.
LEMMA ConfigPaths ==
  \A d \in Dirs : /\ Config[d] \in Paths \ Dirs /\ Config[d] # Root /\ Parent[Config[d]] = d
                  /\ \A e \in Dirs : Config[e] = Config[d] => e = d
BY ConfigAssumption, TreeAssumption

\* A safe has one key.
LEMMA OneKey ==
  ASSUME NEW key \in [Dirs -> Passwords], NEW n \in Paths, NEW k, NEW l,
         ~raced, Keyed(key, n, k), Keyed(key, n, l)
  PROVE  k = l
<1>1. PICK d \in Above[n] : /\ Configured(d) /\ key[d] = k
                            /\ \A e \in Above[n] : Configured(e) => e \in Above[d] \cup {d}
  BY DEF Keyed
<1>2. PICK e \in Above[n] : /\ Configured(e) /\ key[e] = l
                            /\ \A f \in Above[n] : Configured(f) => f \in Above[e] \cup {e}
  BY DEF Keyed
<1>3. d \in Paths /\ e \in Paths
  BY AboveDirs, TreeAssumption
<1>4. d \in Above[e] \cup {e} /\ e \in Above[d] \cup {d}
  BY <1>1, <1>2
<1> QED
  BY <1>1, <1>2, <1>3, <1>4, AboveOneWay

\* A safe keeps its key when the .configs above it stay and, unless an init has raced,
\* no new one comes.
LEMMA KeyedStays ==
  ASSUME NEW key \in [Dirs -> Passwords], NEW n \in Paths, NEW k, Keyed(key, n, k),
         raced => raced', \A d \in Dirs : Configured(d) => Configured(d)',
         ~raced' => \A e \in Above[n] : Configured(e)' => Configured(e)
  PROVE  Keyed(key, n, k)'
<1>1. PICK d \in Above[n] :
        /\ Configured(d) /\ key[d] = k
        /\ ~raced => \A e \in Above[n] : Configured(e) => e \in Above[d] \cup {d}
  BY DEF Keyed
<1>2. d \in Dirs
  BY AboveDirs
<1>3. Configured(d)'
  BY <1>1, <1>2
<1>4. ~raced' => \A e \in Above[n] : Configured(e)' => e \in Above[d] \cup {d}
  BY <1>1
<1> QED
  BY <1>1, <1>3, <1>4 DEF Keyed

\* An init gives a directory its key before there is a .config in it.
LEMMA NewKey ==
  ASSUME TreeInv, NEW key \in [Dirs -> Passwords], Keys(key), NEW d \in Dirs, NEW k \in Passwords,
         ~Configured(d), \A q \in Procs : InitPast(q) => Job(q).path # d
  PROVE  Keys([key EXCEPT ![d] = k])
<1> DEFINE new == [key EXCEPT ![d] = k]
<1>1. \A e \in Dirs : e # d => new[e] = key[e]
  OBVIOUS
<1>2. ASSUME NEW n \in Paths, NEW l, Keyed(key, n, l)
      PROVE  Keyed(new, n, l)
  <2>1. PICK e \in Above[n] :
          /\ Configured(e) /\ key[e] = l
          /\ ~raced => \A f \in Above[n] : Configured(f) => f \in Above[e] \cup {e}
    BY <1>2 DEF Keyed
  <2>2. new[e] = l
    BY <1>1, <2>1, AboveDirs
  <2> HIDE DEF new
  <2> QED
    BY <2>1, <2>2 DEF Keyed
<1> HIDE DEF new
<1>3. ConfigsKeyed(new)
  BY <1>1 DEF Keys, ConfigsKeyed, Configured
<1>4. FilesKeyed(new)
  BY <1>2 DEF Keys, FilesKeyed
<1>5. ASSUME NEW p \in Procs
      PROVE  Own(new, p)
  <2>1. Own(key, p) /\ Job(p).path \in Paths /\ (Job(p).cmd = "init" => Job(p).path \in Dirs)
    BY TargetPath DEF Keys, TreeInv
  <2>2. Making(new, p)
    BY <1>1, <2>1 DEF Own, Making, InitPast
  <2>3. EditsConfig(new, p)
    BY <1>1, <2>1 DEF Own, EditsConfig
  <2>4. Knows(new, p)
    BY <1>2, <2>1 DEF Own, Knows
  <2> QED
    BY <2>1, <2>2, <2>3, <2>4 DEF Own
<1> QED
  BY <1>3, <1>4, <1>5 DEF Keys, new

\* What is true of a command stays true when another one takes a step that makes no
\* .config, or the .config of an init.
LEMMA OthersKeep ==
  ASSUME TreeInv, NEW key \in [Dirs -> Passwords], Keys(key), NEW p \in Procs, StepOK(p),
         raced => raced', UNCHANGED node \/ Running(p),
         \A d \in Dirs : Configured(d) => Configured(d)',
         \/ \A d \in Dirs : Configured(d)' => Configured(d)
         \/ /\ InitPast(p)
            /\ \A d \in Dirs : Configured(d)' => Configured(d) \/ d = Job(p).path
  PROVE  \A q \in Procs \ {p} : Own(key, q)'
<1> TAKE q \in Procs \ {p}
<1>1. /\ cmd'[q] = cmd[q] /\ Job(q)' = Job(q) /\ Holds(q)' = Holds(q)
      /\ InitPast(q)' = InitPast(q)
      /\ Own(key, q) /\ Job(q).path \in Paths /\ (Job(q).cmd = "init" => Job(q).path \in Dirs)
  <2>1. cmd'[q] = cmd[q]
    BY DEF StepOK, OthersSame
  <2> QED
    BY <2>1, TargetPath DEF Keys, TreeInv, Job, Holds, InitPast
<1>2. ~raced' => (\A d \in Dirs : Configured(d)' => Configured(d)) \/ ~Running(q)
  BY DEF Keys, InitAlone, InitPast, Running, At
<1>3. Making(key, q)'
  <2>1. CASE InitPast(q)
    <3>1. /\ key[Job(q).path] = cmd[q].password /\ Job(q).path \in Dirs
          /\ ~Configured(Job(q).path) /\ node[Job(q).path] = Directory
          /\ ~raced => \A n \in Paths : Job(q).path \in Above[n] => node[n] = Nothing
      BY <1>1, <2>1 DEF Own, Making, InitPast
    <3>2. ~Configured(Job(q).path)'
      <4>1. InitPast(p) => Job(p).path # Job(q).path
        BY <2>1 DEF Keys, Apart
      <4>2. ASSUME NEW d \in Dirs, d = Job(q).path PROVE ~Configured(d)'
        BY <3>1, <4>1, <4>2
      <4> QED
        BY <1>1, <3>1, <4>2
    <3>3. node'[Job(q).path] = Directory
      BY <1>1, <3>1 DEF StepOK, DirsStay
    <3>4. ~raced' => UNCHANGED node
      BY <2>1 DEF Keys, InitAlone, InitPast, Running, At
    <3>5. ~raced' => \A n \in Paths : Job(q).path \in Above[n] => node'[n] = Nothing
      BY <3>1, <3>4
    <3> QED
      BY <1>1, <3>1, <3>2, <3>3, <3>5 DEF Making
  <2>2. CASE ~InitPast(q)
    BY <1>1, <2>2 DEF Making
  <2> QED
    BY <2>1, <2>2
<1>4. EditsConfig(key, q)'
  BY <1>1 DEF Own, EditsConfig, At
<1>5. Knows(key, q)'
  <2>1. CASE Holds(q)
    <3>1. ~raced' => \A e \in Above[Job(q).path] : Configured(e)' => Configured(e)
      BY <1>1, <1>2, <2>1, AboveDirs DEF Holds, Running, At
    <3>2. Keyed(key, Job(q).path, cmd[q].password)
      BY <1>1, <2>1 DEF Own, Knows
    <3>3. ASSUME NEW n \in Paths, n = Job(q).path, NEW k, k = cmd[q].password
          PROVE  Keyed(key, n, k)'
      BY <3>1, <3>2, <3>3, KeyedStays
    <3> QED
      BY <1>1, <3>3 DEF Knows
  <2> QED
    BY <1>1, <2>1 DEF Knows
<1>6. Searches(q)'
  <2>1. At(q, "find") \/ At(q, "load") => Running(q)
    BY DEF At, Running
  <2>2. ~raced' /\ Running(q) =>
          ~raced /\ \A e \in Above[Job(q).path] : Configured(e)' => Configured(e)
    BY <1>1, <1>2, AboveDirs
  <2> QED
    BY <1>1, <2>1, <2>2 DEF Own, Searches, At
<1> QED
  BY <1>3, <1>4, <1>5, <1>6 DEF Own

LEMMA EndOwn ==
  ASSUME CmdOK, NEW p \in Procs, End(p), NEW key
  PROVE  Own(key, p)' /\ ~InitPast(p)' /\ ~Running(p)'
<1>1. cmd'[p].pc = "idle"
  BY EndFacts
<1>2. ~InitPast(p)' /\ ~Running(p)' /\ ~Holds(p)'
  BY <1>1 DEF InitPast, Running, At, Holds
<1>3. Making(key, p)' /\ Knows(key, p)'
  BY <1>2 DEF Making, Knows
<1>4. EditsConfig(key, p)' /\ Searches(p)'
  BY <1>1 DEF EditsConfig, Searches, At
<1> QED
  BY <1>2, <1>3, <1>4 DEF Own

\* A step after which the same directories have a .config
LEMMA QuietStep ==
  ASSUME TreeInv, NEW key \in [Dirs -> Passwords], Keys(key), NEW p \in Procs, StepOK(p),
         Running(p), UNCHANGED raced,
         \A d \in Dirs : Configured(d)' <=> Configured(d), ConfigsKeyed(key)',
         \A n \in Paths \ Configs : Whole(n)' => node'[n] = node[n] \/ Keyed(key, n, node'[n]),
         Own(key, p)', Running(p)' => Job(p)' = Job(p), InitPast(p)' => InitPast(p)
  PROVE  Keys(key)'
<1>1. \A q \in Procs : Own(key, q)'
  BY OthersKeep
<1>2. ASSUME NEW n \in Paths \ Configs, Whole(n)'
      PROVE  Keyed(key, n, node[n])'
  <2>1. Keyed(key, n, node'[n])
    BY <1>2 DEF Keys, FilesKeyed, Whole
  <2>2. ASSUME NEW k, k = node'[n] PROVE Keyed(key, n, k)'
    BY <2>1, <2>2, AboveDirs, KeyedStays
  <2> QED
    BY <2>2 DEF Keyed
<1>3. FilesKeyed(key)'
  BY <1>2 DEF FilesKeyed
<1>4. \A q \in Procs : /\ InitPast(q)' => InitPast(q) /\ Job(q)' = Job(q)
                       /\ Running(q)' => Running(q) /\ Job(q)' = Job(q)
  BY DEF StepOK, OthersSame, InitPast, Running, At, Job
<1>5. Apart'
  BY <1>4 DEF Keys, Apart
<1>6. InitAlone'
  BY <1>4 DEF Keys, InitAlone
<1> QED
  BY <1>1, <1>3, <1>5, <1>6 DEF Keys

\* A step that only looks at the tree
LEMMA LookStep ==
  ASSUME TreeInv, NEW key \in [Dirs -> Passwords], Keys(key), NEW p \in Procs, StepOK(p),
         Running(p), UNCHANGED raced, UNCHANGED node,
         Own(key, p)', Running(p)' => Job(p)' = Job(p), InitPast(p)' => InitPast(p)
  PROVE  Keys(key)'
<1>1. \A d \in Dirs : Configured(d)' <=> Configured(d)
  BY DEF Configured
<1>2. ConfigsKeyed(key)'
  BY DEF Keys, ConfigsKeyed
<1> QED
  BY <1>1, <1>2, QuietStep

LEMMA EndKeys ==
  ASSUME TreeInv, NEW key \in [Dirs -> Passwords], Keys(key), NEW p \in Procs,
         Running(p), UNCHANGED raced, UNCHANGED node, End(p)
  PROVE  Keys(key)'
BY SameTree, EndOK, EndOwn, LookStep DEF TreeInv

\* What a command has that goes on in the same tree
LEMMA GotoOwn ==
  ASSUME TreeInv, NEW key \in [Dirs -> Passwords], Keys(key), NEW p \in Procs,
         NEW pc \in Places \ {"idle", "find", "load"}, Goto(p, pc), UNCHANGED <<node, raced>>,
         pc \in {"mkdir", "check", "write"} /\ Job(p).cmd = "init" => InitPast(p),
         pc = "write" /\ Job(p).cmd = "edit" => EditsConfig(key, p)',
         pc \in {"mkdir", "check", "write", "unlink", "move"} /\ Job(p).cmd # "init" 
           /\ Job(p).path \notin Configs /\ Job(p).path # Root
           => Keyed(key, Job(p).path, cmd[p].password)
  PROVE  Own(key, p)' /\ Job(p)' = Job(p) /\ (InitPast(p)' => InitPast(p))
<1>1. /\ cmd'[p].pc = pc /\ Job(p)' = Job(p) /\ cmd'[p].password = cmd[p].password
  BY GotoFacts DEF TreeInv, Same, Job
<1>2. InitPast(p)' => InitPast(p)
  BY <1>1 DEF InitPast
<1>3. Making(key, p)'
  BY <1>1, <1>2 DEF Keys, Own, Making, Configured
<1>4. EditsConfig(key, p)'
  BY <1>1 DEF EditsConfig, At
<1>5. Knows(key, p)'
  BY <1>1 DEF Knows, Holds, Keyed, Configured
<1>6. Searches(p)'
  BY <1>1 DEF Searches, At
<1> QED
  BY <1>1, <1>2, <1>3, <1>4, <1>5, <1>6 DEF Own

LEMMA StartKeys ==
  ASSUME TreeInv, NEW key \in [Dirs -> Passwords], Keys(key), NEW p \in Procs, Start(p)
  PROVE  Keys(key)'
<1>1. PICK j \in Jobs, k \in Passwords :
        /\ cmd' = [cmd EXCEPT ![p] = [Idle EXCEPT !.pc = First(j.cmd), !.job = j,
                    !.password = k,
                    !.at = IF First(j.cmd) = "find" THEN j.path ELSE Root,
                    !.todo = IF j.cmd = "list" THEN {j.path} ELSE {}]]
        /\ raced' = (raced \/ \E q \in Procs \ {p} :
                       Running(q) /\ (j.cmd = "init" \/ Job(q).cmd = "init"))
  BY DEF Start
<1> DEFINE at == IF First(j.cmd) = "find" THEN j.path ELSE Root
           todo == IF j.cmd = "list" THEN {j.path} ELSE {}
<1>2. j.path \in Paths /\ at \in Paths /\ todo \in SUBSET Paths
  BY JobsAssumption, TreeAssumption
<1>3. /\ cmd'[p].pc = First(j.cmd) /\ cmd'[p].job = j /\ cmd'[p].at = at
  <2>1. Starts(p, j, k, at, todo)
    BY <1>1 DEF Starts
  <2>2. CmdOK
    BY DEF TreeInv
  <2> HIDE DEF at, todo
  <2> QED
    BY <1>2, <2>1, <2>2, StartFacts
<1>4. /\ raced => raced'
      /\ ~raced' => ~raced /\ \A q \in Procs \ {p} :
                      Running(q) => j.cmd # "init" /\ Job(q).cmd # "init"
  BY <1>1, Zenon
<1>5. UNCHANGED node /\ StepOK(p) /\ \A d \in Dirs : Configured(d)' <=> Configured(d)
  BY StartOK DEF Start, Configured
<1>6. \A q \in Procs \ {p} : Own(key, q)'
  BY <1>4, <1>5, OthersKeep
<1>7. Own(key, p)'
  <2>1. /\ ~InitPast(p)' /\ ~Holds(p)'
        /\ cmd'[p].pc \notin {"write", "load"}
    BY <1>3, FirstFacts DEF InitPast, Holds
  <2>2. Making(key, p)' /\ Knows(key, p)' /\ EditsConfig(key, p)'
    BY <2>1 DEF Making, Knows, EditsConfig, At
  <2>3. At(p, "find")' => cmd'[p].at = Job(p)'.path
    BY <1>3, FirstFacts DEF At, Job
  <2>4. Searches(p)'
    BY <2>1, <2>3 DEF Searches, At
  <2> QED
    BY <2>2, <2>4 DEF Own
<1>8. ConfigsKeyed(key)'
  BY <1>5 DEF Keys, ConfigsKeyed
<1>9. FilesKeyed(key)'
  <2>1. ASSUME NEW n \in Paths \ Configs, Whole(n)'
        PROVE  Keyed(key, n, node[n])'
    <3>1. Keyed(key, n, node[n]) /\ node'[n] = node[n]
      BY <1>5, <2>1 DEF Keys, FilesKeyed, Whole
    <3>2. ASSUME NEW k1, k1 = node[n] PROVE Keyed(key, n, k1)'
      BY <1>4, <1>5, <3>1, <3>2, AboveDirs, KeyedStays
    <3> QED
      BY <3>1, <3>2 DEF Keyed
  <2> QED
    BY <2>1 DEF FilesKeyed
<1>10. \A q \in Procs \ {p} : /\ Job(q)' = Job(q) /\ Running(q)' = Running(q)
                              /\ InitPast(q)' = InitPast(q)
  BY <1>5 DEF StepOK, OthersSame, InitPast, Running, At, Job
<1>11. Apart'
  <2>1. ~InitPast(p)'
    BY <1>3, FirstFacts DEF InitPast
  <2> QED
    BY <1>10, <2>1 DEF Keys, Apart
<1>12. InitAlone'
  <2>1. At(p, "idle") /\ Job(p)' = j
    BY <1>3 DEF Start, Job
  <2>2. ASSUME ~raced', NEW x \in Procs, NEW y \in Procs, x # y, Running(x)',
               Job(x)'.cmd = "init", Running(y)'
        PROVE  FALSE
    BY <1>4, <1>10, <2>1, <2>2 DEF Keys, InitAlone
  <2> QED
    BY <2>2 DEF InitAlone
<1> QED
  BY <1>5, <1>6, <1>7, <1>8, <1>9, <1>11, <1>12 DEF Keys

\* The directory that an init makes is its own, and nothing is in it.
LEMMA InitMakes ==
  ASSUME TreeInv, NEW key \in [Dirs -> Passwords], Keys(key), NEW p \in Procs, UNCHANGED raced,
         StepOK(p), At(p, "initdir"), Job(p).cmd = "init", NEW d \in Dirs, d = Job(p).path,
         Is(d, Nothing), Put(d, Directory), Goto(p, "mkdir"),
         key[d] = cmd[p].password, ~Configured(d), \A q \in Procs : InitPast(q) => Job(q).path # d
  PROVE  Keys(key)'
<1>1. CmdOK /\ NodeOK /\ Running(p) /\ d \in Paths
  BY TreeAssumption DEF TreeInv, At, Running
<1>2. \A n \in Paths : d \in Above[n] => node[n] = Nothing
  BY <1>1, NoHoles, MarkAssumption DEF Is
<1>3. \A n \in Paths : node'[n] = IF n = d THEN Directory ELSE node[n]
  BY <1>1 DEF Put, NodeOK
<1>4. \A e \in Dirs : Configured(e)' <=> Configured(e)
  BY <1>3, ConfigPaths DEF Configured
<1>5. /\ cmd'[p].pc = "mkdir" /\ Job(p)' = Job(p) /\ cmd'[p].password = cmd[p].password
  BY <1>1, GotoFacts DEF Same, Job, Places
<1>6. Own(key, p)'
  <2>1. Making(key, p)'
    <3>1. node'[d] = Directory /\ ~Configured(d)'
      BY <1>1, <1>3, <1>4
    <3>2. \A n \in Paths : d \in Above[n] => node'[n] = Nothing
      BY <1>1, <1>2, <1>3, AboveIrreflexive
    <3> QED
      BY <1>5, <3>1, <3>2 DEF Making, Configured
  <2>2. EditsConfig(key, p)' /\ Searches(p)'
    BY <1>5 DEF EditsConfig, Searches, At
  <2>3. Knows(key, p)'
    BY <1>5 DEF Knows, Holds
  <2> QED
    BY <2>1, <2>2, <2>3 DEF Own
<1>7. \A q \in Procs : Own(key, q)'
  BY <1>1, <1>4, <1>6, OthersKeep
<1>8. ConfigsKeyed(key)'
  BY <1>3, ConfigPaths DEF Keys, ConfigsKeyed
<1>9. FilesKeyed(key)'
  <2>1. ASSUME NEW n \in Paths \ Configs, Whole(n)'
        PROVE  Keyed(key, n, node[n])'
    <3>1. Keyed(key, n, node[n]) /\ node'[n] = node[n]
      BY <1>3, <2>1, MarkAssumption DEF Keys, FilesKeyed, Whole
    <3>2. ASSUME NEW k, k = node[n] PROVE Keyed(key, n, k)'
      BY <1>4, <3>1, <3>2, AboveDirs, KeyedStays
    <3> QED
      BY <3>1, <3>2 DEF Keyed
  <2> QED
    BY <2>1 DEF FilesKeyed
<1>10. \A q \in Procs \ {p} : /\ Job(q)' = Job(q) /\ Running(q)' = Running(q)
                              /\ InitPast(q)' = InitPast(q)
  BY DEF StepOK, OthersSame, InitPast, Running, At, Job
<1>11. Apart'
  <2>1. ASSUME NEW q \in Procs \ {p}, InitPast(q)'
        PROVE  Job(q)'.path # Job(p)'.path
    BY <1>5, <1>10, <2>1
  <2> QED
    BY <1>10, <2>1 DEF Keys, Apart
<1>12. InitAlone'
  BY <1>1, <1>5, <1>10 DEF Keys, InitAlone
<1> QED
  BY <1>7, <1>8, <1>9, <1>11, <1>12 DEF Keys

LEMMA InitWorkspaceKeys ==
  ASSUME TreeInv, NEW key \in [Dirs -> Passwords], Keys(key), NEW p \in Procs,
         InitWorkspace(p), UNCHANGED raced
  PROVE  \E new \in [Dirs -> Passwords] : Keys(new)'
<1>1. PICK d \in Dirs : d = Job(p).path
  BY TargetPath DEF InitWorkspace, TreeInv, Passes
<1>2. /\ StepOK(p) /\ Running(p) /\ At(p, "initdir") /\ Job(p).cmd = "init"
      /\ CmdOK /\ NodeOK
  BY InitWorkspaceOK DEF InitWorkspace, TreeInv, Passes, At, Running
<1>3. CASE End(p) /\ UNCHANGED node
  BY <1>2, <1>3, EndKeys
<1>4. CASE Is(d, Nothing) /\ Put(d, Directory) /\ Goto(p, "mkdir")
  <2>1. PICK k \in Passwords : k = cmd[p].password
    BY <1>2 DEF CmdOK, Cmd
  <2>2. ~Configured(d)
    BY <1>2, <1>4, ConfigPaths, MarkAssumption DEF NodeOK, Configured, Is
  <2>3. \A q \in Procs : InitPast(q) => Job(q).path # d
    BY <1>4, MarkAssumption DEF Keys, Own, Making, Is
  <2>4. PICK new \in [Dirs -> Passwords] : Keys(new) /\ new[d] = k
    <3>1. Keys([key EXCEPT ![d] = k])
      BY <2>2, <2>3, NewKey
    <3>2. [key EXCEPT ![d] = k] \in [Dirs -> Passwords] /\ [key EXCEPT ![d] = k][d] = k
      OBVIOUS
    <3> QED
      BY <3>1, <3>2
  <2>5. Keys(new)'
    BY <1>1, <1>2, <1>4, <2>1, <2>2, <2>3, <2>4, InitMakes
  <2> QED
    BY <2>5
<1> QED
  BY <1>1, <1>3, <1>4 DEF InitWorkspace

LEMMA SafeMkdirKeys ==
  ASSUME TreeInv, NEW key \in [Dirs -> Passwords], Keys(key), NEW p \in Procs,
         SafeMkdir(p), UNCHANGED raced
  PROVE  Keys(key)'
<1>1. /\ StepOK(p) /\ Running(p) /\ At(p, "mkdir") /\ CmdOK /\ NodeOK /\ Passes(p) /\ Own(key, p)
  BY SafeMkdirOK DEF SafeMkdir, TreeInv, At, Running, Keys
<1>2. CASE End(p) /\ UNCHANGED node
  BY <1>1, <1>2, EndKeys
<1>3. ASSUME NEW d \in Above[Wanted(p)], Is(d, Nothing), Put(d, Directory), UNCHANGED cmd
      PROVE  Keys(key)'
  <2>1. d \in Dirs
    BY <1>1, TargetPath, AboveDirs
  <2>2. \A n \in Paths : node'[n] = IF n = d THEN Directory ELSE node[n]
    BY <1>1, <1>3, <2>1, TreeAssumption DEF Put, NodeOK
  <2>3. \A e \in Dirs : Configured(e)' <=> Configured(e)
    BY <2>1, <2>2, ConfigPaths DEF Configured
  <2>4. ConfigsKeyed(key)'
    BY <2>1, <2>2, ConfigPaths DEF Keys, ConfigsKeyed
  <2>5. \A n \in Paths \ Configs : Whole(n)' => node'[n] = node[n]
    BY <2>2, MarkAssumption DEF Whole
  <2>6. Job(p).cmd # "init"
    <3>1. SUFFICES ASSUME Job(p).cmd = "init" PROVE FALSE
      OBVIOUS
    <3>2. /\ Job(p).path \in Dirs /\ Wanted(p) = Config[Job(p).path]
          /\ node[Job(p).path] = Directory
      BY <1>1, <3>1, TargetPath DEF Own, Making, InitPast, At, Wanted, Target
    <3>3. Above[Wanted(p)] = {Job(p).path} \cup Above[Job(p).path]
      BY <3>2, ConfigPaths, AboveEquation
    <3>4. node[d] = Directory
      BY <1>1, <1>3, <3>2, <3>3, NoHoles, MarkAssumption, TreeAssumption
    <3> QED
      BY <1>3, <3>4, MarkAssumption DEF Is
  <2>7. Own(key, p)'
    <3>1. /\ cmd'[p] = cmd[p] /\ Job(p)' = Job(p) /\ cmd[p].pc = "mkdir"
          /\ Holds(p)' = Holds(p)
      BY <1>1, <1>3 DEF Job, At, Holds
    <3>2. Making(key, p)' /\ EditsConfig(key, p)' /\ Searches(p)'
      BY <2>6, <3>1 DEF Making, InitPast, EditsConfig, Searches, At
    <3>3. Knows(key, p)'
      <4>1. ASSUME Holds(p), NEW n \in Paths, n = Job(p).path, NEW k, k = cmd[p].password
            PROVE  Keyed(key, n, k)'
        BY <1>1, <2>3, <4>1, AboveDirs, KeyedStays DEF Own, Knows
      <4> QED
        BY <1>1, <3>1, <4>1, TargetPath DEF Knows
    <3> QED
      BY <3>2, <3>3 DEF Own
  <2>8. Job(p)' = Job(p) /\ InitPast(p)' = InitPast(p)
    BY <1>3 DEF Job, InitPast
  <2> QED
    BY <1>1, <2>3, <2>4, <2>5, <2>7, <2>8, QuietStep
<1>4. ASSUME NEW pc \in {"move", "check"}, Goto(p, pc), UNCHANGED node,
             pc = "move" => Job(p).cmd = "rename"
      PROVE  Keys(key)'
  <2>1. InitPast(p) <=> Job(p).cmd = "init"
    BY <1>1 DEF InitPast, At
  <2>2. Job(p).cmd # "init" /\ Job(p).path \notin Configs /\ Job(p).path # Root
        => Keyed(key, Job(p).path, cmd[p].password)
    BY <1>1 DEF Own, Knows, Holds, At
  <2>3. Own(key, p)' /\ Job(p)' = Job(p) /\ (InitPast(p)' => InitPast(p))
    BY <1>4, <2>1, <2>2, GotoOwn DEF Places
  <2> QED
    BY <1>1, <1>4, <2>3, LookStep
<1>5. CASE Goto(p, IF Job(p).cmd = "rename" THEN "move" ELSE "check") /\ UNCHANGED node
  <2>1. CASE Job(p).cmd = "rename" /\ Goto(p, "move")
    BY <1>4, <1>5, <2>1
  <2>2. CASE Goto(p, "check")
    BY <1>4, <1>5, <2>2
  <2> QED
    BY <1>5, <2>1, <2>2
<1> QED
  BY <1>2, <1>3, <1>5 DEF SafeMkdir

LEMMA CfgFindKeys ==
  ASSUME TreeInv, NEW key \in [Dirs -> Passwords], Keys(key), NEW p \in Procs,
         CfgFind(p), UNCHANGED raced
  PROVE  Keys(key)'
<1> DEFINE d == IF cmd[p].at = Root THEN Root ELSE Parent[cmd[p].at]
<1>1. /\ StepOK(p) /\ Running(p) /\ At(p, "find") /\ CmdOK /\ NodeOK /\ Own(key, p)
      /\ UNCHANGED node /\ Job(p).path \in Paths
  BY CfgFindOK, TargetPath DEF CfgFind, TreeInv, At, Running, Keys
<1>2. CASE End(p)
  BY <1>1, <1>2, EndKeys
<1>3. d \in Dirs /\ d \in Paths /\ cmd[p].at \in Paths
  BY <1>1, FindPath, TreeAssumption
\* d is above the path, and nothing that is above it is left out.
<1>4. /\ cmd[p].at # Root => Above[cmd[p].at] = {d} \cup Above[d]
      /\ cmd[p].at = Root => d = Root /\ Above[Root] = {}
  BY <1>3, AboveEquation
<1>5. Job(p).path # Root => d \in Above[Job(p).path]
  <2>1. CASE cmd[p].at = Root
    BY <1>1, <1>4, <2>1, AboveRoot
  <2>2. CASE cmd[p].at # Root
    BY <1>1, <1>4, <2>2, AboveTransitive DEF Own, Searches
  <2> QED
    BY <2>1, <2>2
<1>6. /\ d = Job(p).path \/ d \in Above[Job(p).path]
      /\ ~raced => \A e \in Above[Job(p).path] : Configured(e) => e \in Above[d] \cup {d}
  <2>1. /\ cmd[p].at \in {Job(p).path} \cup Above[Job(p).path]
        /\ ~raced => \A e \in Above[Job(p).path] : Configured(e) => e \in Above[cmd[p].at]
    BY <1>1 DEF Own, Searches
  <2>2. Above[cmd[p].at] \subseteq Above[d] \cup {d}
    BY <1>4
  <2>3. Job(p).path = Root => d = Root
    BY <1>4, <2>1, AboveEquation
  <2> QED
    BY <1>5, <2>1, <2>2, <2>3
<1> HIDE DEF d
<1>7. ASSUME Same(p), cmd'[p].at = d,
             \/ cmd'[p].pc = "load"
             \/ cmd'[p].pc = cmd[p].pc /\ ~Configured(d)
      PROVE  Keys(key)'
  <2>1. Job(p)' = Job(p) /\ cmd'[p].pc \in {"load", "find"}
    BY <1>1, <1>7 DEF Same, Job, At
  <2>2. \A e \in Dirs : Configured(e)' <=> Configured(e)
    BY <1>1 DEF Configured
  <2>3. Making(key, p)' /\ EditsConfig(key, p)' /\ Knows(key, p)' /\ ~InitPast(p)'
    BY <2>1 DEF Making, InitPast, EditsConfig, At, Knows, Holds
  <2>4. \A e \in Above[Job(p).path] : e \in Dirs
    BY <1>1, AboveDirs
  <2>5. Searches(p)'
    <3>1. CASE cmd'[p].pc = "load"
      BY <1>5, <1>6, <1>7, <2>1, <2>2, <2>4, <3>1 DEF Searches, At
    <3>2. CASE cmd'[p].pc = "find" /\ ~Configured(d)
      BY <1>6, <1>7, <2>1, <2>2, <2>4, <3>2 DEF Searches, At
    <3> QED
      BY <1>1, <1>7, <3>1, <3>2 DEF At
  <2> QED
    BY <1>1, <2>1, <2>3, <2>5, LookStep DEF Own
<1>8. CASE ~Is(Config[d], Nothing) /\ cmd' = [cmd EXCEPT ![p].pc = "load", ![p].at = d]
  <2>1. cmd'[p].pc = "load" /\ Same(p) /\ cmd'[p].at = d
    <3>1. [[cmd[p] EXCEPT !.pc = "load"] EXCEPT !.at = d] \in Cmd
      BY <1>1, <1>3 DEF CmdOK, Cmd
    <3>2. cmd' = [cmd EXCEPT ![p] = [[cmd[p] EXCEPT !.pc = "load"] EXCEPT !.at = d]]
      BY <1>1, <1>8 DEF CmdOK
    <3> QED
      BY <1>1, <3>1, <3>2 DEF CmdOK, Cmd, Same
  <2> QED
    BY <1>7, <2>1
<1>9. CASE Is(Config[d], Nothing) /\ cmd' = [cmd EXCEPT ![p].at = d]
  <2>1. cmd'[p].pc = cmd[p].pc /\ Same(p) /\ cmd'[p].at = d
    <3>1. cmd[p] \in Cmd
      BY <1>1 DEF CmdOK
    <3>2. cmd' = [cmd EXCEPT ![p] = [cmd[p] EXCEPT !.at = d]]
      BY <1>1, <1>9 DEF CmdOK
    <3> QED
      BY <1>1, <3>1, <3>2 DEF CmdOK, Cmd, Same
  <2>2. ~Configured(d)
    BY <1>9 DEF Configured, Is
  <2> QED
    BY <1>7, <2>1, <2>2
<1> QED
  BY <1>2, <1>8, <1>9 DEF CfgFind, d

LEMMA CfgLoadKeys ==
  ASSUME TreeInv, NEW key \in [Dirs -> Passwords], Keys(key), NEW p \in Procs,
         CfgLoad(p), UNCHANGED raced
  PROVE  Keys(key)'
<1> DEFINE pc == IF Job(p).cmd = "create" THEN "mkdir" ELSE "read"
           at == cmd[p].at
<1>1. /\ StepOK(p) /\ Running(p) /\ At(p, "load") /\ CmdOK /\ NodeOK /\ Own(key, p) /\ Passes(p)
      /\ UNCHANGED node /\ Job(p).path \in Paths
  BY CfgLoadOK, TargetPath DEF CfgLoad, TreeInv, At, Running, Keys
<1>2. CASE End(p)
  BY <1>1, <1>2, EndKeys
<1>3. CASE Is(Config[at], cmd[p].password) /\ cmd' = [cmd EXCEPT ![p].pc = pc, ![p].at = Root]
  <2>1. pc \in Places /\ pc \in {"mkdir", "read"}
    BY DEF Places
  <2> HIDE DEF pc
  <2>2. /\ Same(p) /\ cmd'[p].pc = pc
    BY <1>1, <1>3, <2>1, CfgLoadFacts
  <2>3. Job(p)' = Job(p) /\ cmd'[p].password = cmd[p].password /\ Job(p).cmd # "init"
    BY <1>1, <2>2 DEF Same, Job, Passes
  \* The password has opened the innermost .config there is.
  <2>4. Job(p).path # Root => Keyed(key, Job(p).path, cmd[p].password)
    <3>1. SUFFICES ASSUME Job(p).path # Root
                   PROVE  Keyed(key, Job(p).path, cmd[p].password)
      OBVIOUS
    <3>2. /\ at \in Above[Job(p).path]
          /\ ~raced => \A e \in Above[Job(p).path] : Configured(e) => e \in Above[at] \cup {at}
      BY <1>1, <3>1 DEF Own, Searches
    <3>3. at \in Dirs /\ cmd[p].password \in Passwords
      BY <1>1, <3>2, AboveDirs DEF CmdOK, Cmd
    <3>4. Configured(at) /\ key[at] = cmd[p].password
      BY <1>3, <3>3, MarkAssumption DEF Keys, ConfigsKeyed, Configured, Is
    <3> QED
      BY <3>2, <3>4 DEF Keyed
  <2>5. Making(key, p)' /\ ~InitPast(p)'
    BY <2>3 DEF Making, InitPast
  <2>6. EditsConfig(key, p)' /\ Searches(p)'
    BY <2>1, <2>2 DEF EditsConfig, Searches, At
  <2>7. Knows(key, p)'
    BY <1>1, <2>3, <2>4 DEF Knows, Holds, Keyed, Configured
  <2> QED
    BY <1>1, <2>3, <2>5, <2>6, <2>7, LookStep DEF Own
<1> QED
  BY <1>2, <1>3 DEF CfgLoad

LEMMA CheckKeys ==
  ASSUME TreeInv, NEW key \in [Dirs -> Passwords], Keys(key), NEW p \in Procs,
         Check(p), UNCHANGED raced
  PROVE  Keys(key)'
<1>1. /\ StepOK(p) /\ Running(p) /\ At(p, "check") /\ CmdOK /\ NodeOK /\ Own(key, p) /\ Passes(p)
      /\ UNCHANGED node
  BY CheckOK DEF Check, TreeInv, At, Running, Keys
<1>2. CASE End(p)
  BY <1>1, <1>2, EndKeys
<1>3. CASE Goto(p, "write")
  <2>1. (InitPast(p) <=> Job(p).cmd = "init") /\ Job(p).cmd # "edit"
    BY <1>1 DEF InitPast, At, Passes
  <2>2. Job(p).cmd # "init" /\ Job(p).path \notin Configs /\ Job(p).path # Root
        => Keyed(key, Job(p).path, cmd[p].password)
    BY <1>1 DEF Own, Knows, Holds, At
  <2>3. Own(key, p)' /\ Job(p)' = Job(p) /\ (InitPast(p)' => InitPast(p))
    BY <1>1, <1>3, <2>1, <2>2, GotoOwn DEF Places
  <2> QED
    BY <1>1, <2>3, LookStep
<1> QED
  BY <1>2, <1>3 DEF Check

\* A safe that has opened has told the user's password to be its key.
LEMMA OpenKeys ==
  ASSUME TreeInv, NEW key \in [Dirs -> Passwords], Keys(key), NEW p \in Procs,
         Open(p), UNCHANGED raced
  PROVE  Keys(key)'
<1>1. /\ StepOK(p) /\ Running(p) /\ At(p, "read") /\ CmdOK /\ NodeOK /\ Own(key, p) /\ Passes(p)
      /\ UNCHANGED node /\ Job(p).path \in Paths
  BY OpenOK, TargetPath DEF Open, TreeInv, At, Running, Keys
<1>2. CASE End(p)
  BY <1>1, <1>2, EndKeys
<1>3. ASSUME NEW pc \in {"write", "unlink", "mkdir"}, Goto(p, pc), Job(p).cmd # "init",
             pc = "write" <=> Job(p).cmd = "edit", Is(Target(p), cmd[p].password)
      PROVE  Keys(key)'
  <2>1. cmd[p].password \in Passwords /\ node[Job(p).path] = cmd[p].password
    BY <1>1, <1>3, TargetPath DEF CmdOK, Cmd, Is
  <2>2. Job(p).path \notin Configs => Keyed(key, Job(p).path, cmd[p].password)
    BY <1>1, <2>1 DEF Keys, FilesKeyed, Whole
  <2>3. EditsConfig(key, p)'
    <3>1. /\ Job(p)' = Job(p) /\ cmd'[p].password = cmd[p].password
      BY <1>1, <1>3, GotoFacts DEF Same, Job, Places
    <3>2. \A d \in Dirs : Job(p).path = Config[d] => Configured(d) /\ key[d] = cmd[p].password
      BY <2>1, MarkAssumption DEF Keys, ConfigsKeyed, Configured
    <3>3. \A d \in Dirs : Configured(d)' <=> Configured(d)
      BY <1>1 DEF Configured
    <3> QED
      BY <3>1, <3>2, <3>3 DEF EditsConfig
  <2>4. Own(key, p)' /\ Job(p)' = Job(p) /\ (InitPast(p)' => InitPast(p))
    BY <1>1, <1>3, <2>2, <2>3, GotoOwn DEF Places
  <2> QED
    BY <1>1, <2>4, LookStep
<1>4. CASE Is(Target(p), cmd[p].password) /\ Job(p).cmd = "edit" /\ Goto(p, "write")
  BY <1>3, <1>4
<1>5. CASE Is(Target(p), cmd[p].password) /\ Job(p).cmd = "delete" /\ Goto(p, "unlink")
  BY <1>3, <1>5
<1>6. CASE Is(Target(p), cmd[p].password) /\ Job(p).cmd = "rename" /\ Goto(p, "mkdir")
  BY <1>3, <1>6
<1> QED
  BY <1>1, <1>2, <1>4, <1>5, <1>6, OpenGoes
\* The .config of an init is the first one in its directory, and nothing is there yet
\* that it could lock.
LEMMA InitWrites ==
  ASSUME TreeInv, NEW key \in [Dirs -> Passwords], Keys(key), NEW p \in Procs, UNCHANGED raced,
         StepOK(p), InitPast(p), End(p), NEW d \in Dirs, d = Job(p).path,
         NEW what \in {key[d], Torn}, Put(Config[d], what)
  PROVE  Keys(key)'
<1>1. CmdOK /\ NodeOK /\ Running(p) /\ what \in Passwords \cup {Torn}
  BY DEF TreeInv, InitPast, Running, At
<1>2. \A n \in Paths : node'[n] = IF n = Config[d] THEN what ELSE node[n]
  BY <1>1, ConfigPaths DEF Put, NodeOK
<1>3. /\ \A e \in Dirs : Configured(e) => Configured(e)'
      /\ \A e \in Dirs : Configured(e)' => Configured(e) \/ e = d
  BY <1>1, <1>2, ConfigPaths, MarkAssumption DEF Configured
<1>4. ~raced => \A n \in Paths : d \in Above[n] => node[n] = Nothing
  BY DEF Keys, Own, Making
<1>5. /\ Own(key, p)' /\ ~InitPast(p)' /\ ~Running(p)'
  BY <1>1, EndOwn
<1>6. \A q \in Procs : Own(key, q)'
  BY <1>1, <1>3, <1>5, OthersKeep
<1>7. ConfigsKeyed(key)'
  BY <1>2, ConfigPaths DEF Keys, ConfigsKeyed
<1>8. FilesKeyed(key)'
  <2>1. ASSUME NEW n \in Paths \ Configs, Whole(n)'
        PROVE  Keyed(key, n, node[n])'
    <3>1. node'[n] = node[n]
      BY <1>2, <2>1 DEF Configs
    <3>2. Keyed(key, n, node[n]) /\ node[n] # Nothing
      BY <2>1, <3>1, MarkAssumption DEF Keys, FilesKeyed, Whole
    <3>3. ~raced' => \A e \in Above[n] : Configured(e)' => Configured(e)
      BY <1>3, <1>4, <3>2, AboveDirs
    <3>4. ASSUME NEW k, k = node[n] PROVE Keyed(key, n, k)'
      BY <1>3, <3>2, <3>3, <3>4, KeyedStays
    <3> QED
      BY <3>1, <3>4 DEF Keyed
  <2> QED
    BY <2>1 DEF FilesKeyed
<1>9. \A q \in Procs : /\ InitPast(q)' => InitPast(q) /\ Job(q)' = Job(q)
                       /\ Running(q)' => Running(q) /\ Job(q)' = Job(q)
  BY <1>5 DEF StepOK, OthersSame, InitPast, Running, At, Job
<1>10. Apart' /\ InitAlone'
  BY <1>9 DEF Keys, Apart, InitAlone
<1> QED
  BY <1>6, <1>7, <1>8, <1>10 DEF Keys

\* What a command that writes, unlinks or moves knows
LEMMA AboutToWrite ==
  ASSUME TreeInv, NEW key \in [Dirs -> Passwords], Keys(key), NEW p \in Procs, OrdinaryJobs,
         At(p, "write")
  PROVE  \/ \E d \in Dirs : /\ InitPast(p) /\ d = Job(p).path /\ Target(p) = Config[d]
                            /\ key[d] = cmd[p].password /\ ~Configured(d)
         \/ \E d \in Dirs : /\ Job(p).cmd = "edit" /\ Target(p) = Config[d]
                            /\ key[d] = cmd[p].password /\ Configured(d)
         \/ /\ Target(p) \in Paths \ Configs /\ Job(p).cmd \in {"create", "edit"}
            /\ Keyed(key, Target(p), cmd[p].password)
<1>1. CmdOK /\ Passes(p) /\ Rooted(p) /\ Own(key, p) /\ Job(p) \in Jobs
  BY TargetPath DEF TreeInv, Keys
<1>2. CASE Job(p).cmd = "init"
  BY <1>1, <1>2, TargetPath DEF Own, Making, InitPast, At
<1>3. CASE Job(p).cmd = "edit" /\ Job(p).path \in Configs
  BY <1>1, <1>3, TargetPath DEF Own, EditsConfig, Configs
<1>4. CASE Job(p).cmd \in {"create", "edit"} /\ Job(p).path \notin Configs
  <2>1. Target(p) = Job(p).path /\ Target(p) \in Paths \ {Root}
    BY <1>1, <1>4, TargetPath DEF Rooted
  <2>2. Holds(p)
    BY <1>4, <2>1 DEF Holds, At
  <2> QED
    BY <1>1, <1>4, <2>1, <2>2 DEF Own, Knows
<1> QED
  BY <1>1, <1>2, <1>3, <1>4 DEF Passes, OrdinaryJobs

LEMMA AboutToChange ==
  ASSUME TreeInv, NEW key \in [Dirs -> Passwords], Keys(key), NEW p \in Procs, OrdinaryJobs,
         At(p, "unlink") \/ At(p, "move")
  PROVE  /\ Target(p) = Job(p).path /\ Job(p).path \in Paths \ Configs
         /\ Keyed(key, Job(p).path, cmd[p].password)
         /\ At(p, "move") => /\ Job(p).to \in Paths \ Configs
                             /\ Above[Job(p).to] = Above[Job(p).path]
<1>1. /\ CmdOK /\ Passes(p) /\ Rooted(p) /\ Own(key, p) /\ Job(p) \in Jobs
      /\ Job(p).path \in Paths /\ Job(p).to \in Paths
  BY TargetPath DEF TreeInv, Keys
<1>2. Job(p).cmd \in {"delete", "rename"} /\ (At(p, "move") => Job(p).cmd = "rename")
  BY <1>1 DEF Passes, At
<1>3. Target(p) = Job(p).path /\ Target(p) # Root
  BY <1>1, <1>2, TargetPath DEF Rooted
<1>4. Job(p).path \notin Configs
  BY <1>1, <1>2 DEF OrdinaryJobs
<1>5. Holds(p)
  BY <1>2, <1>3, <1>4 DEF Holds, At
<1> QED
  BY <1>1, <1>2, <1>3, <1>4, <1>5 DEF Own, Knows, OrdinaryJobs

LEMMA WriteKeys ==
  ASSUME TreeInv, NEW key \in [Dirs -> Passwords], Keys(key), NEW p \in Procs, OrdinaryJobs,
         Write(p), UNCHANGED raced
  PROVE  Keys(key)'
<1>1. /\ StepOK(p) /\ Running(p) /\ At(p, "write") /\ CmdOK /\ NodeOK /\ End(p)
      /\ Own(key, p)' /\ ~InitPast(p)' /\ ~Running(p)'
  BY WriteOK, EndOwn DEF Write, TreeInv, At, Running
<1>2. CASE UNCHANGED node
  BY <1>1, <1>2, EndKeys
<1>3. ASSUME NEW what \in {cmd[p].password, Torn}, Put(Target(p), what)
      PROVE  Keys(key)'
  <2>1. ASSUME NEW d \in Dirs, InitPast(p), d = Job(p).path, Target(p) = Config[d],
               key[d] = cmd[p].password
        PROVE  Keys(key)'
    BY <1>1, <1>3, <2>1, InitWrites
  <2>2. Target(p) \in Paths /\ what # Nothing
    BY <1>1, TargetPath, MarkAssumption DEF CmdOK, Cmd
  <2>3. \A n \in Paths : node'[n] = IF n = Target(p) THEN what ELSE node[n]
    BY <1>1, <1>3, <2>2 DEF Put, NodeOK
  <2>4. ASSUME NEW d \in Dirs, Target(p) = Config[d], key[d] = cmd[p].password, Configured(d)
        PROVE  Keys(key)'
    <3>1. \A e \in Dirs : Configured(e)' <=> Configured(e)
      BY <2>2, <2>3, <2>4, ConfigPaths DEF Configured
    <3>2. ConfigsKeyed(key)'
      BY <1>3, <2>3, <2>4, ConfigPaths DEF Keys, ConfigsKeyed
    <3>3. \A n \in Paths \ Configs : node'[n] = node[n]
      BY <2>3, <2>4 DEF Configs
    <3> QED
      BY <1>1, <3>1, <3>2, <3>3, QuietStep
  <2>5. ASSUME Target(p) \in Paths \ Configs, Keyed(key, Target(p), cmd[p].password)
        PROVE  Keys(key)'
    <3>1. \A e \in Dirs : node'[Config[e]] = node[Config[e]]
      BY <2>3, <2>5, ConfigPaths DEF Configs
    <3>2. \A e \in Dirs : Configured(e)' <=> Configured(e)
      BY <3>1 DEF Configured
    <3>3. ConfigsKeyed(key)'
      BY <3>1 DEF Keys, ConfigsKeyed
    <3>4. \A n \in Paths \ Configs : Whole(n)' => node'[n] = node[n] \/ Keyed(key, n, node'[n])
      BY <1>3, <2>3, <2>5, MarkAssumption DEF Whole
    <3> QED
      BY <1>1, <3>2, <3>3, <3>4, QuietStep
  <2> QED
    BY <1>1, <2>1, <2>4, <2>5, AboutToWrite
<1> QED
  BY <1>2, <1>3 DEF Write

LEMMA UnlinkKeys ==
  ASSUME TreeInv, NEW key \in [Dirs -> Passwords], Keys(key), NEW p \in Procs, OrdinaryJobs,
         Unlink(p), UNCHANGED raced
  PROVE  Keys(key)'
<1>1. /\ StepOK(p) /\ Running(p) /\ At(p, "unlink") /\ CmdOK /\ NodeOK /\ End(p)
      /\ Own(key, p)' /\ ~InitPast(p)' /\ ~Running(p)'
  BY UnlinkOK, EndOwn DEF Unlink, TreeInv, At, Running
<1>2. CASE UNCHANGED node
  BY <1>1, <1>2, EndKeys
<1>3. CASE Put(Target(p), Nothing)
  <2>1. Target(p) \in Paths \ Configs
    BY <1>1, AboutToChange
  <2>2. \A n \in Paths : node'[n] = IF n = Target(p) THEN Nothing ELSE node[n]
    BY <1>1, <1>3, <2>1 DEF Put, NodeOK
  <2>3. \A e \in Dirs : node'[Config[e]] = node[Config[e]]
    BY <2>1, <2>2, ConfigPaths DEF Configs
  <2>4. \A e \in Dirs : Configured(e)' <=> Configured(e)
    BY <2>3 DEF Configured
  <2>5. ConfigsKeyed(key)'
    BY <2>3 DEF Keys, ConfigsKeyed
  <2>6. \A n \in Paths \ Configs : Whole(n)' => node'[n] = node[n]
    BY <2>2, MarkAssumption DEF Whole
  <2> QED
    BY <1>1, <2>4, <2>5, <2>6, QuietStep
<1> QED
  BY <1>2, <1>3 DEF Unlink

LEMMA MoveKeys ==
  ASSUME TreeInv, NEW key \in [Dirs -> Passwords], Keys(key), NEW p \in Procs, OrdinaryJobs,
         Move(p), UNCHANGED raced
  PROVE  Keys(key)'
<1> DEFINE j == Job(p)
<1>1. /\ StepOK(p) /\ Running(p) /\ At(p, "move") /\ CmdOK /\ NodeOK /\ End(p)
      /\ Own(key, p)' /\ ~InitPast(p)' /\ ~Running(p)'
  BY MoveOK, EndOwn DEF Move, TreeInv, At, Running
<1>2. CASE UNCHANGED node
  BY <1>1, <1>2, EndKeys
<1>3. CASE j.path # j.to /\ node' = [node EXCEPT ![j.to] = node[j.path], ![j.path] = Nothing]
  <2>1. /\ j.path \in Paths \ Configs /\ j.to \in Paths \ Configs
        /\ Above[j.to] = Above[j.path]
    BY <1>1, AboutToChange
  <2>2. \A n \in Paths : node'[n] = IF n = j.path THEN Nothing
                                    ELSE IF n = j.to THEN node[j.path] ELSE node[n]
    BY <1>1, <1>3, <2>1 DEF NodeOK
  <2>3. \A e \in Dirs : node'[Config[e]] = node[Config[e]]
    BY <2>1, <2>2, ConfigPaths DEF Configs
  <2>4. \A e \in Dirs : Configured(e)' <=> Configured(e)
    BY <2>3 DEF Configured
  <2>5. ConfigsKeyed(key)'
    BY <2>3 DEF Keys, ConfigsKeyed
  <2>6. Whole(j.path) => Keyed(key, j.to, node[j.path])
    BY <2>1 DEF Keys, FilesKeyed, Keyed
  <2>7. \A n \in Paths \ Configs : Whole(n)' => node'[n] = node[n] \/ Keyed(key, n, node'[n])
    BY <2>2, <2>6, MarkAssumption DEF Whole
  <2> QED
    BY <1>1, <2>4, <2>5, <2>7, QuietStep
<1> QED
  BY <1>2, <1>3 DEF Move

LEMMA ListKeys ==
  ASSUME TreeInv, NEW key \in [Dirs -> Passwords], Keys(key), NEW p \in Procs,
         ListDir(p) \/ ListEnds(p), UNCHANGED raced
  PROVE  Keys(key)'
<1>1. /\ StepOK(p) /\ Running(p) /\ At(p, "list") /\ CmdOK /\ UNCHANGED node
  BY ListDirOK, ListEndsOK DEF ListDir, ListEnds, TreeInv, At, Running
<1>2. CASE cmd'[p].pc \in {"list", "listed"} /\ Job(p)' = Job(p)
  <2>1. Making(key, p)' /\ ~InitPast(p)' /\ EditsConfig(key, p)' /\ Knows(key, p)' /\ Searches(p)'
    BY <1>2 DEF Making, InitPast, EditsConfig, Knows, Holds, Searches, At
  <2> QED
    BY <1>1, <1>2, <2>1, LookStep DEF Own
<1>3. CASE ListDir(p)
  BY <1>1, <1>2, <1>3, ListDirFacts DEF Same, Job, At
<1>4. CASE Goto(p, "listed")
  BY <1>1, <1>2, <1>4, GotoFacts DEF Same, Job, Places
<1>5. CASE End(p)
  BY <1>1, <1>5, EndKeys
<1> QED
  BY <1>3, <1>4, <1>5 DEF ListEnds

LEMMA KeyStep ==
  ASSUME TreeInv, KeyInv, OrdinaryJobs, [WorkspaceNext]_workspaceVars
  PROVE  KeyInv'
<1>1. PICK key \in [Dirs -> Passwords] : Keys(key)
  BY DEF KeyInv
<1>2. SUFFICES \E new \in [Dirs -> Passwords] : Keys(new)'
  BY DEF KeyInv
<1>3. CASE UNCHANGED workspaceVars
  <2>1. Keys(key)'
    BY <1>1, <1>3 DEF workspaceVars, Keys, ConfigsKeyed, FilesKeyed, Keyed, Configured, Whole,
       Apart, InitAlone, Own, Making, InitPast, EditsConfig, Knows, Holds, Searches, Running, At,
       Job
  <2> QED
    BY <2>1
<1>4. CASE WorkspaceNext
  <2>1. PICK p \in Procs : Start(p) \/ Works(p) \/ (Fails(p) /\ UNCHANGED raced)
    BY <1>4 DEF WorkspaceNext
  <2>2. CASE Start(p)
    BY <1>1, <2>2, StartKeys
  <2>3. CASE InitWorkspace(p) /\ UNCHANGED raced
    BY <1>1, <2>3, InitWorkspaceKeys
  <2>4. CASE /\ SafeMkdir(p) \/ CfgFind(p) \/ CfgLoad(p) \/ Check(p) \/ Open(p)
             /\ UNCHANGED raced
    BY <1>1, <2>4, SafeMkdirKeys, CfgFindKeys, CfgLoadKeys, CheckKeys, OpenKeys
  <2>5. CASE /\ Write(p) \/ Unlink(p) \/ Move(p) \/ ListDir(p) \/ ListEnds(p)
             /\ UNCHANGED raced
    BY <1>1, <2>5, WriteKeys, UnlinkKeys, MoveKeys, ListKeys
  <2>6. CASE (ListExit(p) \/ Fails(p)) /\ UNCHANGED raced
    BY <1>1, <2>6, EndKeys DEF ListExit, Fails, Running, At
  <2> QED
    BY <2>1, <2>2, <2>3, <2>4, <2>5, <2>6 DEF Works
<1> QED
  BY <1>3, <1>4

LEMMA KeyInit == WorkspaceInit => KeyInv
<1> SUFFICES ASSUME WorkspaceInit PROVE KeyInv
  OBVIOUS
<1>1. PICK key \in [Dirs -> Passwords] : TRUE
  <2>1. PICK k \in Passwords : TRUE
    BY MarkAssumption
  <2>2. [d \in Dirs |-> k] \in [Dirs -> Passwords]
    OBVIOUS
  <2> QED
    BY <2>2
<1>2. \A n \in Paths : node[n] = Nothing
  BY DEF WorkspaceInit
<1>3. ConfigsKeyed(key) /\ FilesKeyed(key)
  BY <1>2, ConfigPaths, MarkAssumption DEF ConfigsKeyed, FilesKeyed, Whole
<1>4. \A p \in Procs : cmd[p].pc = "idle"
  BY IdleType DEF WorkspaceInit
<1>5. \A p \in Procs : ~InitPast(p) /\ ~Running(p) /\ ~Holds(p)
  BY <1>4 DEF InitPast, Running, At, Holds
<1>6. Apart /\ InitAlone
  BY <1>5 DEF Apart, InitAlone
<1>7. \A p \in Procs : Own(key, p)
  BY <1>4, <1>5 DEF Own, Making, EditsConfig, Knows, Searches, At
<1> QED
  BY <1>3, <1>6, <1>7 DEF KeyInv, Keys

\* Each safe is encrypted under the password of a .config above it, and, unless an init
\* has overlapped another command, of the nearest one: for any tree, any passwords and any
\* number of commands, as long as nobody handles a .config by hand and rename stays
\* within a directory.
THEOREM SafesAreKeyed ==
  ASSUME OrdinaryJobs
  PROVE  WorkspaceSpec => []KeyedByWorkspace
<1>1. WorkspaceInit => TreeInv /\ KeyInv
  BY TreeInit, KeyInit
<1>2. TreeInv /\ KeyInv /\ [WorkspaceNext]_workspaceVars => (TreeInv /\ KeyInv)'
  BY TreeNext, KeyStep
<1>3. TreeInv /\ KeyInv => KeyedByWorkspace
  <2> SUFFICES ASSUME TreeInv, KeyInv PROVE KeyedByWorkspace
    OBVIOUS
  <2>1. PICK key \in [Dirs -> Passwords] : Keys(key)
    BY DEF KeyInv
  <2>2. ASSUME NEW n \in Files \ Configs, Whole(n)
        PROVE  LET configs == {d \in Above[n] : IsFile(Config[d])}
                   fits    == {d \in configs : node[Config[d]] \in {node[n], Torn}}
               IN /\ fits # {}
                  /\ ~raced => \E d \in fits : configs \subseteq Above[d] \cup {d}
    <3>1. n \in Paths /\ Keyed(key, n, node[n])
      BY <2>1, <2>2 DEF Keys, FilesKeyed, Files
    <3>2. PICK d \in Above[n] :
            /\ Configured(d) /\ key[d] = node[n]
            /\ ~raced => \A e \in Above[n] : Configured(e) => e \in Above[d] \cup {d}
      BY <3>1 DEF Keyed
    <3>3. \A e \in Above[n] : IsFile(Config[e]) => Configured(e)
      BY DEF IsFile, Configured
    <3>4. node[Config[d]] \in {node[n], Torn}
      BY <2>1, <3>1, <3>2, AboveDirs DEF Keys, ConfigsKeyed, Configured
    <3>5. IsFile(Config[d])
      BY <2>2, <3>4, MarkAssumption DEF IsFile, Whole
    <3> QED
      BY <3>2, <3>3, <3>4, <3>5
  <2> QED
    BY <2>2 DEF KeyedByWorkspace
<1> QED
  BY <1>1, <1>2, <1>3, PTL DEF WorkspaceSpec

\* What NoStranger says of a step
StrangerStep ==
  \A n \in Paths : Whole(n) /\ node'[n] # node[n] /\ ~raced =>
    \E p \in Procs : /\ Running(p) /\ cmd'[p] = Idle /\ Job(p).cmd # "init"
                     /\ cmd[p].password = node[n]

LEMMA WriteNoStranger ==
  ASSUME TreeInv, NEW key \in [Dirs -> Passwords], Keys(key), OrdinaryJobs,
         NEW p \in Procs, Write(p), NEW n \in Paths, Whole(n), node'[n] # node[n], ~raced
  PROVE  Job(p).cmd # "init" /\ cmd[p].password = node[n]
<1>1. CmdOK /\ NodeOK /\ At(p, "write") /\ Target(p) \in Paths
  BY TargetPath DEF Write, TreeInv
<1>2. n = Target(p)
  BY <1>1 DEF Write, Put, NodeOK
<1>3. ASSUME NEW d \in Dirs, Target(p) = Config[d], key[d] = cmd[p].password, Configured(d),
             Job(p).cmd = "edit"
      PROVE  Job(p).cmd # "init" /\ cmd[p].password = node[n]
  BY <1>2, <1>3, MarkAssumption DEF Keys, ConfigsKeyed, Whole
<1>4. ASSUME Target(p) \in Paths \ Configs, Keyed(key, Target(p), cmd[p].password)
      PROVE  cmd[p].password = node[n]
  BY <1>2, <1>4, OneKey DEF Keys, FilesKeyed
<1>5. ASSUME NEW d \in Dirs, Target(p) = Config[d], ~Configured(d)
      PROVE  FALSE
  BY <1>2, <1>5, MarkAssumption DEF Configured, Whole
<1> QED
  BY <1>1, <1>3, <1>4, <1>5, AboutToWrite

LEMMA ChangeNoStranger ==
  ASSUME TreeInv, NEW key \in [Dirs -> Passwords], Keys(key), OrdinaryJobs,
         NEW p \in Procs, Unlink(p) \/ Move(p), NEW n \in Paths, Whole(n),
         node'[n] # node[n], ~raced
  PROVE  Job(p).cmd # "init" /\ cmd[p].password = node[n]
<1>1. CmdOK /\ NodeOK /\ (At(p, "unlink") \/ At(p, "move")) /\ Passes(p)
  BY DEF Unlink, Move, TreeInv
<1>2. Job(p).cmd # "init"
  BY <1>1 DEF Passes
<1>3. /\ Target(p) = Job(p).path /\ Job(p).path \in Paths \ Configs
      /\ Keyed(key, Job(p).path, cmd[p].password)
      /\ At(p, "move") => /\ Job(p).to \in Paths \ Configs
                          /\ Above[Job(p).to] = Above[Job(p).path]
  BY <1>1, AboutToChange
<1>4. n = Job(p).path \/ (At(p, "move") /\ n = Job(p).to)
  BY <1>1, <1>3 DEF Unlink, Move, Put, NodeOK
<1>5. Keyed(key, n, cmd[p].password)
  BY <1>3, <1>4 DEF Keyed
<1>6. Keyed(key, n, node[n])
  BY <1>3, <1>4 DEF Keys, FilesKeyed
<1> QED
  BY <1>2, <1>5, <1>6, OneKey

\* A directory is only made where there is nothing.
LEMMA MkdirNoStranger ==
  ASSUME TreeInv, NEW p \in Procs, InitWorkspace(p) \/ SafeMkdir(p), NEW n \in Paths, Whole(n)
  PROVE  node'[n] = node[n]
<1>1. node \in [Paths -> Passwords \cup {Nothing, Directory, Torn}] /\ node[n] # Nothing
  BY MarkAssumption DEF TreeInv, NodeOK, Whole
<1>2. ASSUME NEW d, Is(d, Nothing), Put(d, Directory)
      PROVE  node'[n] = node[n]
  BY <1>1, <1>2 DEF Is, Put
<1> QED
  BY <1>2 DEF InitWorkspace, SafeMkdir

\* A safe, a .config too, is only changed by a command whose user has typed its password,
\* and never by init, as long as no init has overlapped another command.
THEOREM StrangersKeepOut ==
  ASSUME OrdinaryJobs
  PROVE  WorkspaceSpec => NoStranger
<1>1. WorkspaceInit => TreeInv /\ KeyInv
  BY TreeInit, KeyInit
<1>2. TreeInv /\ KeyInv /\ [WorkspaceNext]_workspaceVars => (TreeInv /\ KeyInv)'
  BY TreeNext, KeyStep
<1>3. TreeInv /\ KeyInv /\ [WorkspaceNext]_workspaceVars => [StrangerStep]_workspaceVars
  <2> SUFFICES ASSUME TreeInv, KeyInv, WorkspaceNext, NEW n \in Paths, Whole(n),
                      node'[n] # node[n], ~raced
               PROVE  \E p \in Procs : /\ Running(p) /\ cmd'[p] = Idle /\ Job(p).cmd # "init"
                                       /\ cmd[p].password = node[n]
    BY DEF StrangerStep
  <2>1. PICK key \in [Dirs -> Passwords] : Keys(key)
    BY DEF KeyInv
  <2>2. PICK p \in Procs : Start(p) \/ Works(p) \/ Fails(p)
    BY DEF WorkspaceNext
  <2>3. ~(InitWorkspace(p) \/ SafeMkdir(p))
    BY MkdirNoStranger
  <2>4. Write(p) \/ Unlink(p) \/ Move(p)
    BY <2>2, <2>3 DEF Start, Works, Fails, CfgFind, CfgLoad, Check, Open, ListDir, ListEnds,
       ListExit
  <2>5. Running(p) /\ End(p) /\ CmdOK
    BY <2>4 DEF Write, Unlink, Move, Running, At, TreeInv
  <2>6. cmd'[p] = Idle
    BY <2>5, EndFacts
  <2>7. Job(p).cmd # "init" /\ cmd[p].password = node[n]
    BY <2>1, <2>4, WriteNoStranger, ChangeNoStranger
  <2> QED
    BY <2>5, <2>6, <2>7
<1> QED
  BY <1>1, <1>2, <1>3, PTL DEF WorkspaceSpec, NoStranger, StrangerStep
=============================================================================
