----------------------------- MODULE KpWorkspace -----------------------------
(***************************************************************************)
(* The directory tree of a workspace, its sub-workspaces and their .config *)
(* safes, under kickpass commands that run at a time: init.c, config.c,    *)
(* kp_safe_mkdir and what the other commands of src/command/ do to a path. *)
(*                                                                         *)
(* A step is one look at the tree or one change of it.  There is no agent  *)
(* here (KpSafe has it), and a safe is written in one step that may leave  *)
(* it torn (KpStorage opens that step up).                                 *)
(***************************************************************************)
EXTENDS Integers, FiniteSets

CONSTANTS
  Paths,      \* the paths the user names, and those on the way to them
  Root,       \* ~/.kickpass itself
  Parent,     \* Parent[n]: n up to its last slash
  Config,     \* Config[d]: the path of the .config in directory d
  Passwords,  \* what may be typed at a master password prompt
  Procs,      \* the commands that run at a time
  Jobs,       \* the command lines the user may type
  Nothing,    \* no file has this path
  Directory,  \* it is a directory
  Torn        \* it is a file that is no whole safe

Dirs == DOMAIN Config
Configs == {Config[d] : d \in Dirs}

\* The directories on the way to a path, the workspace's own among them
Above[n \in Paths] == IF n = Root THEN {} ELSE {Parent[n]} \cup Above[Parent[n]]

ASSUME TreeAssumption ==
  /\ Root \in Dirs /\ Dirs \subseteq Paths
  /\ Parent \in [Paths \ {Root} -> Dirs]
  \* cut at its last slash again and again, every path ends at the root
  /\ \A S \in SUBSET Paths : S # {} => \E n \in S : n = Root \/ Parent[n] \notin S
ASSUME ConfigAssumption ==
  /\ Config \in [Dirs -> Paths \ Dirs]
  /\ \A d \in Dirs : Parent[Config[d]] = d
ASSUME MarkAssumption ==
  /\ Nothing # Directory /\ Directory # Torn /\ Torn # Nothing
  /\ Passwords # {} /\ {Nothing, Directory, Torn} \cap Passwords = {}

\* path: the command's safe or directory; to: the new name of rename
Commands == {"init", "create", "edit", "cat", "delete", "rename", "list"}
ASSUME JobsAssumption ==
  /\ Jobs # {} /\ Jobs \subseteq [cmd : Commands, path : Paths, to : Paths]
  /\ \A j \in Jobs : j.cmd = "init" => j.path \in Dirs
  \* renameat would move a directory with all that is in it, where one has come in
  \* the place of the safe meanwhile: only names that are no directory's are renamed
  /\ \A j \in Jobs : j.cmd = "rename" => j.path \notin Dirs

\* Nobody creates, deletes or renames a .config by hand, and a rename leaves a safe in
\* its directory.
OrdinaryJobs ==
  \A j \in Jobs :
    /\ j.cmd \in {"create", "delete", "rename"} => j.path \notin Configs
    /\ j.cmd = "rename" => j.to \notin Configs /\ Above[j.to] = Above[j.path]

VARIABLES
  node,     \* what is at each path; a whole safe is the password it is encrypted with
  cmd,      \* the running commands
  raced,    \* history: an init has overlapped another command
  lasting   \* history: the safes there have been since a list began

workspaceVars == <<node, cmd, raced, lasting>>

\* at: cfg_path of kp_cfg_find; todo, unread, shown: the directories list_dir_r still
\* has to read, those it could not open, and what it has found; ok: its last result
Cmd == [pc : {"idle", "initdir", "find", "load", "mkdir", "check", "read",
              "write", "unlink", "move", "list", "listed"},
        job : Jobs, password : Passwords, at : Paths,
        todo : SUBSET Paths, unread : SUBSET Paths, shown : SUBSET Paths, ok : BOOLEAN]

WorkspaceTypeOK ==
  /\ node \in [Paths -> Passwords \cup {Nothing, Directory, Torn}]
  /\ cmd \in [Procs -> Cmd]
  /\ raced \in BOOLEAN
  /\ lasting \in [Procs -> SUBSET Paths]
  \* the tree has no holes
  /\ \A n \in Paths \ {Root} : node[n] # Nothing => node[Parent[n]] = Directory

Is(n, what) == node[n] = what
IsFile(n) == node[n] \notin {Nothing, Directory}
Whole(n)  == node[n] \in Passwords
Files     == {n \in Paths : IsFile(n)}

\* Path resolution meets a file where it needs a directory
NotDir(n) == \E d \in Above[n] : IsFile(d)

Idle == [pc |-> "idle", job |-> CHOOSE j \in Jobs : TRUE,
         password |-> CHOOSE k \in Passwords : TRUE,
         at |-> Root, todo |-> {}, unread |-> {}, shown |-> {}, ok |-> TRUE]

WorkspaceInit ==
  /\ node = [n \in Paths |-> Nothing]
  /\ cmd = [p \in Procs |-> Idle]
  /\ raced = FALSE
  /\ lasting = [p \in Procs |-> {}]

-----------------------------------------------------------------------------

Job(p) == cmd[p].job
At(p, pc) == cmd[p].pc = pc
Running(p) == ~At(p, "idle")

Goto(p, pc) == cmd' = [cmd EXCEPT ![p].pc = pc]
End(p)      == cmd' = [cmd EXCEPT ![p] = Idle]
Put(n, what) == node' = [node EXCEPT ![n] = what]

\* The safe a command writes, and the path whose directories kp_safe_mkdir makes
Target(p) == IF Job(p).cmd = "init" THEN Config[Job(p).path] ELSE Job(p).path
Wanted(p) == IF Job(p).cmd = "rename" THEN Job(p).to ELSE Target(p)

First(c) == CASE c = "init" -> "initdir"
              [] c \in {"create", "edit"} -> "find"
              [] c \in {"cat", "delete", "rename"} -> "read"
              [] c = "list" -> "list"

\* main and the start of the command.  Only init does without kp_open.  The password
\* is asked for where it is first needed, and then kept in ctx->password.
Start(p) ==
  /\ At(p, "idle")
  /\ \E j \in Jobs, k \in Passwords :
       /\ j.cmd = "list" => k = Idle.password
       /\ j.cmd # "init" => Is(Root, Directory)
       /\ cmd' = [cmd EXCEPT ![p] = [Idle EXCEPT !.pc = First(j.cmd), !.job = j,
                    !.password = k,
                    !.at = IF First(j.cmd) = "find" THEN j.path ELSE Root,
                    !.todo = IF j.cmd = "list" THEN {j.path} ELSE {}]]
       /\ raced' = (raced \/ \E q \in Procs \ {p} :
                      Running(q) /\ (j.cmd = "init" \/ Job(q).cmd = "init"))
  /\ UNCHANGED node

\* An error return, or a kill, between any two steps
Fails(p) == Running(p) /\ End(p) /\ UNCHANGED node

-----------------------------------------------------------------------------
(* Making a workspace, and the directories of a safe                        *)

\* Bug: a directory that exists already is taken over
BugInitWorkspace(p) ==
  /\ At(p, "initdir")
  /\ LET d == Job(p).path IN
       \/ Is(d, Nothing) /\ Put(d, Directory) /\ Goto(p, "write")
       \/ Is(d, Directory) /\ Goto(p, "write") /\ UNCHANGED node

\* kp_init_workspace: stat has to say that there is nothing, then comes mkdir.  When
\* another command makes the directory in between, the end is the same.
InitWorkspace(p) ==
  /\ At(p, "initdir")
  /\ LET d == Job(p).path
         made == Is(d, Nothing) /\ (d # Root => Is(Parent[d], Directory))
     IN \/ made /\ Put(d, Directory) /\ Goto(p, "mkdir")
        \/ ~made /\ End(p) /\ UNCHANGED node

\* kp_safe_mkdir: one directory after the other, the outermost first.  What is made
\* stays when the command fails later, and also when a later mkdirat fails: because
\* another command was quicker, say.
SafeMkdir(p) ==
  /\ At(p, "mkdir")
  /\ LET missing == {d \in Above[Wanted(p)] : Is(d, Nothing)} IN
       \/ \E d \in missing :
            /\ Above[d] \cap missing = {}
            /\ \/ d # Root /\ Is(Parent[d], Directory) /\ Put(d, Directory) /\ UNCHANGED cmd
               \/ End(p) /\ UNCHANGED node
       \/ /\ missing = {}
          /\ Goto(p, IF Job(p).cmd = "rename" THEN "move" ELSE "check")
          /\ UNCHANGED node

-----------------------------------------------------------------------------
(* The configuration of a sub-workspace                                     *)

\* Bug: the search ends at the last slash, and the workspace's own .config is not found
BugCfgFind(p) ==
  /\ At(p, "find")
  /\ LET d == IF cmd[p].at = Root THEN Root ELSE Parent[cmd[p].at]
     IN IF d # Root /\ ~Is(Config[d], Nothing)
        THEN cmd' = [cmd EXCEPT ![p].pc = "load", ![p].at = d]
        ELSE cmd' = [cmd EXCEPT ![p].at = d]
  /\ UNCHANGED node

\* kp_cfg_find: cut the path at its last slash and look for a .config there.  In the
\* workspace itself there is nothing to cut any more, and it looks there again.
CfgFind(p) ==
  /\ At(p, "find")
  /\ LET d == IF cmd[p].at = Root THEN Root ELSE Parent[cmd[p].at]
     IN \/ /\ ~Is(Config[d], Nothing)
           /\ cmd' = [cmd EXCEPT ![p].pc = "load", ![p].at = d]
        \/ /\ Is(Config[d], Nothing) /\ ~NotDir(Config[d])
           /\ cmd' = [cmd EXCEPT ![p].at = d]
        \/ NotDir(Config[d]) /\ End(p)
  /\ UNCHANGED node

\* Bug: the password is not tried on the .config
BugCfgLoad(p) ==
  /\ At(p, "load")
  /\ IF IsFile(Config[cmd[p].at])
     THEN cmd' = [cmd EXCEPT ![p].pc = IF Job(p).cmd = "create" THEN "mkdir" ELSE "read",
                             ![p].at = Root]
     ELSE End(p)
  /\ UNCHANGED node

\* kp_cfg_load of that .config: the password typed has to open it
CfgLoad(p) ==
  /\ At(p, "load")
  /\ IF Is(Config[cmd[p].at], cmd[p].password)
     THEN cmd' = [cmd EXCEPT ![p].pc = IF Job(p).cmd = "create" THEN "mkdir" ELSE "read",
                             ![p].at = Root]
     ELSE End(p)
  /\ UNCHANGED node

-----------------------------------------------------------------------------
(* Safes                                                                    *)

\* kp_safe_open with KP_CREATE: there must be nothing yet.  The user then takes all
\* the time of a prompt and an editor.
Check(p) ==
  /\ At(p, "check")
  /\ IF Is(Target(p), Nothing) THEN Goto(p, "write") ELSE End(p)
  /\ UNCHANGED node

\* kp_safe_open of a safe that exists
Open(p) ==
  /\ At(p, "read")
  /\ LET next == [edit |-> "write", delete |-> "unlink", rename |-> "mkdir"]
     IN IF Is(Target(p), cmd[p].password) /\ Job(p).cmd # "cat"
        THEN Goto(p, next[Job(p).cmd]) ELSE End(p)
  /\ UNCHANGED node

\* kp_storage_save creates what is not there, or not there any more
Write(p) ==
  /\ At(p, "write")
  /\ \/ /\ Is(Parent[Target(p)], Directory) /\ ~Is(Target(p), Directory)
        /\ \E what \in {cmd[p].password, Torn} : Put(Target(p), what)
     \/ Is(Parent[Target(p)], Directory) = Is(Target(p), Directory) /\ UNCHANGED node
  /\ End(p)

\* Bug: whatever has the name is removed
BugUnlink(p) ==
  /\ At(p, "unlink")
  /\ Put(Target(p), Nothing)
  /\ End(p)

\* unlinkat of kp_safe_delete: no directory, and nothing that has gone meanwhile
Unlink(p) ==
  /\ At(p, "unlink")
  /\ \/ IsFile(Target(p)) /\ Put(Target(p), Nothing)
     \/ ~IsFile(Target(p)) /\ UNCHANGED node
  /\ End(p)

\* renameat replaces a safe that has the new name
Move(p) ==
  /\ At(p, "move")
  /\ LET j == Job(p)
         moves == IsFile(j.path) /\ ~Is(j.to, Directory) /\ Is(Parent[j.to], Directory)
     IN \/ /\ moves /\ j.path # j.to
           /\ node' = [node EXCEPT ![j.to] = node[j.path], ![j.path] = Nothing]
        \/ (~moves \/ j.path = j.to) /\ UNCHANGED node
  /\ End(p)

-----------------------------------------------------------------------------
(* list                                                                     *)

Entries(d) == {n \in Paths \ {Root} : Parent[n] = d}

\* list_dir_r passes over names with a dot in front
Visible(d) == {n \in Entries(d) \ Configs : IsFile(n)}

\* Bug: the safes of a subdirectory replace those found before
BugListDir(p) ==
  /\ At(p, "list")
  /\ \E d \in cmd[p].todo :
       cmd' = [cmd EXCEPT
         ![p].todo = (@ \ {d}) \cup {n \in Entries(d) : Is(n, Directory)},
         ![p].shown = Visible(d)]
  /\ UNCHANGED node

\* list_dir_r of one directory, as it was when it was opened.  One that cannot be
\* opened, or is none, is warned about; but the result is that of the last directory.
ListDir(p) ==
  /\ At(p, "list")
  /\ \E d \in cmd[p].todo :
       \/ /\ Is(d, Directory)
          /\ cmd' = [cmd EXCEPT
               ![p].todo = (@ \ {d}) \cup {n \in Entries(d) : Is(n, Directory)},
               ![p].shown = @ \cup Visible(d),
               ![p].ok = TRUE]
       \/ cmd' = [cmd EXCEPT ![p].todo = @ \ {d}, ![p].unread = @ \cup {d}, ![p].ok = FALSE]
  /\ UNCHANGED node

\* ... and then all that was found is printed, or nothing
ListEnds(p) ==
  /\ At(p, "list") /\ cmd[p].todo = {}
  /\ IF cmd[p].ok THEN Goto(p, "listed") ELSE End(p)
  /\ UNCHANGED node

ListExit(p) == At(p, "listed") /\ End(p) /\ UNCHANGED node

-----------------------------------------------------------------------------

Works(p) ==
  /\ \/ InitWorkspace(p) \/ SafeMkdir(p) \/ CfgFind(p) \/ CfgLoad(p) \/ Check(p) \/ Open(p)
     \/ Write(p) \/ Unlink(p) \/ Move(p) \/ ListDir(p) \/ ListEnds(p) \/ ListExit(p)
  /\ UNCHANGED raced

History ==
  lasting' = [p \in Procs |->
    IF cmd'[p].pc \notin {"list", "listed"} THEN {}
    ELSE IF At(p, "idle") THEN Files ELSE lasting[p] \cap Files']

WorkspaceNext ==
  /\ \E p \in Procs : Start(p) \/ Works(p) \/ (Fails(p) /\ UNCHANGED raced)
  /\ History

\* A command that searches goes on; nobody has to start one, or to take another step
WorkspaceSpec ==
  /\ WorkspaceInit /\ [][WorkspaceNext]_workspaceVars
  /\ \A p \in Procs : WF_workspaceVars(CfgFind(p) /\ UNCHANGED raced /\ History)

-----------------------------------------------------------------------------
(* Properties                                                               *)

\* Who knows the master password of a workspace can read its safes: each is encrypted
\* under the password of some .config above it, and of the nearest one unless an init
\* was under way while another command ran.  (Of a torn .config nobody knows which
\* password it had.)
KeyedByWorkspace ==
  \A n \in Files \ Configs : Whole(n) =>
    LET configs == {d \in Above[n] : IsFile(Config[d])}
        fits    == {d \in configs : node[Config[d]] \in {node[n], Torn}}
    IN /\ fits # {}
       /\ ~raced => \E d \in fits : configs \subseteq Above[d] \cup {d}

\* A safe, a .config too, is only ever changed by a command whose user has typed its
\* password, and never by init, however many commands run at a time; create can come
\* to replace a safe of another key only when an init is under way.
NoStranger ==
  [][\A n \in Paths : Whole(n) /\ node'[n] # node[n] /\ ~raced =>
       \E p \in Procs : /\ Running(p) /\ cmd'[p] = Idle /\ Job(p).cmd # "init"
                        /\ cmd[p].password = node[n]]_workspaceVars

\* The search for a .config comes to its end when the workspace has one.  (It does not
\* when the workspace has none, as after an init that was killed.)
FindEnds ==
  \A p \in Procs : At(p, "find") /\ ~Is(Config[Root], Nothing) ~>
                   ~At(p, "find") \/ Is(Config[Root], Nothing)

\* A list that is printed shows every safe that was there from its start to its end,
\* however the tree changes while it is read, except those below a directory that could
\* not be opened, which list has warned about; it shows no .config, and nothing from
\* outside the directory it was asked about.
ListTruthful ==
  \A p \in Procs : At(p, "listed") =>
    LET here == {n \in Paths \ Configs : Job(p).path \in Above[n]}
        unreadable == {n \in here : Above[n] \cap cmd[p].unread # {}}
    IN (lasting[p] \cap here) \ unreadable \subseteq cmd[p].shown /\ cmd[p].shown \subseteq here
=============================================================================
