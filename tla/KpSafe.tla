------------------------------- MODULE KpSafe -------------------------------
(***************************************************************************)
(* kickpass commands at work on one workspace with one agent: the library  *)
(* calls of lib/safe.c as the commands of src/command/ make them, each     *)
(* command a process of its own with a connection of its own.              *)
(*                                                                         *)
(* A step of a command is one exchange with the world: a look at a file, a *)
(* message sent, a message received, a file read, written, removed or      *)
(* renamed.  Between two of them every other process may act.  A file is   *)
(* read and written in one step here; KpStorage opens that step up.        *)
(***************************************************************************)
EXTENDS KpAgent

CONSTANTS
  Config,       \* the name of the workspace's .config safe
  Jobs,         \* the command lines the user may type
  Links,        \* a subset of BOOLEAN: is KP_AGENT_SOCK set?
  Master,       \* the master password of the workspace
  Typed,        \* what the user may type at a master password prompt
  NoPassword,   \* ctx->password is empty
  NoFile,       \* no file of this name in the workspace
  FirstFiles,   \* the safes that exist at first
  FirstValue,   \* what those safes hold at first
  Of,           \* Of[v]: the safe a value is written for
  NoValue,      \* the safe is not open
  CfgLifetime,  \* the 3600 of kp_cfg_load
  Unreachable,  \* names no safe can get: kp_safe_mkdir or renameat fails
  Serial,       \* the user runs one command after the other
  Brisk,        \* no lifetime ends while a command runs
  Interrupts    \* the user may kill a command

ASSUME ConfigAssumption == Config \in FirstFiles /\ FirstFiles \subseteq Names
ASSUME ValuesAssumption == /\ Of \in [Values -> Names]
                           /\ FirstValue \in [FirstFiles -> Values]
                           /\ \A n \in FirstFiles : Of[FirstValue[n]] = n
                           /\ NoValue \notin Values
ASSUME PasswordAssumption == NoPassword \notin Typed \cup {Master}

VARIABLES
  file,  \* the workspace: name -> File or NoFile
  cmd    \* the running commands, one for each connection

safeVars == <<file, cmd>>
allVars  == <<vars, safeVars>>

-----------------------------------------------------------------------------
(* Jobs: the command, its safe, the new name of rename, -o of create        *)

Commands == {"open", "cat", "create", "edit", "delete", "rename"}

ASSUME JobsAssumption ==
  /\ Jobs # {} /\ Jobs \subseteq [cmd : Commands, name : Names, to : Names, keep : BOOLEAN]
  /\ Links \subseteq BOOLEAN
  /\ CfgLifetime \in Int

Job(c, n, to, keep) == [cmd |-> c, name |-> n, to |-> to, keep |-> keep]

\* meant: history, what a save of the file that failed since was to write.  A
\* save that failed half way leaves a torn file: no password opens it.
Passwords == Typed \cup {Master}
Whole == [value : Values, key : Passwords, meant : Values \cup {NoValue}]
Torn  == [value : {NoValue}, key : {NoPassword}, meant : Values]
File  == Whole \cup Torn

ASSUME FileAssumption == NoFile \notin File

Places == {"idle", "check", "ask", "answer", "read", "cfgstore", "edit",
           "saveask", "saveanswer", "savestore", "write", "store",
           "discard", "discarded", "restore", "unlink", "move", "exit", "done"}

\* pc names the next exchange.  stage tells which safe kp_safe_open is about:
\* "config" inside kp_cfg_load, "safe" for the command's own.  found is the
\* name in the kp_unsafe that kp_safe_save got back.
Cmd == [pc : Places,
        stage : {"config", "safe"},
        job : Jobs, online : BOOLEAN,
        password : Passwords \cup {NoPassword},
        value : Values \cup {NoValue},
        found : Names,
        rc : {"none", "ok", "failed", "killed"}]

SafeTypeOK ==
  /\ TypeOK
  /\ file \in [Names -> File \cup {NoFile}]
  /\ cmd \in [Conns -> Cmd]

Subject(p) == IF cmd[p].stage = "config" THEN Config ELSE cmd[p].job.name
Running(p) == cmd[p].pc \notin {"idle", "done"}

At(p, pc) == cmd[p].pc = pc

\* The command goes on as c
Step(p, c) == cmd' = [cmd EXCEPT ![p] = c]
Goto(p, pc)   == Step(p, [cmd[p] EXCEPT !.pc = pc])
Return(p, rc) == Step(p, [cmd[p] EXCEPT !.pc = "exit", !.rc = rc])
Killed(p)     == Step(p, [cmd[p] EXCEPT !.pc = "done", !.rc = "killed"])

Local == UNCHANGED <<agentVars, channelVars, sent>>   \* neither agent nor socket

\* Without an agent a send raises SIGPIPE, which the command does not ignore
Sending == {"ask", "cfgstore", "store", "saveask", "savestore", "discard", "restore"}

BrokenPipe(p) ==
  /\ cmd[p].pc \in Sending
  /\ ~alive /\ Close(p) /\ Killed(p)
  /\ UNCHANGED <<file, sent>>

\* kp_agent_receive: the first message there is, or end of file
Hears(p, op) ==
  \/ Receive(p) /\ Head(rep[p]).op = op
  \/ /\ op = "EOF" /\ ~alive /\ rep[p] = <<>>
     /\ UNCHANGED <<agentVars, channelVars>>

\* Any answer but the expected one is a failure of kp_agent_receive
HearsNo(p, op) == \E other \in {"SEARCH", "DISCARD", "ERROR", "EOF"} \ {op} : Hears(p, other)

\* The master password: asked for once, then kept in ctx->password
Password(p) ==
  IF cmd[p].password = NoPassword THEN Typed ELSE {cmd[p].password}

-----------------------------------------------------------------------------
(* Starting and ending a command                                            *)

SafeInit ==
  /\ Init
  /\ file = [n \in Names |-> IF n \in FirstFiles
                             THEN [value |-> FirstValue[n], key |-> Master, meant |-> NoValue]
                             ELSE NoFile]
  /\ cmd = [p \in Conns |->
       [pc |-> "idle", stage |-> "safe", job |-> CHOOSE j \in Jobs : TRUE,
        online |-> FALSE, password |-> NoPassword, value |-> NoValue,
        found |-> Config, rc |-> "none"]]

\* Nothing is left over from the commands before
Settled == \A p \in Conns : ~Running(p) /\ req[p] = <<>>

\* The command's main: open insists on an agent, create and edit load the
\* workspace's .config first
Begin(p, j, online) ==
  IF j.cmd = "open" /\ ~online
  THEN Step(p, [cmd[p] EXCEPT !.pc = "exit", !.job = j, !.rc = "failed"])
  ELSE Step(p, [cmd[p] EXCEPT !.pc = "check", !.job = j, !.online = online,
                  !.stage = IF j.cmd \in {"create", "edit"} THEN "config" ELSE "safe"])

\* command() of main.c: with KP_AGENT_SOCK set, no command runs without an agent
Start(p) ==
  /\ At(p, "idle")
  /\ Serial => Settled
  /\ Brisk => \A t \in timers : now < t.at
  /\ \E j \in Jobs, online \in Links :
       \/ online /\ Connect(p) /\ Begin(p, j, TRUE)
       \/ online /\ ~alive
          /\ Step(p, [cmd[p] EXCEPT !.pc = "exit", !.job = j, !.rc = "failed"])
          /\ UNCHANGED <<agentVars, channelVars>>
       \/ ~online /\ Begin(p, j, FALSE) /\ UNCHANGED <<agentVars, channelVars>>
  /\ UNCHANGED <<file, sent>>

\* The process exits and its socket is closed
Exit(p) ==
  /\ At(p, "exit")
  /\ IF cmd[p].online THEN Close(p) ELSE UNCHANGED <<agentVars, channelVars>>
  /\ Goto(p, "done")
  /\ UNCHANGED <<file, sent>>

Interrupt(p) ==
  /\ Interrupts /\ Running(p) /\ ~At(p, "exit")
  /\ IF cmd[p].online THEN Close(p) ELSE UNCHANGED <<agentVars, channelVars>>
  /\ Killed(p)
  /\ UNCHANGED <<file, sent>>

-----------------------------------------------------------------------------
(* kp_safe_open                                                             *)

Creating(p) == cmd[p].stage = "safe" /\ cmd[p].job.cmd = "create"
Forced(p)   == cmd[p].stage = "safe" /\ cmd[p].job.cmd \in {"edit", "delete", "rename"}

\* What each command does once its own safe is open
OpenSafe(c)  == [c EXCEPT !.pc = "store"]
Cat(c)       == [c EXCEPT !.pc = "exit", !.rc = "ok"]
EditSafe(c)  == [c EXCEPT !.pc = "edit"]
BugDelete(c) == [c EXCEPT !.pc = "unlink"]   \* Bug: the agent is left alone
Delete(c)    == [c EXCEPT !.pc = IF c.online THEN "discard" ELSE "unlink"]
DoRename(c)  == [c EXCEPT !.pc = IF c.online THEN "discard" ELSE "move"]

\* kp_cfg_load puts what it read back into the agent
CfgLoad(c) == IF c.online THEN [c EXCEPT !.pc = "cfgstore"]
                          ELSE [c EXCEPT !.pc = "check", !.stage = "safe"]

\* Where the caller of kp_safe_open goes on
Opened(c) ==
  IF c.stage = "config" THEN CfgLoad(c)
  ELSE CASE c.job.cmd = "open"   -> OpenSafe(c)
         [] c.job.cmd = "cat"    -> Cat(c)
         [] c.job.cmd = "edit"   -> EditSafe(c)
         [] c.job.cmd = "delete" -> Delete(c)
         [] c.job.cmd = "rename" -> DoRename(c)

\* kp_safe_open fails.  rename then returns what closing the safe returned
Refuse(p) ==
  Return(p, IF cmd[p].job.cmd = "rename" THEN "ok" ELSE "failed")

\* The directories of the path and the look at the file
Check(p) ==
  /\ At(p, "check")
  /\ LET exists == file[Subject(p)] # NoFile IN
       \/ Creating(p) /\ ~exists /\ Subject(p) \notin Unreachable /\ Goto(p, "edit")
       \/ Creating(p) /\ (exists \/ Subject(p) \in Unreachable) /\ Refuse(p)
       \/ ~Creating(p) /\ ~exists /\ Refuse(p)
       \/ ~Creating(p) /\ exists
          /\ Goto(p, IF cmd[p].online /\ ~Forced(p) THEN "ask" ELSE "read")
  /\ Local /\ UNCHANGED file

Ask(p) ==
  /\ At(p, "ask")
  /\ Send(p, [op |-> "SEARCH", name |-> Subject(p)]) /\ Goto(p, "answer")
  /\ UNCHANGED <<file, sent>>

\* The agent's clear text, or the fallback to the file on any error
Answered(p) ==
  /\ At(p, "answer")
  /\ \/ /\ Hears(p, "SEARCH")
        /\ Step(p, Opened([cmd[p] EXCEPT !.value = Head(rep[p]).unsafe.value]))
     \/ HearsNo(p, "SEARCH") /\ Goto(p, "read")
  /\ UNCHANGED <<file, sent>>

\* kp_storage_open: fails on a missing file and on a wrong master password
ReadFile(p) ==
  /\ At(p, "read")
  /\ \E pw \in Password(p) :
       LET f == file[Subject(p)]
           opens == f # NoFile /\ f.key = pw IN
         \/ opens /\ Step(p, Opened([cmd[p] EXCEPT !.value = f.value, !.password = pw]))
         \/ ~opens /\ Refuse(p)
  /\ Local /\ UNCHANGED file

-----------------------------------------------------------------------------
(* kp_safe_store                                                            *)

Stored(n, v, t) == [op |-> "STORE", unsafe |-> [name |-> n, value |-> v, timeout |-> t]]

\* kp_cfg_load puts the configuration it has just read back into the agent
CfgStore(p) ==
  /\ At(p, "cfgstore")
  /\ Send(p, Stored(Config, cmd[p].value, CfgLifetime))
  /\ Step(p, [cmd[p] EXCEPT !.pc = "check", !.stage = "safe"])
  /\ UNCHANGED <<file, sent>>

\* open, create -o: no answer comes, the result of the send is not looked at
Store(p) ==
  /\ At(p, "store")
  /\ \E t \in Lifetimes : Send(p, Stored(cmd[p].job.name, cmd[p].value, t))
  /\ Return(p, "ok")
  /\ UNCHANGED <<file, sent>>

-----------------------------------------------------------------------------
(* kp_safe_save, after the user's new password and metadata (edit, create)  *)

\* The prompts and the editor; the user may also leave them with an error
Edit(p) ==
  /\ At(p, "edit")
  /\ \/ \E v \in Values, pw \in Password(p) :
          /\ Of[v] = cmd[p].job.name
          /\ Step(p, [cmd[p] EXCEPT !.value = v, !.password = pw,
                                    !.pc = IF cmd[p].online THEN "saveask" ELSE "write"])
     \/ Return(p, "failed")
  /\ Local /\ UNCHANGED file

SaveAsk(p) ==
  /\ At(p, "saveask")
  /\ Send(p, [op |-> "SEARCH", name |-> cmd[p].job.name]) /\ Goto(p, "saveanswer")
  /\ UNCHANGED <<file, sent>>

\* Bug: the agent is asked but not given the new clear text
BugSaveAnswered(p) ==
  /\ At(p, "saveanswer")
  /\ \E op \in {"SEARCH", "ERROR", "EOF"} : Hears(p, op)
  /\ Goto(p, "write")
  /\ UNCHANGED <<file, sent>>

SaveAnswered(p) ==
  /\ At(p, "saveanswer")
  /\ \/ /\ Hears(p, "SEARCH")
        /\ Step(p, [cmd[p] EXCEPT !.pc = "savestore", !.found = Head(rep[p]).unsafe.name])
     \/ HearsNo(p, "SEARCH") /\ Goto(p, "write")
  /\ UNCHANGED <<file, sent>>

\* The kp_unsafe of the answer goes back with the new clear text: its name is
\* the one the agent sent, its timeout the -1 of kp_agent_search
SaveStore(p) ==
  /\ At(p, "savestore")
  /\ Send(p, Stored(cmd[p].found, cmd[p].value, NoTimeout)) /\ Goto(p, "write")
  /\ UNCHANGED <<file, sent>>

\* kp_safe_save has returned KP_SUCCESS
Saved(p) ==
  CASE ~cmd[p].job.keep                   -> Return(p, "ok")
    [] cmd[p].job.keep /\ cmd[p].online  -> Goto(p, "store")
    [] cmd[p].job.keep /\ ~cmd[p].online -> Return(p, "failed")

\* kp_storage_save: O_CREAT, so a file removed meanwhile comes back.  It may fail
\* before the file is truncated or after, when the agent has been told already;
\* a body of which write() takes nothing and returns -1 passes for a success.
WriteFile(p) ==
  LET n == cmd[p].job.name
      v == cmd[p].value
      whole == [value |-> v, key |-> cmd[p].password, meant |-> NoValue]
      torn  == [value |-> NoValue, key |-> NoPassword, meant |-> v] IN
  /\ At(p, "write")
  /\ \/ file' = [file EXCEPT ![n] = whole] /\ Saved(p)
     \/ file' = [file EXCEPT ![n] = torn] /\ (Saved(p) \/ Return(p, "failed"))
     \/ /\ file' = IF file[n] = NoFile THEN file ELSE [file EXCEPT ![n].meant = v]
        /\ Return(p, "failed")
  /\ Local

-----------------------------------------------------------------------------
(* kp_safe_delete and kp_safe_rename                                        *)

Discard(p) ==
  /\ At(p, "discard")
  /\ Send(p, [op |-> "DISCARD", name |-> cmd[p].job.name]) /\ Goto(p, "discarded")
  /\ UNCHANGED <<file, sent>>

\* delete gives up on any error, rename only leaves the agent as it is
Discarded(p) ==
  /\ At(p, "discarded")
  /\ \/ /\ Hears(p, "DISCARD")
        /\ Goto(p, IF cmd[p].job.cmd = "delete" THEN "unlink" ELSE "restore")
     \/ /\ HearsNo(p, "DISCARD")
        /\ IF cmd[p].job.cmd = "delete" THEN Return(p, "failed") ELSE Goto(p, "move")
  /\ UNCHANGED <<file, sent>>

\* unlinkat fails on a missing file, and may fail on any
Unlink(p) ==
  /\ At(p, "unlink")
  /\ \/ /\ file[cmd[p].job.name] # NoFile
        /\ file' = [file EXCEPT ![cmd[p].job.name] = NoFile]
        /\ Return(p, "ok")
     \/ Return(p, "failed") /\ UNCHANGED file
  /\ Local

\* Bug: the entry goes back under the old name
BugRestore(p) ==
  /\ At(p, "restore")
  /\ Send(p, Stored(cmd[p].job.name, cmd[p].value, NoTimeout)) /\ Goto(p, "move")
  /\ UNCHANGED <<file, sent>>

\* rename: the clear text read from the file goes in under the new name
Restore(p) ==
  /\ At(p, "restore")
  /\ Send(p, Stored(cmd[p].job.to, cmd[p].value, NoTimeout)) /\ Goto(p, "move")
  /\ UNCHANGED <<file, sent>>

\* kp_safe_mkdir and renameat, which replaces a file that has the new name
Move(p) ==
  /\ At(p, "move")
  /\ LET old == cmd[p].job.name  new == cmd[p].job.to IN
       \/ /\ file[old] # NoFile /\ new \notin Unreachable
          /\ file' = [file EXCEPT ![old] = NoFile, ![new] = file[old]]
          /\ Return(p, "ok")
       \/ /\ file[old] = NoFile \/ new \in Unreachable
          /\ Return(p, "failed") /\ UNCHANGED file
  /\ Local

-----------------------------------------------------------------------------

Command(p) ==
  \/ Check(p) \/ Ask(p) \/ Answered(p) \/ ReadFile(p) \/ CfgStore(p) \/ Edit(p)
  \/ SaveAsk(p) \/ SaveAnswered(p) \/ SaveStore(p) \/ WriteFile(p) \/ Store(p)
  \/ Discard(p) \/ Discarded(p) \/ Unlink(p) \/ Restore(p) \/ Move(p) \/ Exit(p)
  \/ BrokenPipe(p)

Agent ==
  /\ \/ \E c \in Conns : Accept(c) \/ Dispatch(c)
     \/ \E t \in timers : TimeoutDiscard(t)
     \/ AgentKill
     \/ Tick /\ (Brisk => \A p \in Conns : ~Running(p))
  /\ UNCHANGED safeVars

SafeNext == Agent \/ \E p \in Conns : Start(p) \/ Command(p) \/ Interrupt(p)

SafeSpec == SafeInit /\ [][SafeNext]_allVars

\* The agent as in KpAgent; a command runs on, its user answers the prompts.
SafeFairness ==
  /\ \A c \in Conns :
       /\ WF_allVars(Accept(c) /\ UNCHANGED safeVars)
       /\ WF_allVars(Dispatch(c) /\ UNCHANGED safeVars)
       /\ WF_allVars(Command(c))
  /\ WF_allVars((\E t \in timers : TimeoutDiscard(t)) /\ UNCHANGED safeVars)

FairSafeSpec == SafeSpec /\ SafeFairness

-----------------------------------------------------------------------------
(* Properties                                                               *)

\* v is what the file of n holds, or what a save that failed since was to write
Agrees(n, v) == file[n] # NoFile /\ v \in {file[n].value, file[n].meant}

\* Between commands, what the agent shows of a safe is what its file holds, but for
\* a save that failed: kp_safe_save tells the agent before it writes the file.  Then
\* it may be what that save was to write, and nothing else (kp_safe_save,
\* kp_safe_delete and kp_safe_rename keep the two together).
Coherent ==
  Settled => \A n \in Names : storage[n] # Absent => Agrees(n, storage[n])

Succeeded(p, c) == cmd[p].job.cmd = c /\ At(p, "exit") /\ cmd[p].rc = "ok"

\* cat prints what the file holds, wherever it got it from, or what the save that
\* failed since then was to write.
CatTruthful ==
  \A p \in Conns : Succeeded(p, "cat") => Agrees(cmd[p].job.name, cmd[p].value)

\* A safe that was deleted is in no file and not in the agent
\* (kp_safe_delete.3).
DeleteComplete ==
  \A p \in Conns : Succeeded(p, "delete") =>
    file[cmd[p].job.name] = NoFile /\ storage[cmd[p].job.name] = Absent

\* Commands that write no safe
ReadingJobs == \A j \in Jobs : j.cmd \in {"open", "cat", "delete"}

\* A rename starts only when its new name is free and can be made.
RenamesToNew ==
  \A p \in Conns : At(p, "check") /\ cmd[p].job.cmd = "rename" =>
    file[cmd[p].job.to] = NoFile /\ cmd[p].job.to \notin Unreachable

\* An entry of the agent holds the secret of the safe it is filed under.
EntriesOwnValues == \A n \in Names : storage[n] # Absent => Of[storage[n]] = n

\* Every command comes to its end: no exchange with the agent waits for ever.
CommandsEnd == \A p \in Conns : Running(p) ~> At(p, "done")
=============================================================================
