----------------------------- MODULE AgentStartup -----------------------------
(***************************************************************************)
(* The processes of "kickpass agent [-d] [command]" from the fork to the   *)
(* end of the event loop: agent() of src/command/agent.c.  The parent      *)
(* stays in the foreground until the agent sends SIGCONT or dies.  The     *)
(* child is the second fork, for the command; when the command cannot be   *)
(* executed the child falls through and runs on as an agent, on the same   *)
(* listening socket.                                                       *)
(*                                                                         *)
(* A signal that comes before the parent blocks it is gone: SIGCHLD is     *)
(* ignored by default and SIGCONT does nothing to a process that runs.     *)
(***************************************************************************)
EXTENDS Integers, FiniteSets

CONSTANTS
  Daemonized, \* a subset of BOOLEAN: without and with -d
  Commanded,  \* a subset of BOOLEAN: is there a command?
  Failures    \* what may fail: "setup", "fork", "exec", "detach"

ASSUME CommandLineAssumption == Daemonized \subseteq BOOLEAN /\ Commanded \subseteq BOOLEAN

VARIABLES
  daemonize, command,  \* the command line
  pc,       \* where parent, agent and child are
  status,   \* how a process ended
  masked,   \* the parent blocks SIGCONT and SIGCHLD
  pending,  \* the signals that wait for the parent
  watch,    \* the agent's loop has an event for SIGCHLD
  stop,     \* event_base_loopexit was called
  served    \* history: the processes that told the parent they were ready

startupVars == <<daemonize, command, pc, status, masked, pending, watch, stop, served>>

Processes == {"parent", "agent", "child"}
Servers   == {"agent", "child"}

\* "code" is exit(ret) with an error, "signal" a death by a signal
Status == {"none", "ok", "code", "signal"}

StartupTypeOK ==
  /\ daemonize \in BOOLEAN /\ command \in BOOLEAN
  /\ pc \in [Processes -> {"none", "fork", "unmasked", "sigwait", "setup", "announced",
                           "detach", "ready", "loop", "born", "command", "ended"}]
  /\ status \in [Processes -> Status]
  /\ masked \in BOOLEAN /\ watch \in BOOLEAN /\ stop \in BOOLEAN
  /\ pending \subseteq {"SIGCONT", "SIGCHLD"}
  /\ served \subseteq Servers
  /\ watch => command   \* an agent without a command ends by a signal only

Running(p) == pc[p] \notin {"none", "ended"}

StartupInit ==
  /\ daemonize \in Daemonized /\ command \in Commanded
  /\ pc = [p \in Processes |-> IF daemonize
             THEN (IF p = "parent" THEN "fork" ELSE "none")
             ELSE (IF p = "agent" THEN "setup" ELSE "none")]
  /\ status = [p \in Processes |-> "none"]
  /\ masked = FALSE /\ pending = {} /\ watch = FALSE /\ stop = FALSE /\ served = {}

Goto(p, l) == pc' = [pc EXCEPT ![p] = l]

\* Bug: SIGCHLD is left out of the set
BugRaise(sig) ==
  pending' = IF masked /\ sig = "SIGCONT" THEN pending \cup {sig} ELSE pending

\* A signal for the parent waits there, or is lost
Raise(sig) == pending' = IF masked /\ Running("parent") THEN pending \cup {sig} ELSE pending

\* Bug: only a command that succeeds ends the agent
BugEnd(p, how) ==
  /\ Goto(p, "ended")
  /\ status' = [status EXCEPT ![p] = how]
  /\ IF p = "agent" THEN Raise("SIGCHLD") ELSE UNCHANGED pending
  /\ stop' = (stop \/ (p = "child" /\ watch /\ how = "ok"))

\* A process ends, and its parent gets SIGCHLD
End(p, how) ==
  /\ Goto(p, "ended")
  /\ status' = [status EXCEPT ![p] = how]
  /\ IF p = "agent" THEN Raise("SIGCHLD") ELSE UNCHANGED pending
  /\ stop' = (stop \/ (p = "child" /\ watch))

-----------------------------------------------------------------------------
(* The parent                                                               *)

ForkAgent ==
  /\ pc["parent"] = "fork"
  /\ \/ pc' = [pc EXCEPT !["parent"] = "unmasked", !["agent"] = "setup"]
        /\ UNCHANGED <<status, pending, stop>>
     \/ "fork" \in Failures /\ End("parent", "code")
  /\ UNCHANGED <<daemonize, command, masked, watch, served>>

\* sigprocmask, only now
Mask ==
  /\ pc["parent"] = "unmasked" /\ Goto("parent", "sigwait")
  /\ masked' = TRUE
  /\ UNCHANGED <<daemonize, command, status, pending, watch, stop, served>>

\* exit(wstatus): of the agent's own exit code nothing is left in the low byte
ExitStatus(wstatus) == IF wstatus = "signal" THEN "code" ELSE "ok"

\* Bug: whatever wakes the parent is good news
BugWake ==
  /\ pc["parent"] = "sigwait"
  /\ pending # {} /\ End("parent", "ok")
  /\ UNCHANGED <<daemonize, command, masked, watch, served>>

Wake ==
  /\ pc["parent"] = "sigwait"
  /\ \/ "SIGCHLD" \in pending /\ End("parent", ExitStatus(status["agent"]))
     \/ "SIGCONT" \in pending /\ End("parent", "ok")
  /\ UNCHANGED <<daemonize, command, masked, watch, served>>

-----------------------------------------------------------------------------
(* The agent, and the child that fell through                               *)

\* The socket is made and announced on stdout.  A failure goes to "out", where
\* event_base_free takes an event base that was never set.
SetUp ==
  /\ pc["agent"] = "setup"
  /\ \/ Goto("agent", "announced") /\ UNCHANGED <<status, pending, stop>>
     \/ "setup" \in Failures /\ \E how \in {"code", "signal"} : End("agent", how)
  /\ UNCHANGED <<daemonize, command, masked, watch, served>>

\* A fork that fails leaves -1 in child_pid and no command; nothing is said
ForkCommand ==
  /\ pc["agent"] = "announced"
  /\ \/ pc' = [pc EXCEPT !["agent"] = "detach", !["child"] = IF command THEN "born" ELSE "none"]
     \/ "fork" \in Failures /\ command /\ Goto("agent", "detach")
  /\ UNCHANGED <<daemonize, command, status, masked, pending, watch, stop, served>>

Exec ==
  /\ pc["child"] = "born"
  /\ \/ Goto("child", "command")
     \/ "exec" \in Failures /\ Goto("child", "detach")
  /\ UNCHANGED <<daemonize, command, status, masked, pending, watch, stop, served>>

\* chdir, /dev/null, and the signal to the parent
Detach(p) ==
  /\ pc[p] = "detach"
  /\ \/ /\ Goto(p, "ready")
        /\ served' = served \cup {p}
        /\ IF daemonize THEN Raise("SIGCONT") ELSE UNCHANGED pending
        /\ UNCHANGED <<status, stop>>
     \/ /\ "detach" \in Failures /\ daemonize
        /\ End(p, "code")
        /\ UNCHANGED served
  /\ UNCHANGED <<daemonize, command, masked, watch>>

\* Bug: child_pid is not looked at
BugEnterLoop(p) ==
  /\ pc[p] = "ready" /\ Goto(p, "loop")
  /\ watch' = TRUE
  /\ UNCHANGED <<daemonize, command, status, masked, pending, stop, served>>

\* The events of the loop; a SIGCHLD from before was ignored.  The child that fell
\* through has no child_pid.
EnterLoop(p) ==
  /\ pc[p] = "ready" /\ Goto(p, "loop")
  /\ watch' = (watch \/ (p = "agent" /\ command))
  /\ UNCHANGED <<daemonize, command, status, masked, pending, stop, served>>

LeaveLoop ==
  /\ pc["agent"] = "loop" /\ stop
  /\ End("agent", "ok")
  /\ UNCHANGED <<daemonize, command, masked, watch, served>>

CommandEnds ==
  /\ pc["child"] = "command"
  /\ \E how \in {"ok", "code"} : End("child", how)
  /\ UNCHANGED <<daemonize, command, masked, watch, served>>

\* kill(1)
Kill(p) ==
  /\ Running(p)
  /\ End(p, "signal")
  /\ UNCHANGED <<daemonize, command, masked, watch, served>>

-----------------------------------------------------------------------------

Parent == ForkAgent \/ Mask \/ Wake
Agent  == SetUp \/ ForkCommand \/ Detach("agent") \/ EnterLoop("agent") \/ LeaveLoop
Child  == Exec \/ Detach("child") \/ EnterLoop("child")

StartupNext == Parent \/ Agent \/ Child \/ CommandEnds \/ \E p \in Servers : Kill(p)

StartupSpec == StartupInit /\ [][StartupNext]_startupVars

\* The kernel runs every process; nobody has to end the command or kill anything
FairStartupSpec ==
  StartupSpec /\ WF_startupVars(Parent) /\ WF_startupVars(Agent) /\ WF_startupVars(Child)

-----------------------------------------------------------------------------
(* Properties                                                               *)

\* The kickpass the user typed ends with status 0 only when an agent is ready to
\* serve (kickpass.1, EXIT STATUS), whatever fails or dies; but for the agent's own
\* exit code, which ExitStatus loses.
ParentTold == status["parent"] = "ok" => served # {} \/ status["agent"] = "code"

\* The parent comes back to the shell, dead agents included, if it has blocked the
\* signals before the agent has done anything.
ParentReleased == pc["parent"] = "sigwait" /\ pc["agent"] = "setup" ~> pc["parent"] = "ended"

\* An agent that watches a running child ends when the child does.
AgentFollows ==
  [](watch /\ Running("child") => ([]Running("child") \/ <>(pc["agent"] = "ended")))
=============================================================================
