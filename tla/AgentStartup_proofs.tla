------------------------- MODULE AgentStartup_proofs --------------------------
(***************************************************************************)
(* Proofs about the start of the agent: whatever the command line says,    *)
(* and whatever fails.                                                     *)
(***************************************************************************)
EXTENDS AgentStartup, TLAPS

-----------------------------------------------------------------------------
(* Types                                                                    *)

Places == {"none", "fork", "unmasked", "sigwait", "setup", "announced",
           "detach", "ready", "loop", "born", "command", "ended"}

\* The end of a process keeps the types.
LEMMA EndTypes ==
  ASSUME StartupTypeOK, NEW p \in Processes, NEW how \in Status, End(p, how)
  PROVE  /\ pc' \in [Processes -> Places] /\ status' \in [Processes -> Status]
         /\ pending' \subseteq {"SIGCONT", "SIGCHLD"} /\ stop' \in BOOLEAN
<1>1. pc' \in [Processes -> Places] /\ status' \in [Processes -> Status]
  BY DEF End, Goto, StartupTypeOK, Places
<1>2. pending' \subseteq {"SIGCONT", "SIGCHLD"}
  BY DEF End, Raise, StartupTypeOK
<1>3. stop' \in BOOLEAN
  BY Zenon DEF End, StartupTypeOK
<1> QED
  BY <1>1, <1>2, <1>3

\* Every step keeps the types.
LEMMA StartupTypeStep ==
  ASSUME StartupTypeOK, [StartupNext]_startupVars
  PROVE  StartupTypeOK'
<1> USE DEF Processes, Servers, Status, Places
<1>1. CASE ForkAgent
  <2>1. CASE End("parent", "code")
    BY <1>1, <2>1, EndTypes DEF ForkAgent, StartupTypeOK
  <2>2. CASE ~End("parent", "code")
    BY <1>1, <2>2 DEF ForkAgent, StartupTypeOK
  <2> QED
    BY <2>1, <2>2
<1>2. CASE Mask
  BY <1>2 DEF Mask, Goto, StartupTypeOK
<1>3. CASE Wake
  BY <1>3, EndTypes DEF Wake, ExitStatus, StartupTypeOK
<1>4. CASE SetUp
  <2>1. CASE Goto("agent", "announced") /\ UNCHANGED <<status, pending, stop>>
    BY <1>4, <2>1 DEF SetUp, Goto, StartupTypeOK
  <2>2. CASE \E how \in {"code", "signal"} : End("agent", how)
    BY <1>4, <2>2, EndTypes DEF SetUp, StartupTypeOK
  <2> QED
    BY <1>4, <2>1, <2>2 DEF SetUp
<1>5. CASE LeaveLoop \/ CommandEnds
  <2>1. \E p \in Processes : \E how \in Status : End(p, how)
    BY <1>5 DEF LeaveLoop, CommandEnds
  <2>2. UNCHANGED <<daemonize, command, masked, watch, served>>
    BY <1>5 DEF LeaveLoop, CommandEnds
  <2> QED
    BY <2>1, <2>2, EndTypes DEF StartupTypeOK
<1>6. CASE ForkCommand
  BY <1>6 DEF ForkCommand, Goto, StartupTypeOK
<1>7. CASE Exec
  BY <1>7 DEF Exec, Goto, StartupTypeOK
<1>8. ASSUME NEW p \in Servers, Detach(p)
      PROVE  StartupTypeOK'
  <2>1. served' \subseteq Servers /\ UNCHANGED <<daemonize, command, masked, watch>>
    BY <1>8 DEF Detach, StartupTypeOK
  <2>2. CASE End(p, "code")
    BY <2>1, <2>2, EndTypes DEF StartupTypeOK
  <2>3. CASE ~End(p, "code")
    <3>1. pc' \in [Processes -> Places] /\ UNCHANGED <<status, stop>>
      BY <1>8, <2>3 DEF Detach, Goto, StartupTypeOK
    <3>2. pending' \subseteq {"SIGCONT", "SIGCHLD"}
      BY <1>8, <2>3 DEF Detach, Raise, StartupTypeOK
    <3> QED
      BY <2>1, <3>1, <3>2 DEF StartupTypeOK
  <2> QED
    BY <2>2, <2>3
<1>9. ASSUME NEW p \in Servers, EnterLoop(p)
      PROVE  StartupTypeOK'
  <2>1. watch' \in BOOLEAN /\ (watch' => command)
    BY <1>9, Zenon DEF EnterLoop, StartupTypeOK
  <2> QED
    BY <1>9, <2>1 DEF EnterLoop, Goto, StartupTypeOK
<1>10. ASSUME NEW p \in Servers, Kill(p)
      PROVE  StartupTypeOK'
  BY <1>10, EndTypes DEF Kill, StartupTypeOK, Places
<1>11. CASE UNCHANGED startupVars
  BY <1>11 DEF startupVars, StartupTypeOK
<1> QED
  BY <1>1, <1>2, <1>3, <1>4, <1>5, <1>6, <1>7, <1>8, <1>9, <1>10, <1>11
  DEF StartupNext, Parent, Agent, Child

\* The processes keep their types, for any command line and any failures.
THEOREM StartupTypes == StartupSpec => []StartupTypeOK
<1>1. StartupInit => StartupTypeOK
  BY CommandLineAssumption DEF StartupInit, StartupTypeOK, Processes, Status
<1> QED
  BY <1>1, StartupTypeStep, PTL DEF StartupSpec

-----------------------------------------------------------------------------
(* What the parent is told                                                  *)

\* Only who is ready raises SIGCONT, and only the death of the agent SIGCHLD; the agent
\* ends well only from its loop, where it has been ready; how it ended stays.
ToldInv ==
  /\ "SIGCONT" \in pending => served # {}
  /\ "SIGCHLD" \in pending => status["agent"] # "none"
  /\ status["agent"] # "none" => pc["agent"] = "ended"
  /\ pc["parent"] = "fork" => pc["agent"] = "none"
  /\ pc["agent"] \in {"ready", "loop"} \/ status["agent"] = "ok" => served # {}
  /\ ParentTold

\* What ends by itself or is killed breaks nothing, when it is not the parent and does
\* not call itself well before it was ready.
LEMMA ServerEnds ==
  ASSUME StartupTypeOK, ToldInv, NEW p \in Servers, NEW how \in Status \ {"none"}, End(p, how),
         Running(p), how = "ok" /\ p = "agent" => served # {}, served' = served
  PROVE  ToldInv'
<1> USE DEF StartupTypeOK, Servers, Processes
<1>1. /\ pc'["parent"] = pc["parent"] /\ status'["parent"] = status["parent"]
      /\ pc[p] \notin {"none", "ended"}
  BY DEF End, Goto, Running
<1>2. CASE p = "agent"
  <2>1. pc'["agent"] = "ended" /\ status'["agent"] = how /\ status["agent"] = "none"
    BY <1>1, <1>2 DEF End, Goto, ToldInv
  <2>2. pending' \subseteq pending \cup {"SIGCHLD"}
    BY <1>2 DEF End, Raise
  <2>3. served # {} <=> served' # {}
    OBVIOUS
  <2> QED
    BY <1>1, <1>2, <2>1, <2>2 DEF ToldInv, ParentTold, Status
<1>3. CASE p = "child"
  BY <1>1, <1>3 DEF End, Goto, ToldInv, ParentTold
<1> QED
  BY <1>2, <1>3

\* Every step keeps ToldInv.
LEMMA ToldStep ==
  ASSUME StartupTypeOK, ToldInv, [StartupNext]_startupVars
  PROVE  ToldInv'
<1> USE DEF StartupTypeOK, Servers, Processes
<1>1. CASE ForkAgent
  <2>1. CASE End("parent", "code")
    BY <1>1, <2>1 DEF ForkAgent, End, Goto, ToldInv, ParentTold
  <2>2. CASE ~End("parent", "code")
    BY <1>1, <2>2 DEF ForkAgent, ToldInv, ParentTold
  <2> QED
    BY <2>1, <2>2
<1>2. CASE Mask
  BY <1>2 DEF Mask, Goto, ToldInv, ParentTold
<1>3. CASE Wake
  <2>1. UNCHANGED <<pending, served>>
    BY <1>3 DEF Wake, End
  <2>2. pc'["agent"] = pc["agent"] /\ status'["agent"] = status["agent"] /\ pc'["parent"] = "ended"
    BY <1>3 DEF Wake, End, Goto
  <2>3. CASE "SIGCONT" \in pending
    BY <2>1, <2>2, <2>3 DEF ToldInv, ParentTold
  <2>4. CASE "SIGCONT" \notin pending
    <3>1. "SIGCHLD" \in pending /\ status'["parent"] = ExitStatus(status["agent"])
      BY <1>3, <2>4 DEF Wake, End
    <3>2. status'["parent"] = "ok" => status["agent"] \in {"ok", "code"}
      BY <3>1 DEF ExitStatus, ToldInv, Status
    <3> QED
      BY <2>1, <2>2, <3>2 DEF ToldInv, ParentTold
  <2> QED
    BY <2>3, <2>4
<1>4. CASE SetUp
  <2>1. CASE Goto("agent", "announced") /\ UNCHANGED <<status, pending, stop>>
    BY <1>4, <2>1 DEF SetUp, Goto, ToldInv, ParentTold
  <2>2. CASE \E how \in {"code", "signal"} : End("agent", how)
    BY <1>4, <2>2, ServerEnds DEF SetUp, Running, Status
  <2> QED
    BY <1>4, <2>1, <2>2 DEF SetUp
<1>5. CASE LeaveLoop
  BY <1>5, ServerEnds DEF LeaveLoop, Running, Status, ToldInv
<1>6. CASE CommandEnds
  BY <1>6, ServerEnds DEF CommandEnds, Running, Status
<1>7. CASE ForkCommand
  <2>1. pc'["agent"] = "detach" /\ pc'["parent"] = pc["parent"] /\ pc["agent"] = "announced"
    BY <1>7 DEF ForkCommand, Goto
  <2> QED
    BY <1>7, <2>1 DEF ForkCommand, ToldInv, ParentTold
<1>8. CASE Exec
  BY <1>8 DEF Exec, Goto, ToldInv, ParentTold
<1>9. ASSUME NEW p \in Servers, Detach(p)
      PROVE  ToldInv'
  <2>1. CASE End(p, "code") /\ UNCHANGED served
    BY <1>9, <2>1, ServerEnds DEF Detach, Running, Status
  <2>2. CASE ~(End(p, "code") /\ UNCHANGED served)
    <3>1. served' # {} /\ UNCHANGED status /\ pc'["parent"] = pc["parent"]
      BY <1>9, <2>2 DEF Detach, Goto
    <3>2. pending' \subseteq pending \cup {"SIGCONT"}
      BY <1>9, <2>2 DEF Detach, Raise
    <3>3. p = "child" => pc'["agent"] = pc["agent"]
      BY <1>9, <2>2 DEF Detach, Goto
    <3>4. p = "agent" => pc["agent"] = "detach"
      BY <1>9 DEF Detach
    <3> QED
      BY <3>1, <3>2, <3>3, <3>4 DEF ToldInv, ParentTold
  <2> QED
    BY <2>1, <2>2
<1>10. ASSUME NEW p \in Servers, EnterLoop(p)
       PROVE  ToldInv'
  BY <1>10 DEF EnterLoop, Goto, ToldInv, ParentTold
<1>11. ASSUME NEW p \in Servers, Kill(p)
       PROVE  ToldInv'
  BY <1>11, ServerEnds DEF Kill, Status
<1>12. CASE UNCHANGED startupVars
  BY <1>12 DEF startupVars, ToldInv, ParentTold
<1> QED
  BY <1>1, <1>2, <1>3, <1>4, <1>5, <1>6, <1>7, <1>8, <1>9, <1>10, <1>11, <1>12
  DEF StartupNext, Parent, Agent, Child

\* The kickpass the user typed exits with 0 only when an agent has been ready to serve, or
\* the agent's own exit code was lost: no death of the agent, however early, and no order
\* of the two signals can make the parent report a success.
THEOREM ParentIsTold == StartupSpec => []ParentTold
<1>1. StartupInit => StartupTypeOK /\ ToldInv
  <2>1. StartupInit => StartupTypeOK
    BY CommandLineAssumption DEF StartupInit, StartupTypeOK, Processes, Status
  <2>2. StartupInit => ToldInv
    BY DEF StartupInit, ToldInv, ParentTold, Processes
  <2> QED
    BY <2>1, <2>2
<1>2. StartupTypeOK /\ ToldInv /\ [StartupNext]_startupVars => (StartupTypeOK /\ ToldInv)'
  BY StartupTypeStep, ToldStep
<1>3. ToldInv => ParentTold
  BY DEF ToldInv
<1> QED
  BY <1>1, <1>2, <1>3, PTL DEF StartupSpec
=============================================================================
