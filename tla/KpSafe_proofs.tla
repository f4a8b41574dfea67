---------------------------- MODULE KpSafe_proofs ----------------------------
(***************************************************************************)
(* Theorems about the commands at work together with the agent (KpSafe),   *)
(* for every number of safes, commands, connections and timers.            *)
(***************************************************************************)
EXTENDS KpSafe, KpAgent_proofs

Ends == {"none", "ok", "failed", "killed"}

-----------------------------------------------------------------------------
(* The record of a command, one replacement of fields after the other       *)

SetPc(c, x) == [c EXCEPT !.pc = x]
SetRc(c, x, r) == [c EXCEPT !.pc = x, !.rc = r]
SetStage(c, x) == [c EXCEPT !.pc = x, !.stage = "safe"]
SetValue(c, v) == [c EXCEPT !.value = v]
SetSecret(c, v, w) == [c EXCEPT !.value = v, !.password = w]
SetEdited(c, v, w, x) == [c EXCEPT !.value = v, !.password = w, !.pc = x]
SetFound(c, x, n) == [c EXCEPT !.pc = x, !.found = n]
SetRefused(c, j) == [c EXCEPT !.pc = "exit", !.job = j, !.rc = "failed"]
SetBegun(c, j, l, s) == [c EXCEPT !.pc = "check", !.job = j, !.online = l, !.stage = s]

\* What is left of c in d, and what d has else
Like(d, pc, stage, job, online, password, value, found, rc) ==
  /\ d \in Cmd /\ d.pc = pc /\ d.stage = stage /\ d.job = job /\ d.online = online
  /\ d.password = password /\ d.value = value /\ d.found = found /\ d.rc = rc

LEMMA SetPcFields ==
  ASSUME NEW c \in Cmd, NEW x \in Places
  PROVE  Like(SetPc(c, x), x, c.stage, c.job, c.online, c.password, c.value, c.found, c.rc)
BY DEF Like, SetPc, Cmd, Places, Ends

LEMMA SetRcFields ==
  ASSUME NEW c \in Cmd, NEW x \in Places, NEW r \in Ends
  PROVE  Like(SetRc(c, x, r), x, c.stage, c.job, c.online, c.password, c.value, c.found, r)
BY DEF Like, SetRc, Cmd, Places, Ends

LEMMA SetStageFields ==
  ASSUME NEW c \in Cmd, NEW x \in Places
  PROVE  Like(SetStage(c, x), x, "safe", c.job, c.online, c.password, c.value, c.found, c.rc)
BY DEF Like, SetStage, Cmd, Places, Ends

LEMMA SetValueFields ==
  ASSUME NEW c \in Cmd, NEW v \in Values
  PROVE  Like(SetValue(c, v), c.pc, c.stage, c.job, c.online, c.password, v, c.found, c.rc)
BY DEF Like, SetValue, Cmd, Places, Ends

LEMMA SetSecretFields ==
  ASSUME NEW c \in Cmd, NEW v \in Values, NEW w \in Passwords
  PROVE  Like(SetSecret(c, v, w), c.pc, c.stage, c.job, c.online, w, v, c.found, c.rc)
BY DEF Like, SetSecret, Cmd, Places, Ends

LEMMA SetEditedFields ==
  ASSUME NEW c \in Cmd, NEW v \in Values, NEW w \in Passwords, NEW x \in Places
  PROVE  Like(SetEdited(c, v, w, x), x, c.stage, c.job, c.online, w, v, c.found, c.rc)
BY DEF Like, SetEdited, Cmd, Places, Ends

LEMMA SetFoundFields ==
  ASSUME NEW c \in Cmd, NEW x \in Places, NEW n \in Names
  PROVE  Like(SetFound(c, x, n), x, c.stage, c.job, c.online, c.password, c.value, n, c.rc)
BY DEF Like, SetFound, Cmd, Places, Ends

LEMMA SetRefusedFields ==
  ASSUME NEW c \in Cmd, NEW j \in Jobs
  PROVE  Like(SetRefused(c, j), "exit", c.stage, j, c.online, c.password, c.value, c.found, "failed")
BY DEF Like, SetRefused, Cmd, Places, Ends

LEMMA SetBegunFields ==
  ASSUME NEW c \in Cmd, NEW j \in Jobs, NEW l \in BOOLEAN, NEW s \in {"config", "safe"}
  PROVE  Like(SetBegun(c, j, l, s), "check", s, j, l, c.password, c.value, c.found, c.rc)
BY DEF Like, SetBegun, Cmd, Places, Ends

-----------------------------------------------------------------------------
(* Types                                                                    *)

\* A command that is about to send or to write a secret has one, and one that is
\* about to write a file has a key.  create does not open the safe it creates.
Fit(c) ==
  /\ c \in Cmd
  /\ c.pc \in {"cfgstore", "store", "saveask", "saveanswer", "savestore", "write",
               "discard", "discarded", "restore"} => c.value \in Values
  /\ c.pc \in {"saveask", "saveanswer", "savestore", "write"} => c.password \in Passwords
  /\ c.pc \in {"ask", "answer", "read"} => ~(c.stage = "safe" /\ c.job.cmd = "create")

FileType == file \in [Names -> File \cup {NoFile}]
CmdFit   == cmd \in [Conns -> Cmd] /\ \A p \in Conns : Fit(cmd[p])

SafeInv == TypeOK /\ FileType /\ CmdFit

\* What a command becomes is all there is to say of cmd.
LEMMA StepFit ==
  ASSUME CmdFit, NEW p \in Conns, NEW c, Fit(c), Step(p, c)
  PROVE  CmdFit'
BY DEF CmdFit, Step, Fit

LEMMA JobFields ==
  ASSUME NEW c \in Cmd
  PROVE  /\ c.job \in Jobs /\ c.job.name \in Names /\ c.job.to \in Names
         /\ c.job.cmd \in Commands /\ c.job.keep \in BOOLEAN
         /\ c.online \in BOOLEAN /\ c.stage \in {"config", "safe"} /\ c.found \in Names
         /\ c.pc \in Places
BY JobsAssumption DEF Cmd

LEMMA SubjectType ==
  ASSUME CmdFit, NEW p \in Conns
  PROVE  Subject(p) \in Names
BY JobFields, ConfigAssumption DEF CmdFit, Subject

\* Where the caller of kp_safe_open goes on, from the command and what it is about
Continues(d, stage, command, online) ==
  /\ stage = "config" /\ online => d.pc = "cfgstore" /\ d.stage = "config"
  /\ stage = "config" /\ ~online => d.pc = "check" /\ d.stage = "safe"
  /\ stage = "safe" => d.stage = "safe"
  /\ stage = "safe" /\ command = "open" => d.pc = "store"
  /\ stage = "safe" /\ command = "cat" => d.pc = "exit"
  /\ stage = "safe" /\ command = "edit" => d.pc = "edit"
  /\ stage = "safe" /\ command = "delete" => d.pc = IF online THEN "discard" ELSE "unlink"
  /\ stage = "safe" /\ command = "rename" => d.pc = IF online THEN "discard" ELSE "move"

LEMMA OpenedFields ==
  ASSUME NEW c \in Cmd, ~(c.stage = "safe" /\ c.job.cmd = "create")
  PROVE  /\ Opened(c) \in Cmd
         /\ Opened(c).job = c.job /\ Opened(c).online = c.online /\ Opened(c).found = c.found
         /\ Opened(c).password = c.password /\ Opened(c).value = c.value
         /\ Continues(Opened(c), c.stage, c.job.cmd, c.online)
<1>1. c.job.cmd \in Commands /\ c.online \in BOOLEAN /\ c.stage \in {"config", "safe"}
  BY JobFields
<1>2. CASE c.stage = "config" /\ c.online
  <2>1. Opened(c) = SetPc(c, "cfgstore")
    BY <1>2 DEF Opened, CfgLoad, SetPc
  <2>2. "cfgstore" \in Places
    BY DEF Places, Ends
  <2>3. Like(Opened(c), "cfgstore", c.stage, c.job, c.online, c.password, c.value, c.found, c.rc)
    BY <2>1, <2>2, SetPcFields
  <2> QED BY <1>2, <2>3 DEF Continues, Like
<1>3. CASE c.stage = "config" /\ ~c.online
  <2>1. Opened(c) = SetStage(c, "check")
    BY <1>3 DEF Opened, CfgLoad, SetStage
  <2>2. "check" \in Places
    BY DEF Places, Ends
  <2> QED BY <1>1, <1>3, <2>1, <2>2, SetStageFields DEF Continues, Like
<1>4. CASE c.stage = "safe" /\ c.job.cmd = "open"
  <2>1. Opened(c) = SetPc(c, "store")
    BY <1>4 DEF Opened, OpenSafe, SetPc
  <2>2. "store" \in Places
    BY DEF Places, Ends
  <2> QED BY <1>1, <1>4, <2>1, <2>2, SetPcFields DEF Continues, Like
<1>5. CASE c.stage = "safe" /\ c.job.cmd = "cat"
  <2>1. Opened(c) = SetRc(c, "exit", "ok")
    BY <1>5 DEF Opened, Cat, SetRc
  <2>2. "exit" \in Places /\ "ok" \in Ends
    BY DEF Places, Ends
  <2> QED BY <1>1, <1>5, <2>1, <2>2, SetRcFields DEF Continues, Like
<1>6. CASE c.stage = "safe" /\ c.job.cmd = "edit"
  <2>1. Opened(c) = SetPc(c, "edit")
    BY <1>6 DEF Opened, EditSafe, SetPc
  <2>2. "edit" \in Places
    BY DEF Places, Ends
  <2> QED BY <1>1, <1>6, <2>1, <2>2, SetPcFields DEF Continues, Like
<1>7. CASE c.stage = "safe" /\ c.job.cmd = "delete"
  <2>1. Opened(c) = SetPc(c, IF c.online THEN "discard" ELSE "unlink")
    BY <1>7 DEF Opened, Delete, SetPc
  <2>2. "discard" \in Places /\ "unlink" \in Places
    BY DEF Places, Ends
  <2> QED BY <1>1, <1>7, <2>1, <2>2, SetPcFields DEF Continues, Like
<1>8. CASE c.stage = "safe" /\ c.job.cmd = "rename"
  <2>1. Opened(c) = SetPc(c, IF c.online THEN "discard" ELSE "move")
    BY <1>8 DEF Opened, DoRename, SetPc
  <2>2. "discard" \in Places /\ "move" \in Places
    BY DEF Places, Ends
  <2> QED BY <1>1, <1>8, <2>1, <2>2, SetPcFields DEF Continues, Like
<1> QED
  BY <1>1, <1>2, <1>3, <1>4, <1>5, <1>6, <1>7, <1>8 DEF Commands

\* The other commands go on as they were.
Becomes(p, pc, stage, job, online, password, value, found, rc) ==
  /\ cmd' \in [Conns -> Cmd]
  /\ \A q \in Conns \ {p} : cmd'[q] = cmd[q]
  /\ Like(cmd'[p], pc, stage, job, online, password, value, found, rc)

LEMMA StepFields ==
  ASSUME cmd \in [Conns -> Cmd], NEW p \in Conns, NEW d \in Cmd, Step(p, d)
  PROVE  cmd' \in [Conns -> Cmd] /\ cmd'[p] = d /\ \A q \in Conns \ {p} : cmd'[q] = cmd[q]
BY DEF Step

LEMMA GotoFields ==
  ASSUME cmd \in [Conns -> Cmd], NEW p \in Conns, NEW x \in Places, Goto(p, x)
  PROVE  LET c == cmd[p] IN
         Becomes(p, x, c.stage, c.job, c.online, c.password, c.value, c.found, c.rc)
<1>1. Step(p, SetPc(cmd[p], x))
  BY DEF Goto, SetPc
<1> QED
  BY <1>1, SetPcFields, StepFields DEF Becomes, Like

LEMMA ReturnFields ==
  ASSUME cmd \in [Conns -> Cmd], NEW p \in Conns, NEW r \in {"ok", "failed"}, Return(p, r)
  PROVE  LET c == cmd[p] IN
         Becomes(p, "exit", c.stage, c.job, c.online, c.password, c.value, c.found, r)
<1>1. Step(p, SetRc(cmd[p], "exit", r)) /\ "exit" \in Places /\ r \in Ends
  BY DEF Return, SetRc, Places, Ends
<1> QED
  BY <1>1, SetRcFields, StepFields DEF Becomes, Like

LEMMA KilledFields ==
  ASSUME cmd \in [Conns -> Cmd], NEW p \in Conns, Killed(p)
  PROVE  LET c == cmd[p] IN
         Becomes(p, "done", c.stage, c.job, c.online, c.password, c.value, c.found, "killed")
<1>1. Step(p, SetRc(cmd[p], "done", "killed")) /\ "done" \in Places /\ "killed" \in Ends
  BY DEF Killed, SetRc, Places, Ends
<1> QED
  BY <1>1, SetRcFields, StepFields DEF Becomes, Like

-----------------------------------------------------------------------------
(* What is sent and received                                                *)

LEMMA EmptyRow == ASSUME NEW S PROVE <<>> \in Seq(S)
OBVIOUS

LEMMA RowFacts ==
  ASSUME NEW S, NEW s \in Seq(S)
  PROVE  /\ \A m \in S : Append(s, m) \in Seq(S)
         /\ s # <<>> => Head(s) \in S /\ Tail(s) \in Seq(S)
OBVIOUS

LEMMA QuietType == ASSUME TypeOK, UNCHANGED vars PROVE TypeOK'
BY DEF TypeOK, vars

LEMMA SendType ==
  ASSUME TypeOK, NEW p \in Conns, NEW m \in Request, Send(p, m), UNCHANGED sent
  PROVE  TypeOK' /\ UNCHANGED storage
<1>1. req' \in [Conns -> Seq(Request)]
  BY DEF TypeOK, Send
<1> QED
  BY <1>1 DEF TypeOK, Send, agentVars

LEMMA HearsType ==
  ASSUME TypeOK, NEW p \in Conns, NEW op, Hears(p, op), UNCHANGED sent
  PROVE  TypeOK' /\ UNCHANGED storage
<1>1. CASE Receive(p)
  <2>1. Client(p)
    BY <1>1 DEF Client
  <2> QED BY <1>1, <2>1, ClientType DEF Receive, agentVars
<1>2. CASE UNCHANGED <<agentVars, channelVars>>
  BY <1>2, QuietType DEF agentVars, channelVars, vars
<1> QED
  BY <1>1, <1>2 DEF Hears

LEMMA HearsNoType ==
  ASSUME TypeOK, NEW p \in Conns, NEW op, HearsNo(p, op), UNCHANGED sent
  PROVE  TypeOK' /\ UNCHANGED storage
BY HearsType DEF HearsNo

LEMMA ChannelType ==
  ASSUME TypeOK, NEW p \in Conns, Connect(p) \/ Close(p), UNCHANGED sent
  PROVE  TypeOK' /\ UNCHANGED storage
<1>1. Client(p)
  BY DEF Client
<1> QED
  BY <1>1, ClientType DEF Connect, Close, agentVars

LEMMA FoundType ==
  ASSUME TypeOK, NEW p \in Conns, Hears(p, "SEARCH")
  PROVE  /\ Receive(p) /\ Head(rep[p]) \in Reply /\ Head(rep[p]).op = "SEARCH"
         /\ Head(rep[p]).unsafe \in Unsafe
         /\ Head(rep[p]).unsafe.name \in Names /\ Head(rep[p]).unsafe.value \in Values
<1>1. Receive(p) /\ Head(rep[p]).op = "SEARCH"
  BY DEF Hears
<1>2. Head(rep[p]) \in Reply
  BY <1>1 DEF Receive, TypeOK
<1>3. Head(rep[p]).unsafe \in Unsafe
  BY <1>1, <1>2 DEF Reply
<1> QED
  BY <1>1, <1>2, <1>3 DEF Unsafe

LEMMA MessageTypes ==
  ASSUME NEW n \in Names
  PROVE  /\ [op |-> "SEARCH", name |-> n] \in Request
         /\ [op |-> "DISCARD", name |-> n] \in Request
BY DEF Request

LEMMA StoredType ==
  ASSUME NEW n \in Names, NEW v \in Values, NEW t \in Int
  PROVE  Stored(n, v, t) \in Request
BY DEF Request, Stored, Unsafe

-----------------------------------------------------------------------------
(* One lemma for each step of a command: where it goes on                   *)

LEMMA InitSafe == SafeInit => SafeInv
<1> SUFFICES ASSUME SafeInit PROVE SafeInv
  OBVIOUS
<1>1. TypeOK
  BY InitType DEF SafeInit
<1>2. FileType
  BY ConfigAssumption, ValuesAssumption DEF SafeInit, FileType, File, Whole, Passwords
<1>3. ASSUME NEW p \in Conns PROVE Fit(cmd[p]) /\ cmd[p].stage = "safe" /\ cmd[p].pc = "idle"
  <2>1. PICK j \in Jobs : j = CHOOSE i \in Jobs : TRUE
    BY JobsAssumption
  <2>2. cmd[p] = [pc |-> "idle", stage |-> "safe", job |-> j,
                  online |-> FALSE, password |-> NoPassword, value |-> NoValue,
                  found |-> Config, rc |-> "none"]
    BY <2>1 DEF SafeInit
  <2> QED BY <2>2, ConfigAssumption DEF Fit, Cmd, Places
<1> QED
  BY <1>1, <1>2, <1>3 DEF SafeInv, CmdFit, SafeInit, Fit

\* A command that is as fit afterwards leaves all of them so.
LEMMA BecomesFit ==
  ASSUME CmdFit, NEW p \in Conns, cmd' \in [Conns -> Cmd],
         \A q \in Conns \ {p} : cmd'[q] = cmd[q], Fit(cmd'[p])
  PROVE  CmdFit'
BY DEF CmdFit, Fit

LEMMA LocalType ==
  ASSUME SafeInv, Local PROVE TypeOK' /\ UNCHANGED vars
BY QuietType DEF SafeInv, Local, vars, agentVars, channelVars

LEMMA CheckFit == ASSUME SafeInv, NEW p \in Conns, Check(p) PROVE SafeInv'
<1>0. TypeOK' /\ FileType' /\ cmd \in [Conns -> Cmd] /\ Fit(cmd[p])
  BY LocalType DEF Check, SafeInv, FileType, CmdFit
<1>1. CASE Creating(p) /\ Goto(p, "edit")
  BY <1>0, <1>1, GotoFields, BecomesFit DEF Becomes, Like, Fit, SafeInv, Places
<1>2. CASE Refuse(p)
  <2>1. PICK r \in {"ok", "failed"} : Return(p, r)
    BY <1>2 DEF Refuse
  <2> QED BY <1>0, <2>1, ReturnFields, BecomesFit DEF Becomes, Like, Fit, SafeInv
<1>3. CASE ~Creating(p) /\ Goto(p, IF cmd[p].online /\ ~Forced(p) THEN "ask" ELSE "read")
  <2>1. PICK x \in {"ask", "read"} : Goto(p, x)
    BY <1>3, Zenon
  <2> QED BY <1>0, <1>3, <2>1, GotoFields, BecomesFit DEF Becomes, Like, Fit, SafeInv, Places, Creating
<1> QED
  BY <1>1, <1>2, <1>3 DEF Check

LEMMA AskFit == ASSUME SafeInv, NEW p \in Conns, Ask(p) PROVE SafeInv' /\ UNCHANGED storage
<1>0. FileType' /\ cmd \in [Conns -> Cmd] /\ Fit(cmd[p]) /\ Goto(p, "answer")
  BY DEF Ask, SafeInv, FileType, CmdFit
<1>1. TypeOK' /\ UNCHANGED storage
  BY SubjectType, MessageTypes, SendType DEF Ask, SafeInv
<1>2. CmdFit'
  BY <1>0, GotoFields, BecomesFit DEF Becomes, Like, Fit, SafeInv, Places, Ask, At
<1> QED
  BY <1>0, <1>1, <1>2 DEF SafeInv

\* kp_safe_open has succeeded with the secret v.
GoesOn(p, v) ==
  /\ \A q \in Conns \ {p} : cmd'[q] = cmd[q]
  /\ cmd'[p].value = v /\ cmd'[p].job = cmd[p].job /\ cmd'[p].online = cmd[p].online
  /\ Continues(cmd'[p], cmd[p].stage, cmd[p].job.cmd, cmd[p].online)

LEMMA AnsweredFit ==
  ASSUME SafeInv, NEW p \in Conns, Answered(p)
  PROVE  /\ SafeInv' /\ UNCHANGED storage
         /\ \/ HearsNo(p, "SEARCH") /\ Goto(p, "read")
            \/ Hears(p, "SEARCH") /\ GoesOn(p, Head(rep[p]).unsafe.value)
<1>0. FileType' /\ cmd \in [Conns -> Cmd] /\ Fit(cmd[p]) /\ cmd[p] \in Cmd
  BY DEF Answered, SafeInv, FileType, CmdFit
<1>1. TypeOK' /\ UNCHANGED storage
  BY HearsType, HearsNoType DEF Answered, SafeInv
<1>2. CASE HearsNo(p, "SEARCH") /\ Goto(p, "read")
  <2>1. CmdFit'
    BY <1>0, <1>2, GotoFields, BecomesFit DEF Becomes, Like, Fit, SafeInv, Places, Answered, At
  <2> QED BY <1>0, <1>1, <1>2, <2>1 DEF SafeInv
<1>3. CASE /\ Hears(p, "SEARCH")
           /\ Step(p, Opened([cmd[p] EXCEPT !.value = Head(rep[p]).unsafe.value]))
  <2>1. PICK v \in Values : v = Head(rep[p]).unsafe.value
    BY <1>3, FoundType DEF SafeInv
  <2>2. PICK c : c = SetValue(cmd[p], v)
    OBVIOUS
  <2>3. Step(p, Opened(c))
    BY <1>3, <2>1, <2>2 DEF SetValue
  <2>4. Like(c, "answer", cmd[p].stage, cmd[p].job, cmd[p].online, cmd[p].password, v, cmd[p].found, cmd[p].rc)
    BY <1>0, <2>2, SetValueFields DEF Answered, At
  <2>5. c \in Cmd /\ ~(c.stage = "safe" /\ c.job.cmd = "create")
    BY <1>0, <2>4 DEF Like, Fit, Answered, At
  <2>6. Opened(c) \in Cmd /\ Opened(c).value = v /\ Opened(c).job = c.job
        /\ Continues(Opened(c), c.stage, c.job.cmd, c.online)
    BY <2>4, <2>5, OpenedFields DEF Like
  <2>7. Fit(Opened(c))
    BY <2>5, <2>6, JobFields DEF Fit, Continues, Commands
  <2>8. CmdFit' /\ cmd'[p] = Opened(c) /\ \A q \in Conns \ {p} : cmd'[q] = cmd[q]
    BY <1>0, <2>3, <2>6, <2>7, StepFields, BecomesFit DEF SafeInv
  <2>9. Opened(c).online = cmd[p].online /\ c.stage = cmd[p].stage /\ c.job = cmd[p].job
        /\ c.online = cmd[p].online
    BY <2>4, <2>5, OpenedFields DEF Like
  <2>10. GoesOn(p, v)
    BY <2>6, <2>8, <2>9 DEF GoesOn
  <2> QED BY <1>0, <1>1, <1>3, <2>1, <2>8, <2>10 DEF SafeInv
<1> QED
  BY <1>2, <1>3 DEF Answered

LEMMA ReadFileFit ==
  ASSUME SafeInv, NEW p \in Conns, ReadFile(p)
  PROVE  /\ SafeInv' /\ UNCHANGED <<vars, file>>
         /\ \/ Refuse(p)
            \/ file[Subject(p)] # NoFile /\ GoesOn(p, file[Subject(p)].value)
<1>0. TypeOK' /\ FileType' /\ cmd \in [Conns -> Cmd] /\ Fit(cmd[p]) /\ cmd[p] \in Cmd
      /\ UNCHANGED <<vars, file>>
  BY LocalType DEF ReadFile, SafeInv, FileType, CmdFit
<1>1. CASE Refuse(p)
  <2>1. PICK r \in {"ok", "failed"} : Return(p, r)
    BY <1>1 DEF Refuse
  <2> QED BY <1>0, <1>1, <2>1, ReturnFields, BecomesFit DEF Becomes, Like, Fit, SafeInv
<1>2. ASSUME NEW w \in Password(p), NEW f, f = file[Subject(p)], f # NoFile, f.key = w,
             Step(p, Opened([cmd[p] EXCEPT !.value = f.value, !.password = w]))
      PROVE  SafeInv' /\ GoesOn(p, f.value)
  <2>1. w \in Passwords
    BY <1>0 DEF Password, Passwords, Cmd
  <2>2. PICK v \in Values : v = f.value
    <3>1. f \in File /\ f.key # NoPassword
      BY <1>2, <2>1, SubjectType, PasswordAssumption DEF SafeInv, FileType, Passwords
    <3> QED BY <3>1 DEF File, Whole, Torn
  <2>3. PICK c : c = SetSecret(cmd[p], v, w)
    OBVIOUS
  <2>4. Step(p, Opened(c))
    BY <1>2, <2>2, <2>3 DEF SetSecret
  <2>5. Like(c, "read", cmd[p].stage, cmd[p].job, cmd[p].online, w, v, cmd[p].found, cmd[p].rc)
    BY <1>0, <2>1, <2>3, SetSecretFields DEF ReadFile, At
  <2>6. c \in Cmd /\ ~(c.stage = "safe" /\ c.job.cmd = "create")
    BY <1>0, <2>5 DEF Like, Fit, ReadFile, At
  <2>7. Opened(c) \in Cmd /\ Opened(c).value = v /\ Opened(c).job = c.job
        /\ Opened(c).online = c.online /\ Continues(Opened(c), c.stage, c.job.cmd, c.online)
    BY <2>5, <2>6, OpenedFields DEF Like
  <2>8. Fit(Opened(c))
    BY <2>6, <2>7, JobFields DEF Fit, Continues, Commands
  <2>9. CmdFit' /\ cmd'[p] = Opened(c) /\ \A q \in Conns \ {p} : cmd'[q] = cmd[q]
    BY <1>0, <2>4, <2>7, <2>8, StepFields, BecomesFit DEF SafeInv
  <2>10. c.stage = cmd[p].stage /\ c.job = cmd[p].job /\ c.online = cmd[p].online
    BY <2>5 DEF Like
  <2>11. GoesOn(p, v)
    BY <2>7, <2>9, <2>10 DEF GoesOn
  <2> QED BY <1>0, <2>2, <2>9, <2>11 DEF SafeInv
<1> QED
  BY <1>0, <1>1, <1>2 DEF ReadFile

LEMMA CfgStoreFit ==
  ASSUME SafeInv, NEW p \in Conns, CfgStore(p)
  PROVE  /\ SafeInv' /\ UNCHANGED storage
         /\ LET c == cmd[p] IN
            Becomes(p, "check", "safe", c.job, c.online, c.password, c.value, c.found, c.rc)
<1>0. /\ FileType' /\ cmd \in [Conns -> Cmd] /\ Fit(cmd[p]) /\ cmd[p] \in Cmd
      /\ cmd[p].value \in Values
  BY DEF CfgStore, SafeInv, FileType, CmdFit, Fit, At
<1>m. PICK m \in Request : m = Stored(Config, cmd[p].value, CfgLifetime)
  BY <1>0, ConfigAssumption, JobsAssumption, StoredType
<1>n. Send(p, m) /\ UNCHANGED sent
  BY <1>m DEF CfgStore
<1>1. TypeOK' /\ UNCHANGED storage
  BY <1>n, SendType DEF SafeInv
<1>2. Step(p, SetStage(cmd[p], "check")) /\ "check" \in Places
  BY DEF CfgStore, SetStage, Places
<1>3. LET c == cmd[p] IN
      Becomes(p, "check", "safe", c.job, c.online, c.password, c.value, c.found, c.rc)
  BY <1>0, <1>2, SetStageFields, StepFields DEF Becomes, Like
<1>4. CmdFit'
  BY <1>0, <1>3, BecomesFit DEF Becomes, Like, Fit, SafeInv
<1> QED
  BY <1>0, <1>1, <1>3, <1>4 DEF SafeInv

LEMMA StoreFit == ASSUME SafeInv, NEW p \in Conns, Store(p) PROVE SafeInv' /\ UNCHANGED storage
<1>0. /\ FileType' /\ cmd \in [Conns -> Cmd] /\ Fit(cmd[p]) /\ cmd[p] \in Cmd
      /\ cmd[p].value \in Values /\ cmd[p].job.name \in Names /\ Return(p, "ok")
  BY JobFields DEF Store, SafeInv, FileType, CmdFit, Fit, At
<1>t. PICK t \in Lifetimes : Send(p, Stored(cmd[p].job.name, cmd[p].value, t))
  BY DEF Store
<1>m. PICK m \in Request : m = Stored(cmd[p].job.name, cmd[p].value, t)
  BY <1>0, StoredType, LifetimeAssumption
<1>1. Send(p, m) /\ UNCHANGED sent
  BY <1>t, <1>m DEF Store
<1>2. TypeOK' /\ UNCHANGED storage
  BY <1>1, SendType DEF SafeInv
<1>3. CmdFit'
  BY <1>0, ReturnFields, BecomesFit DEF Becomes, Like, Fit, SafeInv
<1> QED
  BY <1>0, <1>2, <1>3 DEF SafeInv

LEMMA EditFit ==
  ASSUME SafeInv, NEW p \in Conns, Edit(p)
  PROVE  /\ SafeInv' /\ UNCHANGED <<vars, file>>
         /\ LET c == cmd[p] IN
            \/ Return(p, "failed")
            \/ \E v \in Values, w \in Passwords :
                 Becomes(p, IF c.online THEN "saveask" ELSE "write", c.stage, c.job, c.online,
                         w, v, c.found, c.rc)
<1>0. TypeOK' /\ FileType' /\ cmd \in [Conns -> Cmd] /\ Fit(cmd[p]) /\ cmd[p] \in Cmd
      /\ UNCHANGED <<vars, file>>
  BY LocalType DEF Edit, SafeInv, FileType, CmdFit
<1>1. CASE Return(p, "failed")
  BY <1>0, <1>1, ReturnFields, BecomesFit DEF Becomes, Like, Fit, SafeInv
<1>2. ASSUME NEW v \in Values, NEW w \in Password(p),
             Step(p, [cmd[p] EXCEPT !.value = v, !.password = w,
                                    !.pc = IF cmd[p].online THEN "saveask" ELSE "write"])
      PROVE  /\ SafeInv' /\ w \in Passwords
             /\ LET c == cmd[p] IN
                Becomes(p, IF c.online THEN "saveask" ELSE "write", c.stage, c.job, c.online,
                        w, v, c.found, c.rc)
  <2>1. w \in Passwords
    BY <1>0 DEF Password, Passwords, Cmd
  <2>2. PICK x \in {"saveask", "write"} : x = IF cmd[p].online THEN "saveask" ELSE "write"
    OBVIOUS
  <2>3. Step(p, SetEdited(cmd[p], v, w, x)) /\ x \in Places
    BY <1>2, <2>2 DEF SetEdited, Places
  <2>4. LET c == cmd[p] IN
        Becomes(p, x, c.stage, c.job, c.online, w, v, c.found, c.rc)
    BY <1>0, <2>1, <2>3, SetEditedFields, StepFields DEF Becomes, Like
  <2>5. CmdFit'
    BY <1>0, <2>1, <2>2, <2>4, BecomesFit DEF Becomes, Like, Fit, SafeInv
  <2> QED BY <1>0, <2>1, <2>2, <2>4, <2>5 DEF SafeInv
<1> QED
  BY <1>0, <1>1, <1>2 DEF Edit

LEMMA SaveAskFit == ASSUME SafeInv, NEW p \in Conns, SaveAsk(p) PROVE SafeInv' /\ UNCHANGED storage
<1>0. FileType' /\ cmd \in [Conns -> Cmd] /\ Fit(cmd[p]) /\ cmd[p] \in Cmd /\ Goto(p, "saveanswer")
  BY DEF SaveAsk, SafeInv, FileType, CmdFit, Fit
<1>1. TypeOK' /\ UNCHANGED storage
  BY <1>0, JobFields, MessageTypes, SendType DEF SaveAsk, SafeInv
<1>2. CmdFit'
  BY <1>0, GotoFields, BecomesFit DEF Becomes, Like, Fit, SafeInv, Places, SaveAsk, At
<1> QED
  BY <1>0, <1>1, <1>2 DEF SafeInv

LEMMA SaveAnsweredFit ==
  ASSUME SafeInv, NEW p \in Conns, SaveAnswered(p)
  PROVE  /\ SafeInv' /\ UNCHANGED storage
         /\ \/ HearsNo(p, "SEARCH") /\ Goto(p, "write")
            \/ /\ Hears(p, "SEARCH")
               /\ LET c == cmd[p] IN
                  Becomes(p, "savestore", c.stage, c.job, c.online, c.password, c.value,
                          Head(rep[p]).unsafe.name, c.rc)
<1>0. FileType' /\ cmd \in [Conns -> Cmd] /\ Fit(cmd[p]) /\ cmd[p] \in Cmd
  BY DEF SaveAnswered, SafeInv, FileType, CmdFit, Fit
<1>1. TypeOK' /\ UNCHANGED storage
  BY HearsType, HearsNoType DEF SaveAnswered, SafeInv
<1>2. CASE HearsNo(p, "SEARCH") /\ Goto(p, "write")
  <2>1. CmdFit'
    BY <1>0, <1>2, GotoFields, BecomesFit DEF Becomes, Like, Fit, SafeInv, Places, SaveAnswered, At
  <2> QED BY <1>0, <1>1, <1>2, <2>1 DEF SafeInv
<1>3. CASE /\ Hears(p, "SEARCH")
           /\ Step(p, [cmd[p] EXCEPT !.pc = "savestore", !.found = Head(rep[p]).unsafe.name])
  <2>1. PICK n \in Names : n = Head(rep[p]).unsafe.name
    BY <1>3, FoundType DEF SafeInv
  <2>2. Step(p, SetFound(cmd[p], "savestore", n)) /\ "savestore" \in Places
    BY <1>3, <2>1 DEF SetFound, Places
  <2>3. LET c == cmd[p] IN
        Becomes(p, "savestore", c.stage, c.job, c.online, c.password, c.value, n, c.rc)
    BY <1>0, <2>2, SetFoundFields, StepFields DEF Becomes, Like
  <2>4. CmdFit'
    BY <1>0, <2>3, BecomesFit DEF Becomes, Like, Fit, SafeInv, SaveAnswered, At
  <2> QED BY <1>0, <1>1, <1>3, <2>1, <2>3, <2>4 DEF SafeInv
<1> QED
  BY <1>2, <1>3 DEF SaveAnswered

LEMMA SaveStoreFit == ASSUME SafeInv, NEW p \in Conns, SaveStore(p) PROVE SafeInv' /\ UNCHANGED storage
<1>0. /\ FileType' /\ cmd \in [Conns -> Cmd] /\ Fit(cmd[p]) /\ cmd[p] \in Cmd /\ Goto(p, "write")
      /\ cmd[p].value \in Values /\ cmd[p].found \in Names
  BY JobFields DEF SaveStore, SafeInv, FileType, CmdFit, Fit, At
<1>m. PICK m \in Request : m = Stored(cmd[p].found, cmd[p].value, NoTimeout)
  <2>1. NoTimeout \in Int
    BY DEF NoTimeout
  <2> QED BY <1>0, <2>1, StoredType
<1>1. Send(p, m) /\ UNCHANGED sent
  BY <1>m DEF SaveStore
<1>2. TypeOK' /\ UNCHANGED storage
  BY <1>1, SendType DEF SafeInv
<1>3. CmdFit'
  BY <1>0, GotoFields, BecomesFit DEF Becomes, Like, Fit, SafeInv, Places, SaveStore, At
<1> QED
  BY <1>0, <1>2, <1>3 DEF SafeInv

\* A save leaves the file with what was to be written, or that noted beside what it
\* held; only a file that could not be made is still missing.
LEMMA WriteFileFit ==
  ASSUME SafeInv, NEW p \in Conns, WriteFile(p)
  PROVE  /\ SafeInv' /\ UNCHANGED vars
         /\ \/ Return(p, "ok") \/ Return(p, "failed")
            \/ cmd[p].online /\ Goto(p, "store")
         /\ \A n \in Names \ {cmd[p].job.name} : file'[n] = file[n]
         /\ \A n \in {cmd[p].job.name} :
              \/ file'[n] # NoFile /\ cmd[p].value \in {file'[n].value, file'[n].meant}
              \/ file[n] = NoFile /\ file' = file /\ Return(p, "failed")
<1>0. /\ TypeOK' /\ UNCHANGED vars /\ cmd \in [Conns -> Cmd] /\ Fit(cmd[p]) /\ cmd[p] \in Cmd
      /\ cmd[p].value \in Values /\ cmd[p].password \in Passwords
      /\ cmd[p].job.name \in Names /\ cmd[p].job.keep \in BOOLEAN /\ cmd[p].online \in BOOLEAN
  BY LocalType, JobFields DEF WriteFile, SafeInv, CmdFit, Fit, At
<1>n. PICK n \in Names, v \in Values, w \in Passwords :
        n = cmd[p].job.name /\ v = cmd[p].value /\ w = cmd[p].password
  BY <1>0
<1>w. PICK whole \in Whole : whole = [value |-> v, key |-> w, meant |-> NoValue]
  BY DEF Whole
<1>t. PICK torn \in Torn : torn = [value |-> NoValue, key |-> NoPassword, meant |-> v]
  BY DEF Torn
<1>s. Saved(p) => Return(p, "ok") \/ Return(p, "failed") \/ (cmd[p].online /\ Goto(p, "store"))
  BY <1>0 DEF Saved
<1>a. /\ UNCHANGED vars
      /\ \/ file' = [file EXCEPT ![n] = whole] /\ Saved(p)
         \/ file' = [file EXCEPT ![n] = torn] /\ (Saved(p) \/ Return(p, "failed"))
         \/ file[n] = NoFile /\ file' = file /\ Return(p, "failed")
         \/ file[n] # NoFile /\ file' = [file EXCEPT ![n].meant = v] /\ Return(p, "failed")
  BY <1>0, <1>n, <1>w, <1>t DEF WriteFile
<1>m. ASSUME file[n] # NoFile, NEW f, f = [file[n] EXCEPT !.meant = v] PROVE f \in File /\ f.meant = v
  <2>1. file[n] \in File
    BY <1>m DEF SafeInv, FileType
  <2>2. CASE file[n] \in Whole
    BY <1>m, <2>2 DEF Whole, File
  <2>3. CASE file[n] \in Torn
    BY <1>m, <2>3 DEF Torn, File
  <2> QED BY <2>1, <2>2, <2>3 DEF File
<1>1. \/ file[n] = NoFile /\ file' = file /\ Return(p, "failed")
      \/ \E f \in File : /\ file' = [file EXCEPT ![n] = f]
                        /\ v \in {f.value, f.meant}
  <2>1. whole \in File /\ whole.value = v
    BY <1>w DEF File
  <2>2. torn \in File /\ torn.meant = v
    BY <1>t DEF File
  <2>3. ASSUME file[n] # NoFile, file' = [file EXCEPT ![n].meant = v]
        PROVE  \E f \in File : file' = [file EXCEPT ![n] = f] /\ v \in {f.value, f.meant}
    <3>1. PICK f : f = [file[n] EXCEPT !.meant = v]
      OBVIOUS
    <3>2. file' = [file EXCEPT ![n] = f]
      BY <2>3, <3>1
    <3> QED BY <1>m, <2>3, <3>1, <3>2
  <2> QED BY <1>a, <2>1, <2>2, <2>3
<1>2. /\ FileType' /\ \A i \in Names \ {n} : file'[i] = file[i]
      /\ \/ file'[n] # NoFile /\ v \in {file'[n].value, file'[n].meant}
         \/ file[n] = NoFile /\ file' = file /\ Return(p, "failed")
  BY <1>1, FileAssumption DEF SafeInv, FileType
<1>3. Return(p, "ok") \/ Return(p, "failed") \/ (cmd[p].online /\ Goto(p, "store"))
  BY <1>a, <1>s
<1>4. CASE Return(p, "ok") \/ Return(p, "failed")
  BY <1>0, <1>n, <1>2, <1>3, <1>4, ReturnFields, BecomesFit DEF Becomes, Like, Fit, SafeInv
<1>5. CASE Goto(p, "store")
  BY <1>0, <1>n, <1>2, <1>3, <1>5, GotoFields, BecomesFit DEF Becomes, Like, Fit, SafeInv, Places
<1> QED
  BY <1>3, <1>4, <1>5

LEMMA DiscardFit == ASSUME SafeInv, NEW p \in Conns, Discard(p) PROVE SafeInv' /\ UNCHANGED storage
<1>0. /\ FileType' /\ cmd \in [Conns -> Cmd] /\ Fit(cmd[p]) /\ cmd[p] \in Cmd
      /\ Goto(p, "discarded") /\ cmd[p].value \in Values
  BY DEF Discard, SafeInv, FileType, CmdFit, Fit, At
<1>1. TypeOK' /\ UNCHANGED storage
  BY <1>0, JobFields, MessageTypes, SendType DEF Discard, SafeInv
<1>2. CmdFit'
  BY <1>0, GotoFields, BecomesFit DEF Becomes, Like, Fit, SafeInv, Places
<1> QED
  BY <1>0, <1>1, <1>2 DEF SafeInv

LEMMA DiscardedFit == ASSUME SafeInv, NEW p \in Conns, Discarded(p) PROVE SafeInv' /\ UNCHANGED storage
<1>0. /\ FileType' /\ cmd \in [Conns -> Cmd] /\ Fit(cmd[p]) /\ cmd[p] \in Cmd
      /\ cmd[p].value \in Values
  BY DEF Discarded, SafeInv, FileType, CmdFit, Fit, At
<1>1. TypeOK' /\ UNCHANGED storage
  BY HearsType, HearsNoType DEF Discarded, SafeInv
<1>2. CASE Return(p, "failed")
  BY <1>0, <1>1, <1>2, ReturnFields, BecomesFit DEF Becomes, Like, Fit, SafeInv
<1>3. ASSUME NEW x \in {"unlink", "restore", "move"}, Goto(p, x) PROVE SafeInv'
  BY <1>0, <1>1, <1>3, GotoFields, BecomesFit DEF Becomes, Like, Fit, SafeInv, Places
<1> QED
  BY <1>1, <1>2, <1>3 DEF Discarded

LEMMA UnlinkFit ==
  ASSUME SafeInv, NEW p \in Conns, Unlink(p)
  PROVE  SafeInv' /\ UNCHANGED vars
<1>0. /\ TypeOK' /\ UNCHANGED vars /\ cmd \in [Conns -> Cmd] /\ Fit(cmd[p])
  BY LocalType DEF Unlink, SafeInv, CmdFit
<1>1. FileType'
  BY DEF Unlink, SafeInv, FileType
<1>2. PICK r \in {"ok", "failed"} : Return(p, r)
  BY DEF Unlink
<1> QED
  BY <1>0, <1>1, <1>2, ReturnFields, BecomesFit DEF Becomes, Like, Fit, SafeInv

LEMMA RestoreFit == ASSUME SafeInv, NEW p \in Conns, Restore(p) PROVE SafeInv' /\ UNCHANGED storage
<1>0. /\ FileType' /\ cmd \in [Conns -> Cmd] /\ Fit(cmd[p]) /\ cmd[p] \in Cmd /\ Goto(p, "move")
      /\ cmd[p].value \in Values /\ cmd[p].job.to \in Names
  BY JobFields DEF Restore, SafeInv, FileType, CmdFit, Fit, At
<1>m. PICK m \in Request : m = Stored(cmd[p].job.to, cmd[p].value, NoTimeout)
  <2>1. NoTimeout \in Int
    BY DEF NoTimeout
  <2> QED BY <1>0, <2>1, StoredType
<1>1. Send(p, m) /\ UNCHANGED sent
  BY <1>m DEF Restore
<1>2. TypeOK' /\ UNCHANGED storage
  BY <1>1, SendType DEF SafeInv
<1>3. CmdFit'
  BY <1>0, GotoFields, BecomesFit DEF Becomes, Like, Fit, SafeInv, Places
<1> QED
  BY <1>0, <1>2, <1>3 DEF SafeInv

LEMMA MoveFit == ASSUME SafeInv, NEW p \in Conns, Move(p) PROVE SafeInv' /\ UNCHANGED vars
<1>0. /\ TypeOK' /\ UNCHANGED vars /\ cmd \in [Conns -> Cmd] /\ Fit(cmd[p]) /\ cmd[p] \in Cmd
  BY LocalType DEF Move, SafeInv, CmdFit, Fit
<1>1. FileType'
  BY <1>0, JobFields DEF Move, SafeInv, FileType
<1>2. PICK r \in {"ok", "failed"} : Return(p, r)
  BY DEF Move
<1> QED
  BY <1>0, <1>1, <1>2, ReturnFields, BecomesFit DEF Becomes, Like, Fit, SafeInv

\* A command starts on a job, or refuses it at once.
Refused(p, j) ==
  /\ cmd'[p].pc = "exit" /\ cmd'[p].rc = "failed" /\ cmd'[p].job = j
  /\ cmd'[p].stage = cmd[p].stage /\ cmd'[p].online = cmd[p].online
Begun(p, j, online) ==
  /\ cmd'[p].pc = "check" /\ cmd'[p].job = j /\ cmd'[p].online = online
  /\ cmd'[p].stage = IF j.cmd \in {"create", "edit"} THEN "config" ELSE "safe"

StartsOn(p, j) ==
  \/ TRUE \in Links /\ Connect(p) /\ Begun(p, j, TRUE)
  \/ Refused(p, j) /\ UNCHANGED vars
  \/ FALSE \in Links /\ Begun(p, j, FALSE) /\ UNCHANGED vars

LEMMA RefusedFit ==
  ASSUME SafeInv, NEW p \in Conns, NEW j \in Jobs,
         Step(p, [cmd[p] EXCEPT !.pc = "exit", !.job = j, !.rc = "failed"])
  PROVE  CmdFit' /\ Refused(p, j) /\ \A q \in Conns \ {p} : cmd'[q] = cmd[q]
<1>1. cmd \in [Conns -> Cmd] /\ Fit(cmd[p]) /\ cmd[p] \in Cmd /\ Step(p, SetRefused(cmd[p], j))
  BY DEF SafeInv, CmdFit, Fit, SetRefused
<1> QED
  BY <1>1, SetRefusedFields, StepFields, BecomesFit DEF Like, Fit, Refused, SafeInv

LEMMA BeginFit ==
  ASSUME SafeInv, NEW p \in Conns, NEW j \in Jobs, NEW l \in BOOLEAN, Begin(p, j, l)
  PROVE  /\ CmdFit' /\ \A q \in Conns \ {p} : cmd'[q] = cmd[q]
         /\ (Refused(p, j) /\ ~l) \/ Begun(p, j, l)
<1>1. CASE j.cmd = "open" /\ ~l
  BY <1>1, RefusedFit DEF Begin
<1>2. CASE ~(j.cmd = "open" /\ ~l)
  <2>1. PICK s \in {"config", "safe"} : s = IF j.cmd \in {"create", "edit"} THEN "config" ELSE "safe"
    OBVIOUS
  <2>2. cmd \in [Conns -> Cmd] /\ Fit(cmd[p]) /\ cmd[p] \in Cmd /\ Step(p, SetBegun(cmd[p], j, l, s))
    BY <1>2, <2>1 DEF SafeInv, CmdFit, Fit, SetBegun, Begin
  <2>3. CmdFit' /\ (\A q \in Conns \ {p} : cmd'[q] = cmd[q])
        /\ cmd'[p].pc = "check" /\ cmd'[p].job = j /\ cmd'[p].online = l /\ cmd'[p].stage = s
    BY <2>2, SetBegunFields, StepFields, BecomesFit DEF Like, Fit, SafeInv
  <2> QED BY <2>1, <2>3 DEF Begun
<1> QED
  BY <1>1, <1>2

LEMMA StartFit ==
  ASSUME SafeInv, NEW p \in Conns, Start(p)
  PROVE  /\ SafeInv' /\ UNCHANGED <<storage, file>>
         /\ \A q \in Conns \ {p} : cmd'[q] = cmd[q]
         /\ \E j \in Jobs : StartsOn(p, j)
<1>1. PICK j \in Jobs, online \in Links :
       \/ online /\ Connect(p) /\ Begin(p, j, TRUE)
       \/ online /\ ~alive
          /\ Step(p, [cmd[p] EXCEPT !.pc = "exit", !.job = j, !.rc = "failed"])
          /\ UNCHANGED <<agentVars, channelVars>>
       \/ ~online /\ Begin(p, j, FALSE) /\ UNCHANGED <<agentVars, channelVars>>
  BY DEF Start
<1>2. online \in BOOLEAN /\ FileType' /\ UNCHANGED <<file, sent>>
  BY JobsAssumption DEF Start, SafeInv, FileType
<1>3. CASE online /\ Connect(p) /\ Begin(p, j, TRUE)
  <2>1. CmdFit' /\ (\A q \in Conns \ {p} : cmd'[q] = cmd[q]) /\ Begun(p, j, TRUE)
    BY <1>3, BeginFit
  <2>2. TypeOK' /\ UNCHANGED storage
    BY <1>2, <1>3, ChannelType DEF SafeInv
  <2> QED BY <1>2, <1>3, <2>1, <2>2 DEF SafeInv, StartsOn
<1>4. CASE /\ Step(p, [cmd[p] EXCEPT !.pc = "exit", !.job = j, !.rc = "failed"])
           /\ UNCHANGED <<agentVars, channelVars>>
  <2>1. TypeOK' /\ UNCHANGED vars
    BY <1>2, <1>4, LocalType DEF Local
  <2> QED BY <1>2, <1>4, <2>1, RefusedFit DEF SafeInv, vars, agentVars, StartsOn
<1>5. CASE ~online /\ Begin(p, j, FALSE) /\ UNCHANGED <<agentVars, channelVars>>
  <2>1. TypeOK' /\ UNCHANGED vars
    BY <1>2, <1>5, LocalType DEF Local
  <2>2. CmdFit' /\ (\A q \in Conns \ {p} : cmd'[q] = cmd[q])
        /\ (Refused(p, j) \/ Begun(p, j, FALSE))
    BY <1>5, BeginFit
  <2>3. FALSE \in Links
    BY <1>2, <1>5
  <2> QED BY <1>2, <2>1, <2>2, <2>3 DEF SafeInv, vars, agentVars, StartsOn
<1> QED
  BY <1>1, <1>3, <1>4, <1>5

LEMMA HangUpType ==
  ASSUME SafeInv, NEW p \in Conns, UNCHANGED sent,
         Close(p) \/ UNCHANGED <<agentVars, channelVars>>
  PROVE  TypeOK' /\ UNCHANGED storage
BY ChannelType, QuietType DEF SafeInv, vars, agentVars, channelVars

LEMMA ExitFit == ASSUME SafeInv, NEW p \in Conns, Exit(p) PROVE SafeInv' /\ UNCHANGED <<storage, file>>
<1>0. /\ FileType' /\ UNCHANGED file /\ cmd \in [Conns -> Cmd] /\ Fit(cmd[p]) /\ Goto(p, "done")
  BY DEF Exit, SafeInv, FileType, CmdFit
<1>1. TypeOK' /\ UNCHANGED storage
  BY HangUpType DEF Exit
<1> QED
  BY <1>0, <1>1, GotoFields, BecomesFit DEF Becomes, Like, Fit, SafeInv, Places

LEMMA KilledFit ==
  ASSUME SafeInv, NEW p \in Conns, Interrupt(p) \/ BrokenPipe(p)
  PROVE  SafeInv' /\ UNCHANGED <<storage, file>>
<1>0. /\ FileType' /\ UNCHANGED file /\ cmd \in [Conns -> Cmd] /\ Fit(cmd[p]) /\ Killed(p)
  BY DEF Interrupt, BrokenPipe, SafeInv, FileType, CmdFit
<1>1. TypeOK' /\ UNCHANGED storage
  BY HangUpType DEF Interrupt, BrokenPipe
<1> QED
  BY <1>0, <1>1, KilledFields, BecomesFit DEF Becomes, Like, Fit, SafeInv

LEMMA AgentFit == ASSUME SafeInv, Agent PROVE SafeInv' /\ UNCHANGED safeVars
<1>1. [Next]_vars /\ UNCHANGED safeVars
  BY DEF Agent, Next
<1>2. TypeOK'
  BY <1>1, NextType DEF SafeInv
<1> QED
  BY <1>1, <1>2 DEF SafeInv, FileType, CmdFit, Fit, safeVars

LEMMA CommandFit == ASSUME SafeInv, NEW p \in Conns, Command(p) PROVE SafeInv'
BY CheckFit, AskFit, AnsweredFit, ReadFileFit, CfgStoreFit, EditFit, SaveAskFit, SaveAnsweredFit,
   SaveStoreFit, WriteFileFit, StoreFit, DiscardFit, DiscardedFit, UnlinkFit, RestoreFit,
   MoveFit, ExitFit, KilledFit DEF Command

LEMMA SafeNextFit == SafeInv /\ [SafeNext]_allVars => SafeInv'
<1> SUFFICES ASSUME SafeInv, [SafeNext]_allVars PROVE SafeInv'
  OBVIOUS
<1>1. CASE UNCHANGED allVars
  BY <1>1, QuietType DEF SafeInv, FileType, CmdFit, Fit, allVars, safeVars
<1> QED
  BY <1>1, AgentFit, CommandFit, StartFit, KilledFit DEF SafeNext

\* The commands and the agent keep their types: no command sends or writes a secret it
\* does not have, or encrypts with an empty password.
THEOREM SafeTypes == SafeSpec => []SafeTypeOK
<1>1. SafeInv => SafeTypeOK
  BY DEF SafeInv, FileType, CmdFit, SafeTypeOK
<1> QED
  BY InitSafe, SafeNextFit, <1>1, PTL DEF SafeSpec

-----------------------------------------------------------------------------
(* Commands that only read: nothing is filed under another safe's name      *)

\* What the command on safe n may have sent, and what may come back
OwnRequest(n) ==
  {m \in Request : /\ m.op = "STORE" => Of[m.unsafe.value] = m.unsafe.name
                   /\ m.op = "SEARCH" => m.name = n}
OwnReply(n) ==
  {m \in Reply : m.op = "SEARCH" => m.unsafe.name = n /\ Of[m.unsafe.value] = n}

OwnFiles == \A n \in Names : file[n] # NoFile => Of[file[n].value] = n

\* A reader asks the agent about the one safe of its job and nothing else, so that a
\* stray answer is an ERROR and never another safe's secret.
Reader(p) ==
  /\ cmd[p].stage = "safe"
  /\ cmd[p].pc \in {"idle", "check", "ask", "answer", "read", "store", "discard",
                    "discarded", "unlink", "exit", "done"}
  /\ cmd[p].pc = "store" => Of[cmd[p].value] = cmd[p].job.name
  /\ cmd[p].pc \in {"discard", "discarded", "unlink"} => cmd[p].job.cmd = "delete"
  /\ cmd[p].pc = "idle" => peer[p] = "absent" /\ req[p] = <<>> /\ rep[p] = <<>>
  /\ req[p] \in Seq(OwnRequest(cmd[p].job.name))
  /\ rep[p] \in Seq(OwnReply(cmd[p].job.name))

ReadInv == SafeInv /\ EntriesOwnValues /\ OwnFiles /\ \A p \in Conns : Reader(p)

LEMMA InitReads == SafeInit => ReadInv
<1> SUFFICES ASSUME SafeInit PROVE ReadInv
  OBVIOUS
<1>1. SafeInv
  BY InitSafe
<1>2. ASSUME NEW p \in Conns PROVE Reader(p)
  <2>1. /\ cmd[p].stage = "safe" /\ cmd[p].pc = "idle" /\ peer[p] = "absent"
        /\ req[p] = <<>> /\ rep[p] = <<>>
    BY DEF SafeInit, Init
  <2> QED BY <2>1 DEF Reader
<1>3. OwnFiles
  BY ConfigAssumption, ValuesAssumption DEF SafeInit, OwnFiles
<1>4. EntriesOwnValues
  BY DEF SafeInit, Init, EntriesOwnValues
<1> QED
  BY <1>1, <1>2, <1>3, <1>4 DEF ReadInv

\* What is still to be read on either side stays what it was, but for its head and
\* one more answer.
LEMMA RowsRead ==
  ASSUME ReadInv, UNCHANGED <<cmd, peer>>, NEW q \in Conns,
         req'[q] \in Seq(OwnRequest(cmd[q].job.name)), req[q] = <<>> => req'[q] = <<>>,
         rep'[q] \in Seq(OwnReply(cmd[q].job.name)), peer[q] = "absent" => rep'[q] = rep[q]
  PROVE  Reader(q)'
<1>1. Reader(q)
  BY DEF ReadInv
<1> QED
  BY <1>1 DEF Reader

LEMMA AnswerReads ==
  ASSUME ReadInv, NEW c \in Conns, NEW m \in OwnReply(cmd[c].job.name), Answer(c, m)
  PROVE  \A q \in Conns : /\ rep'[q] \in Seq(OwnReply(cmd[q].job.name))
                          /\ peer[q] = "absent" => rep'[q] = rep[q]
<1> SUFFICES ASSUME NEW q \in Conns
             PROVE  /\ rep'[q] \in Seq(OwnReply(cmd[q].job.name))
                    /\ peer[q] = "absent" => rep'[q] = rep[q]
  OBVIOUS
<1>1. rep \in [Conns -> Seq(Reply)] /\ rep[q] \in Seq(OwnReply(cmd[q].job.name))
  BY DEF ReadInv, SafeInv, TypeOK, Reader
<1>2. rep'[q] = rep[q] \/ (q = c /\ peer[c] = "connected" /\ rep'[q] = Append(rep[q], m))
  BY <1>1 DEF Answer
<1>3. CASE rep'[q] = rep[q]
  BY <1>1, <1>3
<1>4. CASE q = c /\ peer[c] = "connected" /\ rep'[q] = Append(rep[q], m)
  <2>1. PICK S : S = OwnReply(cmd[q].job.name)
    OBVIOUS
  <2>2. Append(rep[q], m) \in Seq(S)
    BY <1>1, <1>4, <2>1
  <2> QED BY <1>4, <2>1, <2>2
<1> QED
  BY <1>2, <1>3, <1>4

\* The agent takes the head of what a connection has sent.
LEMMA TakenReads ==
  ASSUME ReadInv, NEW c \in Conns, NEW op, Taken(c, op)
  PROVE  /\ Head(req[c]) \in OwnRequest(cmd[c].job.name) /\ Head(req[c]).op = op
         /\ \A q \in Conns : /\ req'[q] \in Seq(OwnRequest(cmd[q].job.name))
                             /\ req[q] = <<>> => req'[q] = <<>>
<1>1. req \in [Conns -> Seq(Request)]
  BY DEF ReadInv, SafeInv, TypeOK
<1>2. ASSUME NEW q \in Conns PROVE req[q] \in Seq(OwnRequest(cmd[q].job.name))
  BY DEF ReadInv, Reader
<1>3. req[c] # <<>> /\ Head(req[c]).op = op /\ req' = [req EXCEPT ![c] = Tail(req[c])]
  BY DEF Taken
<1>4. Head(req[c]) \in OwnRequest(cmd[c].job.name)
  BY <1>2, <1>3
<1>5. ASSUME NEW q \in Conns
      PROVE  req'[q] \in Seq(OwnRequest(cmd[q].job.name)) /\ (req[q] = <<>> => req'[q] = <<>>)
  <2>1. CASE q = c
    BY <1>1, <1>2, <1>3, <2>1
  <2>2. CASE q # c
    BY <1>1, <1>2, <1>3, <2>2
  <2> QED BY <2>1, <2>2
<1> QED
  BY <1>3, <1>4, <1>5

LEMMA StoreReads == ASSUME ReadInv, NEW c \in Conns, DispatchStore(c), UNCHANGED safeVars PROVE ReadInv'
<1> DEFINE u == Head(req[c]).unsafe
<1>1. Taken(c, "STORE") /\ UNCHANGED <<cmd, file, peer, rep>>
      /\ storage' = [storage EXCEPT ![u.name] = u.value]
  BY DEF DispatchStore, safeVars
<1>2. /\ Head(req[c]).op = "STORE" /\ Head(req[c]) \in Request /\ Of[u.value] = u.name
      /\ \A q \in Conns : /\ req'[q] \in Seq(OwnRequest(cmd[q].job.name))
                          /\ req[q] = <<>> => req'[q] = <<>>
  BY <1>1, TakenReads DEF OwnRequest
<1>3. \A q \in Conns : Reader(q)'
  BY <1>1, <1>2, RowsRead DEF ReadInv, Reader
<1>4. u \in Unsafe /\ u.name \in Names
  BY <1>2 DEF Request, Unsafe
<1>5. EntriesOwnValues'
  BY <1>1, <1>2, <1>4 DEF EntriesOwnValues, ReadInv, SafeInv, TypeOK
<1>6. SafeInv'
  BY AgentFit DEF ReadInv, Agent, Dispatch
<1> QED
  BY <1>1, <1>3, <1>5, <1>6 DEF ReadInv, OwnFiles

LEMMA SearchReads == ASSUME ReadInv, NEW c \in Conns, DispatchSearch(c), UNCHANGED safeVars PROVE ReadInv'
<1> DEFINE n == Head(req[c]).name
           m == IF storage[n] = Absent THEN [op |-> "ERROR"] ELSE Found(n)
<1>1. Taken(c, "SEARCH") /\ Answer(c, m) /\ UNCHANGED <<cmd, file, peer, storage>>
  BY DEF DispatchSearch, safeVars
<1>2. /\ Head(req[c]).op = "SEARCH" /\ Head(req[c]) \in Request /\ n = cmd[c].job.name
      /\ \A q \in Conns : /\ req'[q] \in Seq(OwnRequest(cmd[q].job.name))
                          /\ req[q] = <<>> => req'[q] = <<>>
  BY <1>1, TakenReads DEF OwnRequest
<1>3. n \in Names
  BY <1>2 DEF Request
<1>4. m \in OwnReply(cmd[c].job.name)
  <2>1. CASE storage[n] = Absent
    BY <2>1 DEF OwnReply, Reply
  <2>2. CASE storage[n] # Absent
    <3>1. storage[n] \in Values /\ Of[storage[n]] = n
      BY <1>3, <2>2 DEF ReadInv, SafeInv, TypeOK, EntriesOwnValues
    <3>2. m = [op |-> "SEARCH", unsafe |-> [name |-> n, value |-> storage[n], timeout |-> NoTimeout]]
      BY <2>2 DEF Found
    <3>3. [name |-> n, value |-> storage[n], timeout |-> NoTimeout] \in Unsafe
      BY <1>3, <3>1 DEF Unsafe, NoTimeout
    <3>4. m \in Reply
      BY <3>2, <3>3 DEF Reply
    <3> QED BY <1>2, <3>1, <3>2, <3>4 DEF OwnReply
  <2> QED BY <2>1, <2>2
<1> HIDE DEF m
<1>5. \A q \in Conns : Reader(q)'
  BY <1>1, <1>2, <1>4, AnswerReads, RowsRead
<1>6. SafeInv'
  BY AgentFit DEF ReadInv, Agent, Dispatch
<1> QED
  BY <1>1, <1>5, <1>6 DEF ReadInv, OwnFiles, EntriesOwnValues

LEMMA DiscardReads == ASSUME ReadInv, NEW c \in Conns, DispatchDiscard(c), UNCHANGED safeVars PROVE ReadInv'
<1>1. Taken(c, "DISCARD") /\ UNCHANGED <<cmd, file, peer>>
  BY DEF DispatchDiscard, safeVars
<1>2. \A q \in Conns : /\ req'[q] \in Seq(OwnRequest(cmd[q].job.name))
                       /\ req[q] = <<>> => req'[q] = <<>>
  BY <1>1, TakenReads
<1>3. PICK m \in {[op |-> "DISCARD"], [op |-> "ERROR"]} : Answer(c, m)
  BY DEF DispatchDiscard
<1>4. m \in OwnReply(cmd[c].job.name)
  BY DEF OwnReply, Reply
<1>5. \A q \in Conns : Reader(q)'
  BY <1>1, <1>2, <1>3, <1>4, AnswerReads, RowsRead
<1>6. SafeInv'
  BY AgentFit DEF ReadInv, Agent, Dispatch
<1>7. storage' = storage \/ \E n : storage' = [storage EXCEPT ![n] = Absent]
  BY DEF DispatchDiscard, Forget
<1> QED
  BY <1>1, <1>5, <1>6, <1>7 DEF ReadInv, OwnFiles, EntriesOwnValues, SafeInv, TypeOK

LEMMA StopReads == ASSUME ReadInv, Stop, Agent, UNCHANGED safeVars PROVE ReadInv'
<1>1. UNCHANGED <<cmd, file, peer, rep>> /\ req' = [c \in Conns |-> <<>>]
      /\ storage' = [n \in Names |-> Absent]
  BY DEF Stop, safeVars
<1>2. \A q \in Conns : Reader(q)'
  BY <1>1, RowsRead DEF ReadInv, Reader
<1> QED
  BY <1>1, <1>2, AgentFit DEF ReadInv, OwnFiles, EntriesOwnValues

LEMMA TimeoutReads ==
  ASSUME ReadInv, NEW t \in timers, TimeoutDiscard(t), UNCHANGED safeVars
  PROVE  ReadInv'
<1>0. SafeInv' /\ UNCHANGED <<cmd, file>> /\ Agent
  BY AgentFit DEF ReadInv, Agent, safeVars
<1>1. CASE ExpireFound(t) \/ (ExpireDangling(t) /\ ~Stop)
  <2>1. UNCHANGED <<peer, req, rep>>
        /\ (storage' = storage \/ storage' = [storage EXCEPT ![t.name] = Absent])
    BY <1>1 DEF ExpireFound, ExpireDangling, Forget, channelVars
  <2>2. \A q \in Conns : Reader(q)'
    BY <1>0, <2>1, RowsRead DEF ReadInv, Reader
  <2> QED BY <1>0, <2>1, <2>2 DEF ReadInv, OwnFiles, EntriesOwnValues, SafeInv, TypeOK
<1>2. CASE ExpireMissing(t)
  <2>1. UNCHANGED <<peer, req, storage>>
    BY <1>2 DEF ExpireMissing
  <2>2. PICK c \in Conns : Answer(c, [op |-> "ERROR"])
    BY <1>2 DEF ExpireMissing, Owner
  <2>3. [op |-> "ERROR"] \in OwnReply(cmd[c].job.name)
    BY DEF OwnReply, Reply
  <2>4. \A q \in Conns : Reader(q)'
    BY <1>0, <2>1, <2>2, <2>3, AnswerReads, RowsRead DEF ReadInv, Reader
  <2> QED BY <1>0, <2>1, <2>4 DEF ReadInv, OwnFiles, EntriesOwnValues
<1>3. CASE Stop
  BY <1>0, <1>3, StopReads
<1> QED
  BY <1>1, <1>2, <1>3 DEF TimeoutDiscard

LEMMA AgentReads == ASSUME ReadInv, Agent PROVE ReadInv'
<1>0. SafeInv' /\ UNCHANGED <<cmd, file>> /\ UNCHANGED safeVars
  BY AgentFit DEF ReadInv, safeVars
<1>1. CASE UNCHANGED <<peer, req, rep, storage>>
  <2>1. \A q \in Conns : Reader(q)'
    BY <1>0, <1>1, RowsRead DEF ReadInv, Reader
  <2> QED BY <1>0, <1>1, <2>1 DEF ReadInv, OwnFiles, EntriesOwnValues
<1>2. ASSUME NEW c \in Conns, Dispatch(c) PROVE ReadInv'
  BY <1>0, <1>1, <1>2, StoreReads, SearchReads, DiscardReads DEF Dispatch, DispatchEof, channelVars
<1>3. ASSUME NEW c \in Conns, Accept(c) PROVE ReadInv'
  BY <1>1, <1>3 DEF Accept, channelVars
<1>4. CASE AgentKill
  BY <1>0, <1>4, StopReads DEF AgentKill
<1>5. CASE Tick
  BY <1>1, <1>5 DEF Tick, channelVars
<1> QED
  BY <1>0, <1>2, <1>3, <1>4, <1>5, TimeoutReads DEF Agent

-----------------------------------------------------------------------------

\* A step of one command leaves the others readers.
LEMMA OthersRead ==
  ASSUME ReadInv, NEW p \in Conns, NEW q \in Conns \ {p}, cmd'[q] = cmd[q],
         req'[q] = req[q], rep'[q] = rep[q], peer'[q] = peer[q]
  PROVE  Reader(q)'
<1>1. Reader(q)
  BY DEF ReadInv
<1> QED
  BY <1>1 DEF Reader

\* ... and the command itself, when it goes on with the same job.
LEMMA ReaderGoesOn ==
  ASSUME ReadInv, NEW p \in Conns, UNCHANGED storage, SafeInv', OwnFiles',
         \A q \in Conns \ {p} : /\ cmd'[q] = cmd[q] /\ req'[q] = req[q]
                                /\ rep'[q] = rep[q] /\ peer'[q] = peer[q],
         cmd'[p].stage = "safe", cmd'[p].job = cmd[p].job,
         cmd'[p].pc \in {"check", "ask", "answer", "read", "store", "discard",
                         "discarded", "unlink", "exit", "done"},
         cmd'[p].pc = "store" => Of[cmd'[p].value] = cmd[p].job.name,
         cmd'[p].pc \in {"discard", "discarded", "unlink"} => cmd[p].job.cmd = "delete",
         req'[p] \in Seq(OwnRequest(cmd[p].job.name)), rep'[p] \in Seq(OwnReply(cmd[p].job.name))
  PROVE  ReadInv'
<1>1. Reader(p)'
  BY DEF Reader
<1>2. \A q \in Conns : Reader(q)'
  BY <1>1, OthersRead
<1> QED
  BY <1>2 DEF ReadInv, EntriesOwnValues

LEMMA ChannelUse ==
  ASSUME TypeOK, NEW p \in Conns
  PROVE  /\ UNCHANGED vars => UNCHANGED <<req, rep, peer>>
         /\ \A m : Send(p, m) => /\ UNCHANGED <<rep, peer>>
                                 /\ req'[p] = Append(req[p], m) /\ peer[p] = "connected"
                                 /\ \A q \in Conns \ {p} : req'[q] = req[q]
         /\ Receive(p) => /\ UNCHANGED <<req, peer>>
                          /\ rep[p] # <<>> /\ rep'[p] = Tail(rep[p])
                          /\ \A q \in Conns \ {p} : rep'[q] = rep[q]
         /\ Close(p) => /\ UNCHANGED req /\ rep'[p] = <<>> /\ peer'[p] = "closed"
                        /\ \A q \in Conns \ {p} : rep'[q] = rep[q] /\ peer'[q] = peer[q]
         /\ Connect(p) => /\ UNCHANGED <<req, rep>> /\ peer'[p] = "connected"
                          /\ \A q \in Conns \ {p} : peer'[q] = peer[q]
<1>1. UNCHANGED vars => UNCHANGED <<req, rep, peer>>
  BY DEF vars
<1>2. ASSUME NEW m, Send(p, m)
      PROVE  /\ UNCHANGED <<rep, peer>>
             /\ req'[p] = Append(req[p], m) /\ peer[p] = "connected"
             /\ \A q \in Conns \ {p} : req'[q] = req[q]
  BY <1>2 DEF Send, TypeOK
<1>3. ASSUME Receive(p)
      PROVE  /\ UNCHANGED <<req, peer>>
             /\ rep[p] # <<>> /\ rep'[p] = Tail(rep[p])
             /\ \A q \in Conns \ {p} : rep'[q] = rep[q]
  BY <1>3 DEF Receive, TypeOK
<1>4. ASSUME Close(p)
      PROVE  /\ UNCHANGED req /\ rep'[p] = <<>> /\ peer'[p] = "closed"
             /\ \A q \in Conns \ {p} : rep'[q] = rep[q] /\ peer'[q] = peer[q]
  BY <1>4 DEF Close, TypeOK
<1>5. ASSUME Connect(p)
      PROVE  /\ UNCHANGED <<req, rep>> /\ peer'[p] = "connected"
             /\ \A q \in Conns \ {p} : peer'[q] = peer[q]
  BY <1>5 DEF Connect, TypeOK
<1> QED
  BY <1>1, <1>2, <1>3, <1>4, <1>5

\* What ReaderGoesOn asks of the connection, when the command only looks at files,
\* sends one message of its own, takes one answer or hangs up.
LEMMA ReaderChannel ==
  ASSUME ReadInv, NEW p \in Conns,
         \/ UNCHANGED vars
         \/ \E m \in OwnRequest(cmd[p].job.name) : Send(p, m)
         \/ \E op : Hears(p, op)
         \/ Close(p) \/ UNCHANGED <<agentVars, channelVars>>
  PROVE  /\ \A q \in Conns \ {p} : req'[q] = req[q] /\ rep'[q] = rep[q] /\ peer'[q] = peer[q]
         /\ req'[p] \in Seq(OwnRequest(cmd[p].job.name))
         /\ rep'[p] \in Seq(OwnReply(cmd[p].job.name))
<1>0. TypeOK /\ req[p] \in Seq(OwnRequest(cmd[p].job.name)) /\ rep[p] \in Seq(OwnReply(cmd[p].job.name))
  BY DEF ReadInv, SafeInv, Reader
<1>1. CASE UNCHANGED <<req, rep, peer>>
  BY <1>0, <1>1
<1>2. ASSUME NEW m \in OwnRequest(cmd[p].job.name), Send(p, m)
      PROVE  /\ UNCHANGED <<rep, peer>> /\ \A q \in Conns \ {p} : req'[q] = req[q]
             /\ req'[p] \in Seq(OwnRequest(cmd[p].job.name))
  <2>1. PICK S : S = OwnRequest(cmd[p].job.name)
    OBVIOUS
  <2>2. Append(req[p], m) \in Seq(S)
    BY <1>0, <2>1
  <2> QED BY <1>0, <1>2, <2>1, <2>2, ChannelUse
<1>3. ASSUME Receive(p)
      PROVE  /\ UNCHANGED <<req, peer>> /\ \A q \in Conns \ {p} : rep'[q] = rep[q]
             /\ rep'[p] \in Seq(OwnReply(cmd[p].job.name))
  <2>1. rep[p] # <<>> /\ rep'[p] = Tail(rep[p])
    BY <1>0, <1>3, ChannelUse
  <2>2. Tail(rep[p]) \in Seq(OwnReply(cmd[p].job.name))
    BY <1>0, <2>1, RowFacts
  <2> QED BY <1>0, <1>3, <2>1, <2>2, ChannelUse
<1>4. ASSUME Close(p)
      PROVE  /\ UNCHANGED req /\ \A q \in Conns \ {p} : rep'[q] = rep[q] /\ peer'[q] = peer[q]
             /\ rep'[p] \in Seq(OwnReply(cmd[p].job.name))
  <2>1. <<>> \in Seq(OwnReply(cmd[p].job.name))
    BY EmptyRow
  <2> QED BY <1>0, <1>4, <2>1, ChannelUse
<1>5. ASSUME NEW op, Hears(p, op) PROVE Receive(p) \/ UNCHANGED <<req, rep, peer>>
  BY <1>5 DEF Hears, channelVars
<1> QED
  BY <1>0, <1>1, <1>2, <1>3, <1>4, <1>5 DEF vars, channelVars

\* An opened safe's secret is its own, from the agent and from the file.
LEMMA GoesOnReads ==
  ASSUME ReadInv, ReadingJobs, NEW p \in Conns, NEW v, GoesOn(p, v), Of[v] = cmd[p].job.name
  PROVE  /\ \A q \in Conns \ {p} : cmd'[q] = cmd[q]
         /\ cmd'[p].stage = "safe" /\ cmd'[p].job = cmd[p].job
         /\ cmd'[p].pc \in {"store", "exit", "discard", "unlink"}
         /\ cmd'[p].pc = "store" => Of[cmd'[p].value] = cmd[p].job.name
         /\ cmd'[p].pc \in {"discard", "discarded", "unlink"} => cmd[p].job.cmd = "delete"
<1>1. cmd[p].stage = "safe" /\ cmd[p].job.cmd \in {"open", "cat", "delete"}
      /\ cmd[p].online \in BOOLEAN
  BY JobFields DEF ReadInv, SafeInv, CmdFit, Reader, ReadingJobs
<1> QED
  BY <1>1 DEF GoesOn, Continues

LEMMA ReaderFields ==
  ASSUME ReadInv, ReadingJobs, NEW p \in Conns
  PROVE  /\ SafeInv /\ cmd \in [Conns -> Cmd] /\ cmd[p] \in Cmd /\ Fit(cmd[p]) /\ Reader(p)
         /\ cmd[p].stage = "safe" /\ cmd[p].job.cmd \in {"open", "cat", "delete"}
         /\ Subject(p) = cmd[p].job.name /\ cmd[p].job.name \in Names
         /\ ~Creating(p) /\ (Refuse(p) => Return(p, "failed"))
<1>1. /\ SafeInv /\ cmd \in [Conns -> Cmd] /\ cmd[p] \in Cmd /\ Fit(cmd[p]) /\ Reader(p)
      /\ cmd[p].stage = "safe"
  BY DEF ReadInv, SafeInv, CmdFit, Reader, Fit
<1>2. cmd[p].job \in Jobs /\ cmd[p].job.name \in Names
  BY <1>1, JobFields
<1> QED
  BY <1>1, <1>2 DEF ReadingJobs, Subject, Creating, Refuse

LEMMA CheckReads == ASSUME ReadInv, ReadingJobs, NEW p \in Conns, Check(p) PROVE ReadInv'
<1>0. SafeInv' /\ UNCHANGED <<vars, file>> /\ UNCHANGED storage
  BY ReaderFields, CheckFit, LocalType DEF Check, vars
<1>1. PICK x \in {"ask", "read", "exit"} : LET c == cmd[p] IN \E r :
        Becomes(p, x, c.stage, c.job, c.online, c.password, c.value, c.found, r)
  <2>1. CASE Refuse(p)
    BY <2>1, ReaderFields, ReturnFields
  <2>2. ASSUME NEW x \in {"ask", "read"}, Goto(p, x)
        PROVE  LET c == cmd[p] IN
               Becomes(p, x, c.stage, c.job, c.online, c.password, c.value, c.found, c.rc)
    BY <2>2, ReaderFields, GotoFields DEF Places
  <2>3. Refuse(p) \/ \E x \in {"ask", "read"} : Goto(p, x)
    <3>1. Refuse(p) \/ Goto(p, IF cmd[p].online /\ ~Forced(p) THEN "ask" ELSE "read")
      BY ReaderFields DEF Check
    <3> QED BY <3>1, Zenon
  <2> QED BY <2>1, <2>2, <2>3
<1>2. OwnFiles'
  BY <1>0 DEF ReadInv, OwnFiles
<1>3. req'[p] \in Seq(OwnRequest(cmd[p].job.name)) /\ rep'[p] \in Seq(OwnReply(cmd[p].job.name))
      /\ \A q \in Conns \ {p} : req'[q] = req[q] /\ rep'[q] = rep[q] /\ peer'[q] = peer[q]
  BY <1>0, ReaderChannel
<1> QED
  BY <1>0, <1>1, <1>2, <1>3, ReaderFields, ReaderGoesOn DEF Becomes, Like

LEMMA AskReads == ASSUME ReadInv, ReadingJobs, NEW p \in Conns, Ask(p) PROVE ReadInv'
<1>0. SafeInv' /\ UNCHANGED <<storage, file>> /\ OwnFiles'
  BY ReaderFields, AskFit DEF Ask, ReadInv, OwnFiles
<1>1. LET c == cmd[p] IN
      Becomes(p, "answer", c.stage, c.job, c.online, c.password, c.value, c.found, c.rc)
  BY ReaderFields, GotoFields DEF Ask, Places
<1>2. PICK m \in OwnRequest(cmd[p].job.name) : Send(p, m)
  BY ReaderFields, MessageTypes DEF Ask, OwnRequest
<1> QED
  BY <1>0, <1>1, <1>2, ReaderFields, ReaderChannel, ReaderGoesOn DEF Becomes, Like

LEMMA AnsweredReads == ASSUME ReadInv, ReadingJobs, NEW p \in Conns, Answered(p) PROVE ReadInv'
<1>0. SafeInv' /\ UNCHANGED <<storage, file>> /\ OwnFiles'
  BY ReaderFields, AnsweredFit DEF Answered, ReadInv, OwnFiles
<1>1. CASE HearsNo(p, "SEARCH") /\ Goto(p, "read")
  <2>1. LET c == cmd[p] IN
        Becomes(p, "read", c.stage, c.job, c.online, c.password, c.value, c.found, c.rc)
    BY <1>1, ReaderFields, GotoFields DEF Places
  <2>2. PICK op : Hears(p, op)
    BY <1>1 DEF HearsNo
  <2> QED BY <1>0, <2>1, <2>2, ReaderFields, ReaderChannel, ReaderGoesOn DEF Becomes, Like
<1>2. CASE Hears(p, "SEARCH") /\ GoesOn(p, Head(rep[p]).unsafe.value)
  <2>1. rep[p] # <<>> /\ Head(rep[p]).op = "SEARCH"
    BY <1>2, ReaderFields, FoundType DEF Receive, SafeInv
  <2>2. Head(rep[p]) \in OwnReply(cmd[p].job.name)
    <3>1. PICK S : S = OwnReply(cmd[p].job.name)
      OBVIOUS
    <3> QED BY <2>1, <3>1, ReaderFields DEF Reader
  <2>3. Of[Head(rep[p]).unsafe.value] = cmd[p].job.name
    BY <2>1, <2>2 DEF OwnReply
  <2> QED BY <1>0, <1>2, <2>3, GoesOnReads, ReaderChannel, ReaderGoesOn
<1> QED
  BY <1>1, <1>2, ReaderFields, AnsweredFit

LEMMA ReadFileReads == ASSUME ReadInv, ReadingJobs, NEW p \in Conns, ReadFile(p) PROVE ReadInv'
<1>0. SafeInv' /\ UNCHANGED <<vars, storage, file>> /\ OwnFiles'
  BY ReaderFields, ReadFileFit DEF ReadInv, OwnFiles, vars
<1>1. CASE Refuse(p)
  <2>1. LET c == cmd[p] IN
        Becomes(p, "exit", c.stage, c.job, c.online, c.password, c.value, c.found, "failed")
    BY <1>1, ReaderFields, ReturnFields
  <2>2. req'[p] \in Seq(OwnRequest(cmd[p].job.name)) /\ rep'[p] \in Seq(OwnReply(cmd[p].job.name))
        /\ \A q \in Conns \ {p} : req'[q] = req[q] /\ rep'[q] = rep[q] /\ peer'[q] = peer[q]
    BY <1>0, ReaderChannel
  <2> QED BY <1>0, <2>1, <2>2, ReaderFields, ReaderGoesOn DEF Becomes, Like
<1>2. CASE file[Subject(p)] # NoFile /\ GoesOn(p, file[Subject(p)].value)
  <2>1. Of[file[Subject(p)].value] = cmd[p].job.name
    BY <1>2, ReaderFields DEF ReadInv, OwnFiles
  <2> QED BY <1>0, <1>2, <2>1, GoesOnReads, ReaderChannel, ReaderGoesOn
<1> QED
  BY <1>1, <1>2, ReaderFields, ReadFileFit

LEMMA SendStoreReads == ASSUME ReadInv, ReadingJobs, NEW p \in Conns, Store(p) PROVE ReadInv'
<1>0. SafeInv' /\ UNCHANGED <<storage, file>> /\ OwnFiles'
  BY ReaderFields, StoreFit DEF Store, ReadInv, OwnFiles
<1>1. LET c == cmd[p] IN
      Becomes(p, "exit", c.stage, c.job, c.online, c.password, c.value, c.found, "ok")
  BY ReaderFields, ReturnFields DEF Store
<1>2. PICK t \in Lifetimes : Send(p, Stored(cmd[p].job.name, cmd[p].value, t))
  BY DEF Store
<1>3. cmd[p].value \in Values /\ Of[cmd[p].value] = cmd[p].job.name
  BY ReaderFields DEF Store, At, Fit, Reader
<1>4. PICK m \in Request : m = Stored(cmd[p].job.name, cmd[p].value, t)
  BY <1>3, ReaderFields, StoredType, LifetimeAssumption
<1>5. m \in OwnRequest(cmd[p].job.name)
  BY <1>3, <1>4 DEF OwnRequest, Stored
<1> QED
  BY <1>0, <1>1, <1>2, <1>4, <1>5, ReaderFields, ReaderChannel, ReaderGoesOn DEF Becomes, Like

LEMMA SendDiscardReads == ASSUME ReadInv, ReadingJobs, NEW p \in Conns, Discard(p) PROVE ReadInv'
<1>0. SafeInv' /\ UNCHANGED <<storage, file>> /\ OwnFiles' /\ cmd[p].job.cmd = "delete"
  BY ReaderFields, DiscardFit DEF Discard, ReadInv, OwnFiles, Reader, At
<1>1. LET c == cmd[p] IN
      Becomes(p, "discarded", c.stage, c.job, c.online, c.password, c.value, c.found, c.rc)
  BY ReaderFields, GotoFields DEF Discard, Places
<1>2. PICK m \in OwnRequest(cmd[p].job.name) : Send(p, m)
  BY ReaderFields, MessageTypes DEF Discard, OwnRequest
<1> QED
  BY <1>0, <1>1, <1>2, ReaderFields, ReaderChannel, ReaderGoesOn DEF Becomes, Like

LEMMA DiscardedReads == ASSUME ReadInv, ReadingJobs, NEW p \in Conns, Discarded(p) PROVE ReadInv'
<1>0. SafeInv' /\ UNCHANGED <<storage, file>> /\ OwnFiles' /\ cmd[p].job.cmd = "delete"
  BY ReaderFields, DiscardedFit DEF Discarded, ReadInv, OwnFiles, Reader, At
<1>1. PICK op : Hears(p, op)
  BY DEF Discarded, HearsNo
<1>2. Goto(p, "unlink") \/ Return(p, "failed")
  BY <1>0 DEF Discarded
<1>3. PICK x \in {"unlink", "exit"} : LET c == cmd[p] IN \E r :
        Becomes(p, x, c.stage, c.job, c.online, c.password, c.value, c.found, r)
  BY <1>2, ReaderFields, GotoFields, ReturnFields DEF Places
<1> QED
  BY <1>0, <1>1, <1>3, ReaderFields, ReaderChannel, ReaderGoesOn DEF Becomes, Like

LEMMA UnlinkReads == ASSUME ReadInv, ReadingJobs, NEW p \in Conns, Unlink(p) PROVE ReadInv'
<1>0. SafeInv' /\ UNCHANGED <<vars, storage>>
  BY ReaderFields, UnlinkFit DEF vars
<1>1. OwnFiles'
  BY ReaderFields DEF Unlink, ReadInv, OwnFiles, SafeInv, FileType
<1>2. PICK r \in {"ok", "failed"} : Return(p, r)
  BY DEF Unlink
<1>3. LET c == cmd[p] IN
      Becomes(p, "exit", c.stage, c.job, c.online, c.password, c.value, c.found, r)
  BY <1>2, ReaderFields, ReturnFields
<1>4. req'[p] \in Seq(OwnRequest(cmd[p].job.name)) /\ rep'[p] \in Seq(OwnReply(cmd[p].job.name))
      /\ \A q \in Conns \ {p} : req'[q] = req[q] /\ rep'[q] = rep[q] /\ peer'[q] = peer[q]
  BY <1>0, ReaderChannel
<1> QED
  BY <1>0, <1>1, <1>3, <1>4, ReaderFields, ReaderGoesOn DEF Becomes, Like

LEMMA LeaveReads ==
  ASSUME ReadInv, ReadingJobs, NEW p \in Conns, Exit(p) \/ Interrupt(p) \/ BrokenPipe(p)
  PROVE  ReadInv'
<1>0. SafeInv' /\ UNCHANGED <<storage, file>> /\ OwnFiles'
  BY ReaderFields, ExitFit, KilledFit DEF ReadInv, OwnFiles
<1>1. PICK r : LET c == cmd[p] IN
      Becomes(p, "done", c.stage, c.job, c.online, c.password, c.value, c.found, r)
  BY ReaderFields, GotoFields, KilledFields DEF Exit, Interrupt, BrokenPipe, Places
<1>2. Close(p) \/ UNCHANGED <<agentVars, channelVars>>
  BY DEF Exit, Interrupt, BrokenPipe
<1>3. req'[p] \in Seq(OwnRequest(cmd[p].job.name)) /\ rep'[p] \in Seq(OwnReply(cmd[p].job.name))
      /\ \A q \in Conns \ {p} : req'[q] = req[q] /\ rep'[q] = rep[q] /\ peer'[q] = peer[q]
  BY <1>2, ReaderChannel
<1> QED
  BY <1>0, <1>1, <1>3, ReaderFields, ReaderGoesOn DEF Becomes, Like

\* A command starts with nothing to read or be read on its connection.
LEMMA StartReads == ASSUME ReadInv, ReadingJobs, NEW p \in Conns, Start(p) PROVE ReadInv'
<1>0. SafeInv' /\ UNCHANGED <<storage, file>> /\ OwnFiles'
      /\ \A q \in Conns \ {p} : cmd'[q] = cmd[q]
  BY ReaderFields, StartFit DEF ReadInv, OwnFiles
<1>1. req[p] = <<>> /\ rep[p] = <<>> /\ TypeOK
  BY ReaderFields DEF Start, At, Reader, SafeInv
<1>s. SafeInv
  BY DEF ReadInv
<1>2. PICK j \in Jobs : StartsOn(p, j)
  BY <1>s, StartFit
<1>3. cmd'[p].stage = "safe" /\ cmd'[p].pc \in {"check", "exit"}
  BY <1>2, ReaderFields DEF StartsOn, Begun, Refused, ReadingJobs
<1>4. /\ req' = req /\ rep' = rep
      /\ \A q \in Conns \ {p} : peer'[q] = peer[q]
  <2>1. CASE Connect(p)
    BY <1>1, <2>1, ChannelUse
  <2>2. CASE UNCHANGED vars
    BY <2>2 DEF vars
  <2> QED BY <1>2, <2>1, <2>2 DEF StartsOn
<1>5. Reader(p)'
  <2>1. <<>> \in Seq(OwnRequest(cmd'[p].job.name)) /\ <<>> \in Seq(OwnReply(cmd'[p].job.name))
    BY EmptyRow
  <2> QED BY <1>1, <1>3, <1>4, <2>1 DEF Reader
<1>6. \A q \in Conns : Reader(q)'
  BY <1>0, <1>4, <1>5, OthersRead
<1> QED
  BY <1>0, <1>6 DEF ReadInv, EntriesOwnValues

\* No other step of a command is one of a reader.
LEMMA CommandReads == ASSUME ReadInv, ReadingJobs, NEW p \in Conns, Command(p) PROVE ReadInv'
<1>1. /\ ~CfgStore(p) /\ ~Edit(p) /\ ~SaveAsk(p) /\ ~SaveAnswered(p) /\ ~SaveStore(p)
      /\ ~WriteFile(p) /\ ~Restore(p) /\ ~Move(p)
  BY ReaderFields
     DEF Reader, At, CfgStore, Edit, SaveAsk, SaveAnswered, SaveStore, WriteFile, Restore, Move
<1> QED
  BY <1>1, CheckReads, AskReads, AnsweredReads, ReadFileReads, SendStoreReads, SendDiscardReads,
     DiscardedReads, UnlinkReads, LeaveReads DEF Command

LEMMA NextReads == ASSUME ReadingJobs PROVE ReadInv /\ [SafeNext]_allVars => ReadInv'
<1> SUFFICES ASSUME ReadInv, [SafeNext]_allVars PROVE ReadInv'
  OBVIOUS
<1>1. CASE UNCHANGED allVars
  <2>1. SafeInv' /\ UNCHANGED <<storage, file, cmd, req, rep, peer>>
    BY <1>1, SafeNextFit DEF ReadInv, allVars, vars, safeVars
  <2>2. \A p \in Conns : Reader(p)'
    BY <2>1, RowsRead DEF ReadInv, Reader
  <2> QED BY <2>1, <2>2 DEF ReadInv, OwnFiles, EntriesOwnValues
<1> QED
  BY <1>1, AgentReads, CommandReads, StartReads, LeaveReads DEF SafeNext

\* However many commands that write no safe run at a time, whatever lifetimes end,
\* commands are killed and connections given away meanwhile: an entry of the agent
\* holds the secret of the safe it is filed under.
THEOREM EntriesOwn == ASSUME ReadingJobs PROVE SafeSpec => []EntriesOwnValues
<1>1. ReadInv => EntriesOwnValues
  BY DEF ReadInv
<1> QED
  BY InitReads, NextReads, <1>1, PTL DEF SafeSpec

-----------------------------------------------------------------------------
(* One command after the other                                              *)

\* The other processes and their connections are left alone.
Apart(p) ==
  \A q \in Conns \ {p} : /\ cmd'[q] = cmd[q] /\ req'[q] = req[q]
                         /\ rep'[q] = rep[q] /\ peer'[q] = peer[q]

LEMMA ChannelApart ==
  ASSUME TypeOK, NEW p \in Conns, \A q \in Conns \ {p} : cmd'[q] = cmd[q],
         \/ UNCHANGED vars \/ UNCHANGED <<agentVars, channelVars>>
         \/ \E m : Send(p, m)
         \/ \E op : Hears(p, op)
         \/ Close(p) \/ Connect(p)
  PROVE  Apart(p)
<1>1. CASE UNCHANGED <<req, rep, peer>>
  BY <1>1 DEF Apart
<1>2. CASE \E op : Hears(p, op)
  BY <1>1, <1>2, ChannelUse DEF Hears, channelVars, Apart
<1> QED
  BY <1>1, <1>2, ChannelUse DEF Apart, vars, channelVars

\* What a step of a command changes: its own place, and its own connection.
LEMMA CommandApart ==
  ASSUME SafeInv, NEW p \in Conns, Command(p) \/ Interrupt(p)
  PROVE  /\ Apart(p) /\ UNCHANGED storage
         /\ Running(p) /\ cmd'[p].pc # "idle" /\ cmd'[p].job = cmd[p].job
<1>0. TypeOK /\ cmd \in [Conns -> Cmd] /\ Fit(cmd[p]) /\ cmd[p] \in Cmd
  BY DEF SafeInv, CmdFit, Fit
<1> DEFINE Goes == /\ \A q \in Conns \ {p} : cmd'[q] = cmd[q]
                   /\ cmd'[p].pc # "idle" /\ cmd'[p].job = cmd[p].job
<1>g. ASSUME NEW x \in Places \ {"idle"}, Goto(p, x) PROVE Goes
  BY <1>0, <1>g, GotoFields DEF Becomes, Like
<1>r. ASSUME NEW r \in {"ok", "failed"}, Return(p, r) PROVE Goes
  BY <1>0, <1>r, ReturnFields DEF Becomes, Like
<1>k. ASSUME Killed(p) PROVE Goes
  BY <1>0, <1>k, KilledFields DEF Becomes, Like
<1>o. ASSUME NEW v, GoesOn(p, v), ~(cmd[p].stage = "safe" /\ cmd[p].job.cmd = "create") PROVE Goes
  <2>1. cmd[p].job.cmd \in Commands /\ cmd[p].stage \in {"config", "safe"} /\ cmd[p].online \in BOOLEAN
    BY <1>0, JobFields
  <2> QED BY <1>o, <2>1 DEF GoesOn, Continues, Commands
<1>1. CASE Check(p)
  <2>1. UNCHANGED vars /\ Running(p)
    BY <1>1, LocalType DEF Check, At, Running
  <2>2. Goes
    <3>1. CASE \E r \in {"ok", "failed"} : Return(p, r)
      BY <1>r, <3>1
    <3>2. CASE \E x \in {"edit", "ask", "read"} : Goto(p, x)
      BY <1>g, <3>2 DEF Places
    <3>3. Refuse(p) => \E r \in {"ok", "failed"} : Return(p, r)
      BY DEF Refuse
    <3>4. \/ Refuse(p) \/ Goto(p, "edit")
          \/ Goto(p, IF cmd[p].online /\ ~Forced(p) THEN "ask" ELSE "read")
      BY <1>1 DEF Check
    <3>5. (Goto(p, IF cmd[p].online /\ ~Forced(p) THEN "ask" ELSE "read"))
          => \E x \in {"edit", "ask", "read"} : Goto(p, x)
      BY Zenon
    <3> QED BY <3>1, <3>2, <3>3, <3>4, <3>5
  <2> QED BY <1>0, <2>1, <2>2, ChannelApart DEF vars
<1>2. CASE Ask(p) \/ SaveAsk(p) \/ Discard(p) \/ SaveStore(p) \/ Restore(p)
  <2>1. Running(p) /\ UNCHANGED storage /\ \E m : Send(p, m)
    BY <1>2 DEF Ask, SaveAsk, Discard, SaveStore, Restore, At, Running, Send, agentVars
  <2>2. PICK x \in Places \ {"idle"} : Goto(p, x)
    BY <1>2 DEF Ask, SaveAsk, Discard, SaveStore, Restore, Places
  <2> QED BY <1>0, <1>g, <2>1, <2>2, ChannelApart
<1>3. CASE Store(p)
  <2>1. Running(p) /\ UNCHANGED storage /\ Return(p, "ok") /\ \E m : Send(p, m)
    BY <1>3 DEF Store, At, Running, Send, agentVars
  <2> QED BY <1>0, <1>r, <2>1, ChannelApart
<1>4. CASE CfgStore(p)
  <2>1. Running(p) /\ UNCHANGED storage /\ \E m : Send(p, m)
    BY <1>4 DEF CfgStore, At, Running, Send, agentVars
  <2>2. Goes
    BY <1>4, CfgStoreFit DEF Becomes, Like
  <2> QED BY <1>0, <2>1, <2>2, ChannelApart
<1>5. CASE Answered(p)
  <2>1. Running(p) /\ UNCHANGED storage /\ \E op : Hears(p, op)
    BY <1>5, AnsweredFit DEF Answered, At, Running, HearsNo
  <2>2. Goes
    <3>1. ~(cmd[p].stage = "safe" /\ cmd[p].job.cmd = "create")
      BY <1>0, <1>5 DEF Answered, At, Fit
    <3> QED BY <1>5, <1>g, <1>o, <3>1, AnsweredFit DEF Places
  <2> QED BY <1>0, <2>1, <2>2, ChannelApart
<1>6. CASE SaveAnswered(p)
  <2>1. Running(p) /\ UNCHANGED storage /\ \E op : Hears(p, op)
    BY <1>6, SaveAnsweredFit DEF SaveAnswered, At, Running, HearsNo
  <2>2. Goes
    BY <1>6, <1>g, SaveAnsweredFit DEF Becomes, Like, Places
  <2> QED BY <1>0, <2>1, <2>2, ChannelApart
<1>7. CASE Discarded(p)
  <2>1. Running(p) /\ UNCHANGED storage /\ \E op : Hears(p, op)
    BY <1>7, DiscardedFit DEF Discarded, At, Running, HearsNo
  <2>2. Goes
    BY <1>7, <1>g, <1>r DEF Discarded, Places
  <2> QED BY <1>0, <2>1, <2>2, ChannelApart
<1>8. CASE ReadFile(p)
  <2>1. Running(p) /\ UNCHANGED <<vars, storage>>
    BY <1>8, ReadFileFit DEF ReadFile, At, Running, vars
  <2>2. Goes
    <3>1. ~(cmd[p].stage = "safe" /\ cmd[p].job.cmd = "create")
      BY <1>0, <1>8 DEF ReadFile, At, Fit
    <3> QED BY <1>8, <1>r, <1>o, <3>1, ReadFileFit DEF Refuse
  <2> QED BY <1>0, <2>1, <2>2, ChannelApart
<1>9. CASE Edit(p)
  <2>1. Running(p) /\ UNCHANGED <<vars, storage>>
    BY <1>9, EditFit DEF Edit, At, Running, vars
  <2>2. Goes
    BY <1>9, <1>r, EditFit DEF Becomes, Like
  <2> QED BY <1>0, <2>1, <2>2, ChannelApart
<1>10. CASE WriteFile(p) \/ Unlink(p) \/ Move(p)
  <2>1. Running(p) /\ UNCHANGED <<vars, storage>>
    BY <1>10, WriteFileFit, UnlinkFit, MoveFit DEF WriteFile, Unlink, Move, At, Running, vars
  <2>2. Goes
    BY <1>10, <1>g, <1>r, WriteFileFit DEF Unlink, Move, Places
  <2> QED BY <1>0, <2>1, <2>2, ChannelApart
<1>11. CASE Exit(p) \/ Interrupt(p) \/ BrokenPipe(p)
  <2>1. Running(p) /\ UNCHANGED storage /\ (Close(p) \/ UNCHANGED <<agentVars, channelVars>>)
    BY <1>11, ExitFit, KilledFit DEF Exit, Interrupt, BrokenPipe, At, Running, Sending
  <2>2. Goes
    BY <1>11, <1>g, <1>k DEF Exit, Interrupt, BrokenPipe, Places
  <2> QED BY <1>0, <2>1, <2>2, ChannelApart
<1> QED
  BY <1>1, <1>2, <1>3, <1>4, <1>5, <1>6, <1>7, <1>8, <1>9, <1>10, <1>11 DEF Command

LEMMA StartApart ==
  ASSUME SafeInv, NEW p \in Conns, Start(p)
  PROVE  /\ Apart(p) /\ UNCHANGED <<storage, file>>
         /\ req'[p] = req[p] /\ rep'[p] = rep[p]
         /\ cmd[p].pc = "idle" /\ Running(p)' /\ cmd'[p].pc \in {"check", "exit"}
         /\ Serial => Settled
<1>1. PICK j \in Jobs : StartsOn(p, j)
  BY StartFit
<1>2. cmd[p].pc = "idle" /\ (Serial => Settled) /\ TypeOK
  BY DEF Start, At, SafeInv
<1>3. UNCHANGED <<storage, file>> /\ \A q \in Conns \ {p} : cmd'[q] = cmd[q]
  BY StartFit
<1>4. cmd'[p].pc \in {"check", "exit"}
  BY <1>1 DEF StartsOn, Refused, Begun
<1>5. Apart(p)
  BY <1>1, <1>2, <1>3, ChannelApart DEF StartsOn
<1>6. req'[p] = req[p] /\ rep'[p] = rep[p]
  <2>1. CASE Connect(p)
    BY <1>2, <2>1, ChannelUse
  <2>2. CASE UNCHANGED vars
    BY <2>2 DEF vars
  <2> QED BY <1>1, <2>1, <2>2 DEF StartsOn
<1> QED
  BY <1>2, <1>3, <1>4, <1>5, <1>6 DEF Running

\* While a command runs it is alone, and nothing is left of those before it.
Alone(p) == Running(p) => \A q \in Conns \ {p} : ~Running(q) /\ req[q] = <<>>
Fresh(p) == cmd[p].pc = "idle" =>
              peer[p] = "absent" /\ req[p] = <<>> /\ rep[p] = <<>> /\ cmd[p].stage = "safe"

AloneInv == SafeInv /\ \A p \in Conns : Alone(p) /\ Fresh(p)

LEMMA InitAlone == SafeInit => AloneInv
<1> SUFFICES ASSUME SafeInit PROVE AloneInv
  OBVIOUS
<1>1. \A p \in Conns : /\ cmd[p].pc = "idle" /\ cmd[p].stage = "safe"
                       /\ peer[p] = "absent" /\ req[p] = <<>> /\ rep[p] = <<>>
  BY DEF SafeInit, Init
<1> QED
  BY <1>1, InitSafe DEF AloneInv, Alone, Fresh, Running

\* The agent sends nothing to a client that is not there, and takes what there is.
LEMMA AgentApart ==
  ASSUME SafeInv, Agent
  PROVE  /\ SafeInv' /\ UNCHANGED <<cmd, file, peer>>
         /\ \A q \in Conns : /\ req[q] = <<>> => req'[q] = <<>>
                             /\ peer[q] # "connected" => rep'[q] = rep[q]
<1>0. SafeInv' /\ UNCHANGED <<cmd, file>> /\ TypeOK
  BY AgentFit DEF safeVars, SafeInv
<1> DEFINE Takes == \A q \in Conns : req[q] = <<>> => req'[q] = <<>>
           Sends == \A q \in Conns : peer[q] # "connected" => rep'[q] = rep[q]
<1>a. ASSUME NEW c \in Conns, NEW m, Answer(c, m) PROVE Sends
  BY <1>0, <1>a DEF Answer, TypeOK
<1>t. ASSUME NEW c \in Conns, NEW op, Taken(c, op) PROVE Takes
  BY <1>0, <1>t DEF Taken, TypeOK
<1>s. ASSUME Stop PROVE Takes /\ Sends /\ UNCHANGED peer
  BY <1>s DEF Stop
<1>1. ASSUME NEW c \in Conns, Dispatch(c) PROVE Takes /\ Sends /\ UNCHANGED peer
  <2>1. CASE DispatchStore(c)
    BY <1>t, <2>1 DEF DispatchStore
  <2>2. CASE DispatchSearch(c)
    BY <1>t, <1>a, <2>2 DEF DispatchSearch
  <2>3. CASE DispatchDiscard(c)
    BY <1>t, <1>a, <2>3 DEF DispatchDiscard
  <2>4. CASE DispatchEof(c)
    BY <2>4 DEF DispatchEof, channelVars
  <2> QED BY <1>1, <2>1, <2>2, <2>3, <2>4 DEF Dispatch
<1>2. ASSUME NEW t \in timers, TimeoutDiscard(t) PROVE Takes /\ Sends /\ UNCHANGED peer
  <2>1. CASE ExpireMissing(t)
    BY <1>a, <2>1 DEF ExpireMissing, Owner
  <2>2. CASE UNCHANGED channelVars
    BY <2>2 DEF channelVars
  <2> QED BY <1>2, <1>s, <2>1, <2>2 DEF TimeoutDiscard, ExpireFound, ExpireDangling
<1>3. ASSUME NEW c \in Conns, Accept(c) PROVE Takes /\ Sends /\ UNCHANGED peer
  BY <1>3 DEF Accept, channelVars
<1>4. ASSUME Tick PROVE Takes /\ Sends /\ UNCHANGED peer
  BY <1>4 DEF Tick, channelVars
<1> QED
  BY <1>0, <1>1, <1>2, <1>3, <1>4, <1>s DEF Agent, AgentKill

LEMMA AgentAlone == ASSUME AloneInv, Agent PROVE AloneInv'
BY AgentApart DEF AloneInv, Alone, Fresh, Running

LEMMA CommandAlone ==
  ASSUME AloneInv, NEW p \in Conns, Command(p) \/ Interrupt(p)
  PROVE  AloneInv'
<1>1. SafeInv'
  BY CommandFit, KilledFit DEF AloneInv
<1>2. Apart(p) /\ Running(p) /\ cmd'[p].pc # "idle" /\ Alone(p)
  BY CommandApart DEF AloneInv
<1>3. ASSUME NEW q \in Conns PROVE Alone(q)' /\ Fresh(q)'
  <2>1. CASE q = p
    BY <1>2, <2>1 DEF Apart, Alone, Fresh, Running
  <2>2. CASE q # p
    BY <1>2, <2>2 DEF AloneInv, Apart, Alone, Fresh, Running
  <2> QED BY <2>1, <2>2
<1> QED
  BY <1>1, <1>3 DEF AloneInv

LEMMA StartAlone == ASSUME AloneInv, Serial, NEW p \in Conns, Start(p) PROVE AloneInv'
<1>1. SafeInv'
  BY StartFit DEF AloneInv
<1>2. Apart(p) /\ Settled /\ Running(p)'
  BY StartApart DEF AloneInv
<1>3. ASSUME NEW q \in Conns PROVE Alone(q)' /\ Fresh(q)'
  <2>1. CASE q = p
    BY <1>2, <2>1 DEF Apart, Settled, Alone, Fresh, Running
  <2>2. CASE q # p
    BY <1>2, <2>2 DEF AloneInv, Apart, Settled, Alone, Fresh, Running
  <2> QED BY <2>1, <2>2
<1> QED
  BY <1>1, <1>3 DEF AloneInv

LEMMA QuietAlone == ASSUME AloneInv, UNCHANGED allVars PROVE AloneInv'
<1>1. SafeInv'
  BY SafeNextFit DEF AloneInv
<1> QED
  BY <1>1 DEF AloneInv, Alone, Fresh, Running, allVars, vars, safeVars

LEMMA NextAlone == ASSUME Serial PROVE AloneInv /\ [SafeNext]_allVars => AloneInv'
<1> SUFFICES ASSUME AloneInv, [SafeNext]_allVars PROVE AloneInv'
  OBVIOUS
<1> QED
  BY AgentAlone, CommandAlone, StartAlone, QuietAlone DEF SafeNext

-----------------------------------------------------------------------------
(* A delete that reports a success has deleted                              *)

Discards(n) == {m \in Request : m.op = "DISCARD" /\ m.name = n}
Errors      == {m \in Reply : m.op = "ERROR"}

\* A connected delete sends the agent its DISCARD only, and goes on to the file only
\* with an answer that says that the entry is gone.
Deleting(p) == Running(p) /\ cmd[p].job.cmd = "delete"
Deletes(p) ==
  LET n == cmd[p].job.name IN
    /\ cmd[p].stage = "safe"
    /\ cmd[p].pc \in {"check", "read", "discard", "discarded", "unlink", "exit"}
    /\ cmd[p].pc # "exit" => cmd[p].online
    /\ req[p] \in Seq(Discards(n))
    /\ rep[p] \in Seq(Errors) \/ storage[n] = Absent
    /\ cmd[p].pc = "unlink" => storage[n] = Absent
    /\ cmd[p].pc = "exit" /\ cmd[p].rc = "ok" => file[n] = NoFile /\ storage[n] = Absent

DeleteInv == AloneInv /\ \A p \in Conns : Deleting(p) => Deletes(p)

LEMMA InitDelete == SafeInit => DeleteInv
<1> SUFFICES ASSUME SafeInit PROVE DeleteInv
  OBVIOUS
<1>1. \A p \in Conns : cmd[p].pc = "idle"
  BY DEF SafeInit
<1> QED
  BY <1>1, InitAlone DEF DeleteInv, Deleting, Running

\* What the agent may do while a delete is under way: nothing comes back into it, and
\* no answer but an ERROR before the entry is gone.
LEMMA AgentDeletes == ASSUME DeleteInv, Agent PROVE DeleteInv'
<1>1. AloneInv' /\ UNCHANGED <<cmd, file, peer>>
  BY AgentAlone, AgentApart DEF DeleteInv, AloneInv
<1>2. ASSUME NEW p \in Conns, Deleting(p), Deletes(p), NEW n, n = cmd[p].job.name
      PROVE  /\ req'[p] \in Seq(Discards(n))
             /\ storage[n] = Absent => storage'[n] = Absent
             /\ rep'[p] \in Seq(Errors) \/ storage'[n] = Absent
  <2>0. /\ TypeOK /\ n \in Names /\ req[p] \in Seq(Discards(n)) /\ req \in [Conns -> Seq(Request)]
        /\ (rep[p] \in Seq(Errors) \/ storage[n] = Absent) /\ rep \in [Conns -> Seq(Reply)]
        /\ storage \in [Names -> Values \cup {Absent}]
        /\ \A q \in Conns \ {p} : req[q] = <<>>
    <3>1. TypeOK /\ cmd[p] \in Cmd /\ \A q \in Conns \ {p} : req[q] = <<>>
      BY <1>2 DEF DeleteInv, AloneInv, Alone, Deleting, SafeInv, CmdFit
    <3> QED BY <1>2, <3>1, JobFields DEF Deletes, TypeOK
  <2>a. ASSUME NEW c \in Conns, Answer(c, [op |-> "ERROR"]) PROVE rep[p] \in Seq(Errors) => rep'[p] \in Seq(Errors)
    <3>1. [op |-> "ERROR"] \in Errors
      BY DEF Errors, Reply
    <3>2. rep'[p] = rep[p] \/ rep'[p] = Append(rep[p], [op |-> "ERROR"])
      BY <2>0, <2>a DEF Answer
    <3> QED BY <3>1, <3>2, RowFacts
  <2>1. ASSUME NEW c \in Conns, NEW op, Taken(c, op)
        PROVE  /\ c = p /\ op = "DISCARD" /\ Head(req[p]).name = n
               /\ req'[p] \in Seq(Discards(n))
    <3>1. req[c] # <<>> /\ Head(req[c]).op = op /\ req' = [req EXCEPT ![c] = Tail(req[c])]
      BY <2>1 DEF Taken
    <3>2. c = p
      BY <2>0, <3>1
    <3>3. Head(req[p]) \in Discards(n) /\ Tail(req[p]) \in Seq(Discards(n))
      BY <2>0, <3>1, <3>2, RowFacts
    <3> QED BY <2>0, <3>1, <3>2, <3>3 DEF Discards
  <2>2. CASE Stop
    BY <2>0, <2>2, EmptyRow DEF Stop
  <2>3. ASSUME NEW c \in Conns, Dispatch(c)
        PROVE  /\ req'[p] \in Seq(Discards(n))
               /\ storage[n] = Absent => storage'[n] = Absent
               /\ rep'[p] \in Seq(Errors) \/ storage'[n] = Absent
    <3>1. ~DispatchStore(c) /\ ~DispatchSearch(c)
      BY <2>1 DEF DispatchStore, DispatchSearch
    <3>2. CASE DispatchDiscard(c)
      <4>1. c = p /\ Head(req[c]).name = n /\ req'[p] \in Seq(Discards(n))
        BY <2>1, <3>2 DEF DispatchDiscard
      <4>2. storage'[n] = Absent
        BY <2>0, <3>2, <4>1 DEF DispatchDiscard, Forget
      <4> QED BY <4>1, <4>2
    <3>3. CASE DispatchEof(c)
      BY <2>0, <3>3 DEF DispatchEof, channelVars
    <3> QED BY <2>3, <3>1, <3>2, <3>3 DEF Dispatch
  <2>4. ASSUME NEW t \in timers, TimeoutDiscard(t)
        PROVE  /\ req'[p] \in Seq(Discards(n))
               /\ storage[n] = Absent => storage'[n] = Absent
               /\ rep'[p] \in Seq(Errors) \/ storage'[n] = Absent
    <3>1. CASE ExpireFound(t)
      BY <2>0, <3>1 DEF ExpireFound, Forget, channelVars
    <3>2. CASE ExpireMissing(t)
      <4>1. PICK c \in Conns : Answer(c, [op |-> "ERROR"])
        BY <3>2 DEF ExpireMissing, Owner
      <4> QED BY <2>0, <2>a, <3>2, <4>1 DEF ExpireMissing
    <3>3. CASE ExpireDangling(t) /\ ~Stop
      BY <2>0, <3>3 DEF ExpireDangling, channelVars
    <3> QED BY <2>2, <2>4, <3>1, <3>2, <3>3 DEF TimeoutDiscard
  <2>5. CASE UNCHANGED <<storage, channelVars>>
    BY <2>0, <2>5 DEF channelVars
  <2> QED BY <2>2, <2>3, <2>4, <2>5 DEF Agent, Accept, AgentKill, Tick
<1>3. ASSUME NEW p \in Conns, Deleting(p)' PROVE Deletes(p)'
  <2>1. Deleting(p) /\ Deletes(p)
    BY <1>1, <1>3 DEF DeleteInv, Deleting, Running
  <2> QED BY <1>1, <1>2, <2>1 DEF Deletes
<1> QED
  BY <1>1, <1>3 DEF DeleteInv

LEMMA DeletesFields ==
  ASSUME DeleteInv, NEW p \in Conns, Deleting(p)
  PROVE  /\ TypeOK /\ SafeInv /\ cmd \in [Conns -> Cmd] /\ cmd[p] \in Cmd /\ Fit(cmd[p]) /\ Deletes(p)
         /\ cmd[p].job.cmd = "delete" /\ cmd[p].job.name \in Names
         /\ Subject(p) = cmd[p].job.name /\ ~Creating(p) /\ Forced(p)
         /\ (Refuse(p) => Return(p, "failed"))
<1>1. /\ TypeOK /\ SafeInv /\ cmd \in [Conns -> Cmd] /\ cmd[p] \in Cmd /\ Fit(cmd[p]) /\ Deletes(p)
      /\ cmd[p].job.cmd = "delete"
  BY DEF DeleteInv, AloneInv, SafeInv, CmdFit, Fit, Deleting
<1>2. cmd[p].job.name \in Names
  BY <1>1, JobFields
<1> QED
  BY <1>1, <1>2 DEF Subject, Creating, Forced, Refuse, Deletes

\* What the steps of a delete have in common.
LEMMA DeleteGoesOn ==
  ASSUME DeleteInv, NEW p \in Conns, Deleting(p), UNCHANGED storage,
         cmd'[p].job = cmd[p].job, cmd'[p].stage = "safe", cmd'[p].online = cmd[p].online,
         cmd'[p].pc \in {"read", "discard", "discarded", "unlink", "exit"},
         cmd[p].pc # "exit",
         cmd'[p].pc = "unlink" => storage[cmd[p].job.name] = Absent,
         cmd'[p].pc = "exit" /\ cmd'[p].rc = "ok" =>
           file'[cmd[p].job.name] = NoFile /\ storage[cmd[p].job.name] = Absent,
         req'[p] = req[p] \/ \E m \in Discards(cmd[p].job.name) : req'[p] = Append(req[p], m),
         rep'[p] = rep[p] \/ (rep[p] # <<>> /\ rep'[p] = Tail(rep[p]))
  PROVE  Deletes(p)'
<1>1. Deletes(p) /\ cmd[p].online
  BY DeletesFields DEF Deletes
<1>2. req'[p] \in Seq(Discards(cmd[p].job.name))
  BY <1>1, RowFacts DEF Deletes
<1>3. rep'[p] \in Seq(Errors) \/ storage[cmd[p].job.name] = Absent
  BY <1>1, RowFacts DEF Deletes
<1> QED
  BY <1>1, <1>2, <1>3 DEF Deletes

LEMMA CommandDeletes ==
  ASSUME DeleteInv, NEW p \in Conns, Command(p) \/ Interrupt(p), Deleting(p)
  PROVE  Deleting(p)' => Deletes(p)'
<1>0. /\ TypeOK /\ cmd \in [Conns -> Cmd] /\ cmd[p] \in Cmd /\ Fit(cmd[p]) /\ Deletes(p)
      /\ cmd[p].job.cmd = "delete" /\ cmd[p].job.name \in Names /\ cmd[p].stage = "safe"
      /\ Subject(p) = cmd[p].job.name /\ ~Creating(p) /\ Forced(p)
      /\ (Refuse(p) => Return(p, "failed")) /\ SafeInv
  BY DeletesFields DEF Deletes
<1> DEFINE n == cmd[p].job.name
           Same == /\ cmd'[p].job = cmd[p].job /\ cmd'[p].stage = "safe"
                   /\ cmd'[p].online = cmd[p].online
<1>c. UNCHANGED storage
  BY <1>0, CommandApart
<1>g. ASSUME NEW x \in Places, Goto(p, x) PROVE Same /\ cmd'[p].pc = x
  BY <1>0, <1>g, GotoFields DEF Becomes, Like
<1>r. ASSUME NEW r \in {"ok", "failed"}, Return(p, r) PROVE Same /\ cmd'[p].pc = "exit" /\ cmd'[p].rc = r
  BY <1>0, <1>r, ReturnFields DEF Becomes, Like
<1>1. CASE Check(p)
  <2>1. UNCHANGED vars /\ cmd[p].pc = "check" /\ (Return(p, "failed") \/ Goto(p, "read"))
    BY <1>0, <1>1, LocalType DEF Check, At
  <2>2. req'[p] = req[p] /\ rep'[p] = rep[p]
    BY <2>1 DEF vars
  <2> QED BY <1>c, <1>g, <1>r, <2>1, <2>2, DeleteGoesOn DEF Places
<1>2. CASE ReadFile(p)
  <2>1. /\ UNCHANGED vars /\ cmd[p].pc = "read" /\ cmd[p].online
        /\ (Return(p, "failed") \/ \E v : GoesOn(p, v))
    BY <1>0, <1>2, ReadFileFit DEF ReadFile, At, Deletes
  <2>2. req'[p] = req[p] /\ rep'[p] = rep[p]
    BY <2>1 DEF vars
  <2>3. ASSUME NEW v, GoesOn(p, v) PROVE Same /\ cmd'[p].pc = "discard"
    BY <1>0, <2>1, <2>3 DEF GoesOn, Continues
  <2> QED BY <1>c, <1>r, <2>1, <2>2, <2>3, DeleteGoesOn
<1>3. CASE Discard(p)
  <2>1. PICK m : m = [op |-> "DISCARD", name |-> n] /\ Send(p, m)
    BY <1>3 DEF Discard
  <2>2. m \in Discards(n)
    BY <1>0, <2>1 DEF Discards, Request
  <2>3. req'[p] = Append(req[p], m) /\ rep'[p] = rep[p]
    BY <1>0, <2>1, ChannelUse
  <2>4. cmd[p].pc = "discard" /\ Goto(p, "discarded")
    BY <1>3 DEF Discard, At
  <2> QED BY <1>c, <1>g, <2>2, <2>3, <2>4, DeleteGoesOn DEF Places
<1>4. CASE Discarded(p)
  <2>1. cmd[p].pc = "discarded"
    BY <1>4 DEF Discarded, At
  <2>2. \/ Hears(p, "DISCARD") /\ Goto(p, "unlink")
        \/ HearsNo(p, "DISCARD") /\ Return(p, "failed")
    BY <1>0, <1>4 DEF Discarded
  <2>3. ASSUME NEW op, Hears(p, op)
        PROVE  req'[p] = req[p] /\ (rep'[p] = rep[p] \/ (rep[p] # <<>> /\ rep'[p] = Tail(rep[p])))
    BY <1>0, <2>3, ChannelUse DEF Hears, channelVars
  <2>4. ASSUME Hears(p, "DISCARD") PROVE storage[n] = Absent
    <3>1. rep[p] # <<>> /\ Head(rep[p]).op = "DISCARD"
      BY <2>4 DEF Hears, Receive
    <3>2. rep[p] \in Seq(Errors) => Head(rep[p]).op = "ERROR"
      BY <3>1, RowFacts DEF Errors
    <3> QED BY <1>0, <3>1, <3>2 DEF Deletes
  <2> QED BY <1>c, <1>g, <1>r, <2>1, <2>2, <2>3, <2>4, DeleteGoesOn DEF HearsNo, Places
<1>5. CASE Unlink(p)
  <2>1. UNCHANGED vars /\ cmd[p].pc = "unlink" /\ storage[n] = Absent
    BY <1>0, <1>5, UnlinkFit DEF Unlink, At, Deletes
  <2>2. Return(p, "failed") \/ (Return(p, "ok") /\ file'[n] = NoFile)
    BY <1>0, <1>5 DEF Unlink, SafeInv, FileType
  <2>3. req'[p] = req[p] /\ rep'[p] = rep[p]
    BY <2>1 DEF vars
  <2> QED BY <1>c, <1>r, <2>1, <2>2, <2>3, DeleteGoesOn
<1>6. CASE Exit(p) \/ Interrupt(p) \/ BrokenPipe(p)
  <2>1. Goto(p, "done") \/ Killed(p)
    BY <1>6 DEF Exit, Interrupt, BrokenPipe
  <2>2. cmd'[p].pc = "done"
    BY <1>0, <1>g, <2>1, KilledFields DEF Becomes, Like, Places
  <2> QED BY <2>2 DEF Deleting, Running
<1> QED
  BY <1>0, <1>1, <1>2, <1>3, <1>4, <1>5, <1>6
     DEF Command, Ask, Answered, CfgStore, Edit, SaveAsk, SaveAnswered, SaveStore, WriteFile,
         Store, Restore, Move, At, Deletes

\* With an agent set for every command, a delete starts with an empty connection.
LEMMA StartDeletes ==
  ASSUME DeleteInv, Links \subseteq {TRUE}, NEW p \in Conns, Start(p)
  PROVE  Deleting(p)' => Deletes(p)'
<1>1. PICK j \in Jobs : StartsOn(p, j)
  BY StartFit DEF DeleteInv, AloneInv
<1>2. /\ req'[p] = <<>> /\ rep'[p] = <<>> /\ cmd[p].stage = "safe" /\ cmd'[p].pc \in {"check", "exit"}
  BY StartApart DEF DeleteInv, AloneInv, Fresh
<1>3. req'[p] \in Seq(Discards(j.name)) /\ rep'[p] \in Seq(Errors)
  BY <1>2, EmptyRow
<1>4. Refused(p, j) \/ Begun(p, j, TRUE)
  BY <1>1 DEF StartsOn
<1> QED
  BY <1>2, <1>3, <1>4 DEF Deleting, Deletes, Refused, Begun

\* Whoever takes a step is the only one that runs, before and after it.
LEMMA NextDeletes ==
  ASSUME Serial, Links \subseteq {TRUE} PROVE DeleteInv /\ [SafeNext]_allVars => DeleteInv'
<1> SUFFICES ASSUME DeleteInv, [SafeNext]_allVars PROVE DeleteInv'
  OBVIOUS
<1>1. AloneInv'
  BY NextAlone DEF DeleteInv
<1>2. CASE UNCHANGED allVars
  BY <1>1, <1>2 DEF DeleteInv, Deleting, Deletes, Running, allVars, vars, safeVars
<1>3. CASE Agent
  BY <1>3, AgentDeletes
<1>4. ASSUME NEW p \in Conns, Running(p)', Deleting(p)' => Deletes(p)' PROVE DeleteInv'
  BY <1>1, <1>4 DEF DeleteInv, AloneInv, Alone, Deleting
<1>5. ASSUME NEW p \in Conns, ~Running(p)', Apart(p), Running(p) PROVE DeleteInv'
  BY <1>1, <1>5 DEF DeleteInv, AloneInv, Alone, Apart, Deleting, Running
<1>6. ASSUME NEW p \in Conns, Command(p) \/ Interrupt(p) PROVE DeleteInv'
  <2>1. Running(p) /\ Apart(p) /\ cmd'[p].job = cmd[p].job
    BY <1>6, CommandApart DEF DeleteInv, AloneInv
  <2>2. Deleting(p)' => Deletes(p)'
    BY <1>6, <2>1, CommandDeletes DEF Deleting
  <2> QED BY <1>4, <1>5, <2>1, <2>2
<1>7. ASSUME NEW p \in Conns, Start(p) PROVE DeleteInv'
  <2>1. Running(p)'
    BY <1>7, StartApart DEF DeleteInv, AloneInv
  <2> QED BY <1>4, <1>7, <2>1, StartDeletes
<1> QED
  BY <1>2, <1>3, <1>6, <1>7 DEF SafeNext

\* kp_safe_delete: with an agent set and one command at a time, a safe whose delete
\* succeeds is in no file and not in the agent, whatever the answers a timer mixes in
\* and whenever earlier commands were killed.
THEOREM DeletesAreComplete ==
  ASSUME Serial, Links \subseteq {TRUE} PROVE SafeSpec => []DeleteComplete
<1>1. DeleteInv => DeleteComplete
  BY DEF DeleteInv, Deleting, Deletes, Running, DeleteComplete, Succeeded, At
<1> QED
  BY InitDelete, NextDeletes, <1>1, PTL DEF SafeSpec
=============================================================================
