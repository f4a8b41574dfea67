------------------------- MODULE KpCoherence_proofs -------------------------
(***************************************************************************)
(* The agent and the files of a workspace tell the same of every safe, but *)
(* for the saves that fail, as long as one command runs after the other,   *)
(* no command is killed, no lifetime ends while one runs, and no safe is   *)
(* renamed over another.                                                   *)
(***************************************************************************)
EXTENDS KpSafe_proofs

\* The STOREs that bring the agent what the files hold (Agrees)
Truths == {m \in Request : m.op = "STORE" /\ Agrees(m.unsafe.name, m.unsafe.value)}

\* Where a command waits for an answer, and to what
Waits == {"answer", "saveanswer", "discarded"}
Wanted(p) == IF At(p, "answer") THEN Subject(p) ELSE cmd[p].job.name
Question(p) == [op |-> IF At(p, "discarded") THEN "DISCARD" ELSE "SEARCH", name |-> Wanted(p)]

Asked(p) == rep[p] = <<>> /\ \E r \in Seq(Truths) : req[p] = Append(r, Question(p))

\* The answer is what the agent, and if it names a value the file, holds still
Tells(p, m) ==
  /\ m.op = "SEARCH" => /\ ~At(p, "discarded") /\ m.unsafe.name = Wanted(p)
                        /\ Agrees(Wanted(p), m.unsafe.value)
  /\ m.op # "SEARCH" => storage[Wanted(p)] = Absent
Told(p) == req[p] = <<>> /\ \E m \in Reply : rep[p] = <<m>> /\ Tells(p, m)

\* The agent has no entry of n, or has or is about to have the one that the next
\* step puts into the file, or fails to
Ahead(p, n) ==
  \/ req[p] = <<>> /\ storage[n] \in {Absent, cmd[p].value}
  \/ req[p] = <<Stored(n, cmd[p].value, NoTimeout)>>

\* The agent knows nothing of n, and has not been told
Behind(p, n) == req[p] = <<>> /\ storage[n] = Absent

\* The connection of a command: one question at a time, and STOREs that are true
Talk(p) ==
  /\ cmd[p].pc \in Waits => Asked(p) \/ Told(p) \/ (~alive /\ rep[p] = <<>>)
  /\ At(p, "write") => Ahead(p, cmd[p].job.name)
  /\ At(p, "write") /\ file[cmd[p].job.name] = NoFile => Behind(p, cmd[p].job.name)
  /\ At(p, "move") => Ahead(p, cmd[p].job.to)
  /\ cmd[p].pc \notin Waits \cup {"write", "move"} => req[p] \in Seq(Truths)
  /\ cmd[p].pc \notin Waits \cup {"idle", "exit", "done"} => rep[p] = <<>>

Active(p)   == cmd[p].pc \notin {"idle", "exit", "done"}
Renaming(p) == cmd[p].job.cmd = "rename"

\* What a command has learnt on its way is still so
Knows(p) ==
  LET c == cmd[p]  n == c.job.name IN
  /\ Active(p) => c.online /\ peer[p] = "connected"
  /\ Active(p) /\ c.stage = "config" => c.job.cmd \in {"create", "edit"}
  /\ c.pc \in {"discard", "discarded"} => c.job.cmd \in {"delete", "rename"}
  /\ c.pc = "unlink" => c.job.cmd = "delete"
  /\ c.pc \in {"restore", "move"} => Renaming(p)
  /\ c.pc = "cfgstore" => Agrees(Config, c.value)
  /\ c.pc = "store" => Agrees(n, c.value)
  /\ Succeeded(p, "cat") => Agrees(n, c.value)
  /\ c.pc = "savestore" => c.found = n /\ file[n] # NoFile
  /\ c.pc \in {"savestore", "restore", "unlink"} => req[p] = <<>>
  /\ c.pc \in {"restore", "unlink", "move"} => storage[n] = Absent
  /\ Renaming(p) /\ c.pc \in {"ask", "answer", "read", "discard", "discarded", "restore", "move"} =>
       file[c.job.to] = NoFile /\ c.job.to \notin Unreachable
  /\ Renaming(p) /\ c.pc \in {"discard", "discarded", "restore", "move"} => Agrees(n, c.value)

\* The agent is about to get a true entry of n, or its file the one it has
Promised(n) ==
  \E p \in Conns :
    \/ req[p] # <<>> /\ Head(req[p]).op = "STORE" /\ Head(req[p]).unsafe.name = n
    \/ At(p, "write") /\ n = cmd[p].job.name /\ storage[n] = cmd[p].value
    \/ At(p, "move") /\ n = cmd[p].job.to /\ storage[n] = cmd[p].value

Entry(n) == storage[n] # Absent => Agrees(n, storage[n]) \/ Promised(n)

Dead   == ~alive => (\A n \in Names : storage[n] = Absent) /\ (\A p \in Conns : req[p] = <<>>)
Timely == \A p \in Conns : Running(p) => \A t \in timers : now < t.at

TellInv ==
  /\ AloneInv /\ Dead /\ Timely
  /\ \A p \in Conns : Talk(p) /\ Knows(p)
  /\ \A n \in Names : Entry(n)

-----------------------------------------------------------------------------

LEMMA LastFacts ==
  ASSUME NEW S, NEW r \in Seq(S), NEW q
  PROVE  /\ Append(r, q) # <<>>
         /\ r = <<>> => Head(Append(r, q)) = q /\ Tail(Append(r, q)) = <<>>
         /\ r # <<>> => /\ Head(Append(r, q)) = Head(r) /\ Head(r) \in S
                        /\ Tail(Append(r, q)) = Append(Tail(r), q) /\ Tail(r) \in Seq(S)
<1>1. PICK T : T = S \cup {q}
  OBVIOUS
<1>2. r \in Seq(T) /\ q \in T
  BY <1>1
<1>3. Append(r, q) # <<>> /\ Append(r, q) \in Seq(T)
  BY <1>2
<1>4. ASSUME r = <<>> PROVE Head(Append(r, q)) = q /\ Tail(Append(r, q)) = <<>>
  BY <1>2, <1>4
<1>5. ASSUME r # <<>>
      PROVE  /\ Head(Append(r, q)) = Head(r) /\ Head(r) \in S
             /\ Tail(Append(r, q)) = Append(Tail(r), q) /\ Tail(r) \in Seq(S)
  <2>1. Head(r) \in S /\ Tail(r) \in Seq(S)
    BY <1>5
  <2>2. Head(Append(r, q)) = Head(r)
    BY <1>2, <1>5
  <2>3. Tail(Append(r, q)) = Append(Tail(r), q)
    BY <1>2, <1>5
  <2> QED BY <2>1, <2>2, <2>3
<1> QED
  BY <1>3, <1>4, <1>5

LEMMA OneFacts == ASSUME NEW m PROVE /\ <<m>> # <<>> /\ Head(<<m>>) = m /\ Tail(<<m>>) = <<>>
                                     /\ Append(<<>>, m) = <<m>>
OBVIOUS

LEMMA InitTells == SafeInit => TellInv
<1> SUFFICES ASSUME SafeInit PROVE TellInv
  OBVIOUS
<1>1. /\ \A p \in Conns : /\ cmd[p].pc = "idle" /\ req[p] = <<>>
      /\ \A n \in Names : storage[n] = Absent
  BY DEF SafeInit, Init
<1>2. <<>> \in Seq(Truths)
  BY EmptyRow
<1> QED
  BY <1>1, <1>2, InitAlone
     DEF TellInv, Dead, Timely, Talk, Knows, Entry, Running, Active, Waits, At, Succeeded

-----------------------------------------------------------------------------
(* The agent                                                                *)

\* Nothing moves but the clock, the descriptors and the timers
LEMMA QuietTells ==
  ASSUME TellInv, AloneInv', Timely', UNCHANGED <<cmd, file, peer, storage, alive, req, rep>>
  PROVE  TellInv'
<1>1. ASSUME NEW p \in Conns PROVE Talk(p)' /\ Knows(p)'
  <2>1. Talk(p) /\ Knows(p)
    BY DEF TellInv
  <2>2. Talk(p)'
    BY <2>1 DEF Talk, Asked, Told, Tells, Ahead, Behind, Truths, Agrees, Question, Wanted, Subject, At, Stored
  <2>3. Knows(p)'
    BY <2>1 DEF Knows, Active, Renaming, Agrees, Succeeded, At
  <2> QED BY <2>2, <2>3
<1>2. ASSUME NEW n \in Names PROVE Entry(n)'
  BY DEF TellInv, Entry, Promised, Agrees, At
<1> QED
  BY <1>1, <1>2 DEF TellInv, Dead

\* Between commands entries may go
LEMMA IdleTells ==
  ASSUME TellInv, AloneInv', UNCHANGED <<cmd, file, peer, alive, req>>,
         \A p \in Conns : ~Running(p), \A n \in Names : storage'[n] \in {storage[n], Absent}
  PROVE  TellInv'
<1>1. ASSUME NEW p \in Conns PROVE Talk(p)' /\ Knows(p)'
  <2>1. Talk(p) /\ cmd[p].pc \in {"idle", "done"}
    BY DEF TellInv, Running
  <2> QED BY <2>1 DEF Talk, Knows, Truths, Agrees, Active, Waits, Succeeded, At
<1>2. ASSUME NEW n \in Names PROVE Entry(n)'
  <2>1. Entry(n) /\ \A p \in Conns : ~At(p, "write") /\ ~At(p, "move")
    BY DEF TellInv, At, Running
  <2> QED BY <2>1 DEF Entry, Promised, Agrees, At
<1>3. Dead' /\ Timely'
  BY DEF TellInv, Dead, Timely, Running
<1> QED
  BY <1>1, <1>2, <1>3 DEF TellInv

LEMMA StopTells ==
  ASSUME TellInv, AloneInv', UNCHANGED <<cmd, file>>, Stop PROVE TellInv'
<1>1. /\ ~alive' /\ UNCHANGED <<peer, rep>> /\ timers' = {}
      /\ \A n \in Names : storage'[n] = Absent
      /\ \A p \in Conns : req'[p] = <<>>
  BY DEF Stop
<1>2. ASSUME NEW p \in Conns PROVE Talk(p)' /\ Knows(p)'
  <2>1. Talk(p) /\ Knows(p) /\ Wanted(p) \in Names /\ cmd[p].job.name \in Names /\ cmd[p].job.to \in Names
        /\ <<>> \in Seq(Truths')
    <3>1. SafeInv /\ cmd[p] \in Cmd /\ Talk(p) /\ Knows(p)
      BY DEF TellInv, AloneInv, SafeInv, CmdFit
    <3> QED BY <3>1, JobFields, SubjectType, EmptyRow DEF SafeInv, Wanted
  <2>2. Told(p) => Told(p)'
    BY <1>1, <2>1 DEF Told, Tells, Wanted, Agrees, Subject, At
  <2>3. Talk(p)'
    BY <1>1, <2>1, <2>2 DEF Talk, Asked, Ahead, Behind, At
  <2>4. Knows(p)'
    BY <1>1, <2>1 DEF Knows, Active, Renaming, Agrees, Succeeded, At
  <2> QED BY <2>3, <2>4
<1> QED
  BY <1>1, <1>2 DEF TellInv, Dead, Timely, Entry

\* Who is served while a command runs is this command.
LEMMA ServedAlone ==
  ASSUME TellInv, NEW c \in Conns, NEW op, Taken(c, op)
  PROVE  /\ \A p \in Conns \ {c} : ~Running(p) /\ (Running(c) => req[p] = <<>>)
         /\ req[c] # <<>> /\ Head(req[c]) \in Request /\ Head(req[c]).op = op
         /\ req'[c] = Tail(req[c]) /\ \A p \in Conns \ {c} : req'[p] = req[p]
<1>1. req[c] # <<>> /\ Head(req[c]) \in Request /\ Head(req[c]).op = op
      /\ req'[c] = Tail(req[c]) /\ \A p \in Conns \ {c} : req'[p] = req[p]
  BY DEF TellInv, AloneInv, SafeInv, TypeOK, Taken
<1>2. \A p \in Conns : Alone(p)
  BY DEF TellInv, AloneInv
<1> QED
  BY <1>1, <1>2 DEF Alone

\* What the agent finds next on a connection
Truth(c)    == /\ Head(req[c]) \in Truths /\ Tail(req[c]) \in Seq(Truths)
               /\ cmd[c].pc \notin Waits \cup {"write", "move"}
Truthful(c) == /\ Head(req[c]) \in Truths /\ rep[c] = <<>> /\ cmd[c].pc \in Waits
               /\ \E r \in Seq(Truths) : Tail(req[c]) = Append(r, Question(c))
Puts(c)     == Head(req[c]) = Question(c) /\ Tail(req[c]) = <<>> /\ rep[c] = <<>> /\ cmd[c].pc \in Waits
Brings(c)   == /\ cmd[c].pc \in {"write", "move"} /\ Tail(req[c]) = <<>>
               /\ Head(req[c]) = Stored(IF At(c, "write") THEN cmd[c].job.name ELSE cmd[c].job.to,
                                        cmd[c].value, NoTimeout)

LEMMA NextMessage ==
  ASSUME TellInv, NEW c \in Conns, req[c] # <<>>
  PROVE  Truth(c) \/ Truthful(c) \/ Puts(c) \/ Brings(c)
<1>0. Talk(c) /\ Dead
  BY DEF TellInv
<1>1. CASE cmd[c].pc \in Waits
  <2>1. Asked(c)
    BY <1>0, <1>1 DEF Talk, Told, Dead
  <2>2. PICK r \in Seq(Truths) : rep[c] = <<>> /\ req[c] = Append(r, Question(c))
    BY <2>1 DEF Asked
  <2>3. CASE r = <<>>
    BY <1>1, <2>2, <2>3, LastFacts DEF Puts
  <2>4. CASE r # <<>>
    <3>1. Head(req[c]) \in Truths /\ Tail(req[c]) = Append(Tail(r), Question(c)) /\ Tail(r) \in Seq(Truths)
      BY <2>2, <2>4, LastFacts
    <3> QED BY <1>1, <2>2, <3>1 DEF Truthful
  <2> QED BY <2>3, <2>4
<1>2. CASE cmd[c].pc \notin Waits \cup {"write", "move"}
  BY <1>0, <1>2, RowFacts DEF Talk, Truth
<1>3. CASE cmd[c].pc \in {"write", "move"}
  BY <1>0, <1>3, OneFacts DEF Talk, Ahead, At, Brings
<1> QED
  BY <1>1, <1>2, <1>3

LEMMA MessageFields ==
  ASSUME NEW c \in Conns
  PROVE  /\ Truth(c) \/ Truthful(c) => Head(req[c]).op = "STORE"
         /\ Brings(c) => Head(req[c]).op = "STORE"
         /\ Puts(c) => /\ Head(req[c]).op = IF At(c, "discarded") THEN "DISCARD" ELSE "SEARCH"
                       /\ Head(req[c]).name = Wanted(c)
<1>1. Truth(c) \/ Truthful(c) => Head(req[c]).op = "STORE"
  BY DEF Truth, Truthful, Truths
<1>2. Brings(c) => Head(req[c]).op = "STORE"
  BY DEF Brings, Stored
<1>3. Puts(c) => /\ Head(req[c]).op = IF At(c, "discarded") THEN "DISCARD" ELSE "SEARCH"
                 /\ Head(req[c]).name = Wanted(c)
  BY DEF Puts, Question
<1> QED
  BY <1>1, <1>2, <1>3

\* The others have no part in it.
LEMMA OthersTell ==
  ASSUME TellInv, NEW c \in Conns, NEW p \in Conns \ {c}, ~Running(p),
         req'[p] = req[p], UNCHANGED <<cmd, file>>
  PROVE  Talk(p)' /\ Knows(p)'
<1>1. cmd[p].pc \in {"idle", "done"} /\ Talk(p)
  BY DEF TellInv, Running
<1> QED
  BY <1>1 DEF Talk, Knows, Truths, Agrees, Active, Waits, Succeeded, At

LEMMA TellFields ==
  ASSUME TellInv, NEW p \in Conns
  PROVE  /\ TypeOK /\ SafeInv /\ AloneInv /\ Talk(p) /\ Knows(p) /\ Dead /\ Timely
         /\ cmd \in [Conns -> Cmd] /\ cmd[p] \in Cmd /\ Fit(cmd[p])
         /\ cmd[p].job.name \in Names /\ cmd[p].job.to \in Names /\ cmd[p].job.cmd \in Commands
         /\ Subject(p) \in Names /\ Wanted(p) \in Names
<1>1. /\ TypeOK /\ SafeInv /\ AloneInv /\ Talk(p) /\ Knows(p) /\ Dead /\ Timely
      /\ cmd \in [Conns -> Cmd] /\ cmd[p] \in Cmd /\ Fit(cmd[p])
  BY DEF TellInv, AloneInv, SafeInv, CmdFit, Fit
<1>2. /\ cmd[p].job.name \in Names /\ cmd[p].job.to \in Names /\ cmd[p].job.cmd \in Commands
      /\ Subject(p) \in Names
  BY <1>1, JobFields, SubjectType DEF SafeInv
<1> QED
  BY <1>1, <1>2 DEF Wanted

LEMMA StoredFields ==
  ASSUME NEW n, NEW v, NEW t
  PROVE  /\ Stored(n, v, t).op = "STORE" /\ Stored(n, v, t).unsafe.name = n
         /\ Stored(n, v, t).unsafe.value = v /\ Stored(n, v, t).unsafe.timeout = t
BY DEF Stored

LEMMA StoreTells ==
  ASSUME TellInv, AloneInv', NEW c \in Conns, DispatchStore(c), UNCHANGED <<cmd, file, peer>>
  PROVE  TellInv'
<1>0. TypeOK /\ Talk(c) /\ Knows(c) /\ Dead /\ Timely /\ cmd[c].job.name \in Names /\ cmd[c].job.to \in Names
  BY TellFields
<1>t. Taken(c, "STORE") /\ UNCHANGED <<now, alive, block, peer, rep, sent>>
  BY DEF DispatchStore
<1>1. /\ \A p \in Conns \ {c} : ~Running(p) /\ (Running(c) => req[p] = <<>>)
      /\ req[c] # <<>> /\ Head(req[c]) \in Request /\ Head(req[c]).op = "STORE"
      /\ req'[c] = Tail(req[c]) /\ \A p \in Conns \ {c} : req'[p] = req[p]
  BY <1>t, ServedAlone
<1>u. PICK u \in Unsafe : u = Head(req[c]).unsafe
  BY <1>1, RequestFields
<1>2. /\ storage'[u.name] = u.value /\ u.name \in Names /\ u.timeout \in Int
      /\ \A n \in Names \ {u.name} : storage'[n] = storage[n]
      /\ timers' = Arm(u, block[c])
  BY <1>0, <1>u DEF DispatchStore, TypeOK, Unsafe
<1>3. Truth(c) \/ Truthful(c) \/ Brings(c)
  BY <1>1, NextMessage, MessageFields
<1>a. Truth(c) \/ Truthful(c) => Agrees(u.name, u.value)
  BY <1>u DEF Truth, Truthful, Truths
<1>b. Brings(c) => /\ u.value = cmd[c].value
                   /\ u.name = IF At(c, "write") THEN cmd[c].job.name ELSE cmd[c].job.to
  BY <1>u, StoredFields DEF Brings
<1>4. Talk(c)'
  <2>1. CASE Truth(c)
    BY <1>0, <1>1, <1>t, <2>1 DEF Truth, Talk, Truths, Agrees, At
  <2>2. CASE Truthful(c)
    <3>1. Asked(c)'
      BY <1>1, <1>t, <2>2 DEF Truthful, Asked, Truths, Agrees, Question, Wanted, Subject, At
    <3> QED BY <1>0, <1>t, <2>2, <3>1 DEF Truthful, Talk, Waits, At
  <2>3. CASE Brings(c)
    BY <1>0, <1>1, <1>2, <1>b, <1>t, <2>3 DEF Brings, Talk, Ahead, Behind, Waits, At
  <2> QED BY <1>3, <2>1, <2>2, <2>3
<1>5. Knows(c)'
  <2>1. At(c, "move") => u.name # cmd[c].job.name
    <3>1. At(c, "move") => Brings(c)
      BY <1>3 DEF Truth, Truthful, Waits, At
    <3>2. At(c, "move") => file[cmd[c].job.to] = NoFile /\ file[cmd[c].job.name] # NoFile
      BY <1>0 DEF Knows, Agrees, At
    <3> QED BY <1>b, <3>1, <3>2 DEF At
  <2>2. cmd[c].pc \notin {"restore", "unlink", "savestore"}
    BY <1>0, <1>1 DEF Knows
  <2> QED BY <1>0, <1>2, <1>t, <2>1, <2>2 DEF Knows, Active, Renaming, Agrees, Succeeded, At
<1>6. \A p \in Conns : Talk(p)' /\ Knows(p)'
  BY <1>1, <1>4, <1>5, OthersTell
<1>7. ASSUME NEW n \in Names PROVE Entry(n)'
  <2>1. CASE n = u.name
    <3>1. CASE Brings(c)
      BY <1>2, <1>b, <2>1, <3>1 DEF Brings, Entry, Promised, At
    <3>2. CASE Agrees(u.name, u.value)
      BY <1>2, <2>1, <3>2 DEF Entry, Agrees
    <3> QED BY <1>3, <1>a, <3>1, <3>2
  <2>2. CASE n # u.name
    <3>1. Entry(n) /\ storage'[n] = storage[n]
      BY <1>2, <2>2 DEF TellInv
    <3>2. Promised(n) => Promised(n)'
      BY <1>1, <1>u, <2>2, <3>1 DEF Promised, At
    <3> QED BY <3>1, <3>2 DEF Entry, Agrees
  <2> QED BY <2>1, <2>2
<1>8. Timely'
  <2>1. \A t \in timers' : t \in timers \/ t.at > now
    BY <1>0, <1>2 DEF Arm, TypeOK
  <2> QED BY <1>0, <1>t, <2>1 DEF Timely, Running, TypeOK, Timer
<1>9. Dead'
  BY <1>t DEF Dead, Taken
<1> QED
  BY <1>6, <1>7, <1>8, <1>9 DEF TellInv

\* No entry but those of the files is left when the agent answers.
LEMMA PutsAlone ==
  ASSUME TellInv, NEW c \in Conns, req[c] # <<>>, Puts(c),
         \A p \in Conns \ {c} : ~Running(p) /\ (Running(c) => req[p] = <<>>)
  PROVE  \A n \in Names : ~Promised(n) /\ (storage[n] # Absent => Agrees(n, storage[n]))
<1>1. Running(c) /\ Head(req[c]).op # "STORE" /\ ~At(c, "write") /\ ~At(c, "move")
  BY DEF Puts, Question, Running, Waits, At
<1>2. \A p \in Conns \ {c} : req[p] = <<>> /\ ~At(p, "write") /\ ~At(p, "move")
  BY <1>1 DEF Running, At
<1>3. \A n \in Names : ~Promised(n) /\ Entry(n)
  BY <1>1, <1>2 DEF Promised, TellInv
<1> QED
  BY <1>3 DEF Entry

LEMMA AnswerTells ==
  ASSUME TellInv, NEW c \in Conns, req[c] # <<>>, Puts(c), NEW m \in Reply, Answer(c, m),
         req'[c] = Tail(req[c]), UNCHANGED <<cmd, file, peer>>,
         m.op = "SEARCH" => /\ ~At(c, "discarded") /\ m.unsafe.name = Wanted(c)
                            /\ Agrees(Wanted(c), m.unsafe.value),
         m.op # "SEARCH" => storage'[Wanted(c)] = Absent
  PROVE  Talk(c)' /\ Knows(c)'
<1>1. TypeOK /\ Talk(c) /\ Knows(c) /\ peer[c] = "connected" /\ rep[c] = <<>>
  BY TellFields DEF Knows, Active, Puts, Waits
<1>2. rep'[c] = <<m>> /\ req'[c] = <<>>
  BY <1>1, OneFacts DEF Answer, TypeOK, Puts
<1>3. Told(c)'
  BY <1>2 DEF Told, Tells, Wanted, Agrees, Subject, At
<1>4. cmd[c].pc \in Waits
  BY DEF Puts
<1>5. Talk(c)'
  BY <1>3, <1>4 DEF Talk, Waits, At
<1> QED
  BY <1>1, <1>2, <1>4, <1>5 DEF Knows, Active, Renaming, Agrees, Succeeded, At, Waits

LEMMA SearchTells ==
  ASSUME TellInv, AloneInv', NEW c \in Conns, DispatchSearch(c), UNCHANGED <<cmd, file, peer>>
  PROVE  TellInv'
<1>0. TypeOK /\ Dead /\ Timely /\ Wanted(c) \in Names
  BY TellFields
<1>t. Taken(c, "SEARCH") /\ UNCHANGED <<now, alive, storage, timers, block, peer, promise, sent>>
  BY DEF DispatchSearch
<1>1. /\ \A p \in Conns \ {c} : ~Running(p) /\ (Running(c) => req[p] = <<>>)
      /\ req[c] # <<>> /\ Head(req[c]) \in Request /\ Head(req[c]).op = "SEARCH"
      /\ req'[c] = Tail(req[c]) /\ \A p \in Conns \ {c} : req'[p] = req[p]
  BY <1>t, ServedAlone
<1>2. Puts(c)
  BY <1>1, NextMessage, MessageFields
<1>3. Head(req[c]).name = Wanted(c) /\ ~At(c, "discarded")
  BY <1>1, <1>2 DEF Puts, Question
<1>4. \A n \in Names : ~Promised(n) /\ (storage[n] # Absent => Agrees(n, storage[n]))
  BY <1>1, <1>2, PutsAlone
<1>5. PICK m : /\ Answer(c, m)
               /\ m = IF storage[Wanted(c)] = Absent THEN [op |-> "ERROR"] ELSE Found(Wanted(c))
  BY <1>3 DEF DispatchSearch
<1>6. /\ m \in Reply
      /\ m.op = "SEARCH" => m.unsafe.name = Wanted(c) /\ Agrees(Wanted(c), m.unsafe.value)
      /\ m.op # "SEARCH" => storage[Wanted(c)] = Absent
  <2>1. CASE storage[Wanted(c)] = Absent
    BY <1>5, <2>1 DEF Reply
  <2>2. CASE storage[Wanted(c)] # Absent
    <3>1. m = Found(Wanted(c)) /\ storage[Wanted(c)] \in Values
      BY <1>0, <1>5, <2>2 DEF TypeOK
    <3>2. m.op = "SEARCH" /\ m.unsafe.name = Wanted(c) /\ m.unsafe.value = storage[Wanted(c)]
      BY <3>1 DEF Found
    <3>3. m \in Reply
      BY <1>0, <3>1 DEF Found, Reply, Unsafe, NoTimeout
    <3> QED BY <1>0, <1>4, <2>2, <3>2, <3>3
  <2> QED BY <2>1, <2>2
<1>7. Talk(c)' /\ Knows(c)'
  BY <1>1, <1>2, <1>3, <1>5, <1>6, <1>t, AnswerTells
<1>8. \A p \in Conns : Talk(p)' /\ Knows(p)'
  BY <1>1, <1>7, OthersTell
<1>9. \A n \in Names : Entry(n)'
  BY <1>4, <1>t DEF Entry, Agrees
<1>10. Dead' /\ Timely'
  BY <1>0, <1>t DEF Dead, Timely, Running, Taken
<1> QED
  BY <1>8, <1>9, <1>10 DEF TellInv

LEMMA DiscardTells ==
  ASSUME TellInv, AloneInv', NEW c \in Conns, DispatchDiscard(c), UNCHANGED <<cmd, file, peer>>
  PROVE  TellInv'
<1>0. TypeOK /\ Dead /\ Timely /\ Wanted(c) \in Names
  BY TellFields
<1>t. Taken(c, "DISCARD") /\ UNCHANGED <<now, alive, timers, block, peer, sent>>
  BY DEF DispatchDiscard
<1>1. /\ \A p \in Conns \ {c} : ~Running(p) /\ (Running(c) => req[p] = <<>>)
      /\ req[c] # <<>> /\ Head(req[c]) \in Request /\ Head(req[c]).op = "DISCARD"
      /\ req'[c] = Tail(req[c]) /\ \A p \in Conns \ {c} : req'[p] = req[p]
  BY <1>t, ServedAlone
<1>2. Puts(c)
  BY <1>1, NextMessage, MessageFields
<1>3. Head(req[c]).name = Wanted(c)
  BY <1>2 DEF Puts, Question
<1>4. \A n \in Names : ~Promised(n) /\ (storage[n] # Absent => Agrees(n, storage[n]))
  BY <1>1, <1>2, PutsAlone
<1>5. PICK m \in {[op |-> "DISCARD"], [op |-> "ERROR"]} : Answer(c, m)
  BY DEF DispatchDiscard
<1>6. m \in Reply /\ m.op # "SEARCH"
  BY <1>5 DEF Reply
<1>7. storage'[Wanted(c)] = Absent /\ \A n \in Names : storage'[n] \in {storage[n], Absent}
  BY <1>0, <1>3 DEF DispatchDiscard, Forget, TypeOK
<1>8. Talk(c)' /\ Knows(c)'
  BY <1>1, <1>2, <1>5, <1>6, <1>7, AnswerTells
<1>9. \A p \in Conns : Talk(p)' /\ Knows(p)'
  BY <1>1, <1>8, OthersTell
<1>10. \A n \in Names : Entry(n)'
  BY <1>4, <1>7 DEF Entry, Agrees
<1>11. Dead' /\ Timely'
  BY <1>0, <1>t DEF Dead, Timely, Running, Taken
<1> QED
  BY <1>9, <1>10, <1>11 DEF TellInv

\* No timer ends a lifetime while a command runs.
LEMMA TimeoutTells ==
  ASSUME TellInv, AloneInv', NEW t \in timers, TimeoutDiscard(t), UNCHANGED <<cmd, file, peer>>
  PROVE  TellInv'
<1>1. \A p \in Conns : ~Running(p)
  <2>1. TypeOK /\ t.at <= now /\ Timely /\ t.at \in Nat
    BY DEF TellInv, AloneInv, SafeInv, TypeOK, Timer, TimeoutDiscard
  <2> QED BY <2>1 DEF Timely, TypeOK
<1>2. CASE Stop
  BY <1>2, StopTells
<1>3. CASE ~Stop
  <2>1. UNCHANGED <<alive, req>> /\ \A n \in Names : storage'[n] \in {storage[n], Absent}
    BY <1>3 DEF TimeoutDiscard, ExpireFound, ExpireMissing, ExpireDangling, Forget, channelVars,
                TellInv, AloneInv, SafeInv, TypeOK
  <2> QED BY <1>1, <2>1, IdleTells
<1> QED
  BY <1>2, <1>3

LEMMA AgentTells == ASSUME TellInv, Brisk, Agent PROVE TellInv'
<1>1. AloneInv' /\ UNCHANGED <<cmd, file, peer>>
  BY AgentAlone, AgentApart DEF TellInv, AloneInv
<1>2. CASE \E c \in Conns : Accept(c) \/ DispatchEof(c)
  <2>1. UNCHANGED <<now, timers, storage, alive, req, rep>>
    BY <1>2 DEF Accept, DispatchEof, channelVars
  <2>2. Timely'
    BY <1>1, <2>1 DEF TellInv, Timely, Running
  <2> QED BY <1>1, <2>1, <2>2, QuietTells
<1>3. CASE Tick /\ \A p \in Conns : ~Running(p)
  <2>1. UNCHANGED <<storage, alive, req, rep>>
    BY <1>3 DEF Tick, channelVars
  <2>2. Timely'
    BY <1>1, <1>3 DEF Timely, Running
  <2> QED BY <1>1, <2>1, <2>2, QuietTells
<1>4. CASE AgentKill
  BY <1>1, <1>4, StopTells DEF AgentKill
<1>5. CASE \E c \in Conns : DispatchStore(c) \/ DispatchSearch(c) \/ DispatchDiscard(c)
  BY <1>1, <1>5, StoreTells, SearchTells, DiscardTells
<1>6. CASE \E t \in timers : TimeoutDiscard(t)
  BY <1>1, <1>6, TimeoutTells
<1> QED
  BY <1>2, <1>3, <1>4, <1>5, <1>6 DEF Agent, Dispatch

-----------------------------------------------------------------------------
(* The commands                                                             *)

\* What p does leaves the rest as it was.
LEMMA StepTells ==
  ASSUME TellInv, NEW p \in Conns, AloneInv', Apart(p),
         UNCHANGED <<now, timers, alive, storage, file>>,
         \A q \in Conns \ {p} : ~Running(q) /\ req[q] = <<>>,
         cmd[p].pc \notin {"write", "move"},
         req'[p] = req[p] \/ (alive /\ \E m : req'[p] = Append(req[p], m)),
         \A t \in timers : now < t.at,
         Talk(p)', Knows(p)'
  PROVE  TellInv'
<1>0. req[p] \in Seq(Request)
  BY TellFields DEF TypeOK
<1>1. ASSUME NEW q \in Conns PROVE Talk(q)' /\ Knows(q)'
  <2>1. CASE q # p
    <3>1. cmd'[q] = cmd[q] /\ req'[q] = <<>> /\ cmd[q].pc \in {"idle", "done"}
      BY <2>1 DEF Apart, Running
    <3>2. <<>> \in Seq(Truths')
      BY EmptyRow
    <3> QED BY <3>1, <3>2 DEF Talk, Knows, Active, Waits, Succeeded, At
  <2> QED BY <2>1
<1>2. ASSUME NEW n \in Names PROVE Entry(n)'
  <2>1. ASSUME Promised(n) PROVE Promised(n)'
    <3>1. PICK q \in Conns :
            \/ req[q] # <<>> /\ Head(req[q]).op = "STORE" /\ Head(req[q]).unsafe.name = n
            \/ At(q, "write") /\ n = cmd[q].job.name /\ storage[n] = cmd[q].value
            \/ At(q, "move") /\ n = cmd[q].job.to /\ storage[n] = cmd[q].value
      BY <2>1 DEF Promised
    <3>2. q = p /\ req[p] # <<>> /\ Head(req[p]).op = "STORE" /\ Head(req[p]).unsafe.name = n
      BY <3>1 DEF At, Running
    <3>3. req'[p] # <<>> /\ Head(req'[p]) = Head(req[p])
      BY <1>0, <3>2, LastFacts
    <3> QED BY <3>2, <3>3 DEF Promised
  <2>2. Entry(n)
    BY DEF TellInv
  <2> QED BY <2>1, <2>2 DEF Entry, Agrees
<1>3. Dead'
  <2>1. CASE ~alive
    <3>1. \A q \in Conns : req[q] = <<>> /\ req'[q] = <<>>
      BY <2>1 DEF TellInv, Dead, Apart
    <3> QED BY <2>1, <3>1 DEF TellInv, Dead
  <2> QED BY <2>1 DEF Dead
<1>4. Timely'
  BY DEF Timely
<1> QED
  BY <1>1, <1>2, <1>3, <1>4 DEF TellInv

LEMMA CommandQuiet == ASSUME NEW p \in Conns, Command(p) PROVE UNCHANGED agentVars
<1>1. CASE Check(p) \/ ReadFile(p) \/ Edit(p) \/ WriteFile(p) \/ Unlink(p) \/ Move(p)
  BY <1>1 DEF Check, ReadFile, Edit, WriteFile, Unlink, Move, Local
<1>2. CASE Ask(p) \/ CfgStore(p) \/ SaveAsk(p) \/ SaveStore(p) \/ Store(p) \/ Discard(p) \/ Restore(p)
  BY <1>2 DEF Ask, CfgStore, SaveAsk, SaveStore, Store, Discard, Restore, Send
<1>3. CASE Answered(p) \/ SaveAnswered(p) \/ Discarded(p)
  BY <1>3 DEF Answered, SaveAnswered, Discarded, HearsNo, Hears, Receive
<1>4. CASE Exit(p) \/ BrokenPipe(p)
  BY <1>4 DEF Exit, BrokenPipe, Close
<1> QED
  BY <1>1, <1>2, <1>3, <1>4 DEF Command

\* What every step of a command has in common
LEMMA CommandSteps ==
  ASSUME TellInv, NEW p \in Conns, Command(p)
  PROVE  /\ AloneInv' /\ Apart(p) /\ Running(p) /\ UNCHANGED <<now, timers, alive, storage>>
         /\ \A q \in Conns \ {p} : ~Running(q) /\ req[q] = <<>>
         /\ \A t \in timers : now < t.at
<1>1. UNCHANGED <<now, timers, alive, storage>>
  BY CommandQuiet DEF agentVars
<1>2. AloneInv' /\ Apart(p) /\ Running(p)
  BY CommandAlone, CommandApart DEF TellInv, AloneInv
<1> QED
  BY <1>1, <1>2 DEF TellInv, AloneInv, Alone, Timely

LEMMA CommandTells ==
  ASSUME TellInv, NEW p \in Conns, Command(p), UNCHANGED file,
         cmd[p].pc \notin {"write", "move"},
         req'[p] = req[p] \/ (alive /\ \E m : req'[p] = Append(req[p], m)),
         Talk(p)', Knows(p)'
  PROVE  TellInv'
BY CommandSteps, StepTells

\* Places where a command neither waits nor has written ahead
LEMMA PlainTalk ==
  ASSUME NEW p \in Conns, cmd'[p].pc \notin Waits \cup {"write", "move"},
         req'[p] \in Seq(Truths'), rep'[p] = <<>> \/ cmd'[p].pc \in {"exit", "done"}
  PROVE  Talk(p)'
BY DEF Talk, Waits, At

LEMMA SameTruths == ASSUME UNCHANGED file PROVE Truths' = Truths
BY DEF Truths, Agrees

LEMMA EndKnows ==
  ASSUME NEW p \in Conns, cmd'[p].pc \in {"exit", "done"},
         Succeeded(p, "cat")' => Agrees(cmd[p].job.name, cmd[p].value)', cmd'[p].job = cmd[p].job
  PROVE  Knows(p)'
BY DEF Knows, Active, Agrees, Succeeded, At

\* A command gives up.
LEMMA GiveUpTells ==
  ASSUME TellInv, NEW p \in Conns, Command(p), UNCHANGED file, cmd[p].pc \notin {"write", "move"},
         req'[p] = req[p], req[p] \in Seq(Truths),
         Refuse(p) \/ Return(p, "failed")
  PROVE  TellInv'
<1>0. cmd \in [Conns -> Cmd]
  BY TellFields
<1>1. cmd'[p].pc = "exit" /\ cmd'[p].job = cmd[p].job /\ ~Succeeded(p, "cat")'
  <2>1. CASE Return(p, "failed")
    BY <1>0, <2>1, ReturnFields DEF Becomes, Like, Succeeded
  <2>2. CASE Refuse(p) /\ Renaming(p)
    <3>1. Return(p, "ok")
      BY <2>2 DEF Refuse, Renaming
    <3> QED BY <1>0, <2>2, <3>1, ReturnFields DEF Becomes, Like, Succeeded, Renaming
  <2>3. CASE Refuse(p) /\ ~Renaming(p)
    BY <2>1, <2>3 DEF Refuse, Renaming
  <2> QED BY <2>1, <2>2, <2>3
<1>2. Talk(p)'
  BY <1>1, SameTruths, PlainTalk DEF Waits
<1>3. Knows(p)'
  BY <1>1, EndKnows
<1> QED
  BY <1>2, <1>3, CommandTells

\* p goes on at x
Moves(p, x) ==
  LET c == cmd[p] IN Becomes(p, x, c.stage, c.job, c.online, c.password, c.value, c.found, c.rc)

\* A question is put.
LEMMA AskedTalk ==
  ASSUME NEW p \in Conns, UNCHANGED file, cmd'[p].pc \in Waits,
         req[p] \in Seq(Truths), rep'[p] = <<>>, req'[p] = Append(req[p], Question(p)')
  PROVE  Talk(p)'
<1>1. Asked(p)'
  BY SameTruths DEF Asked
<1> QED
  BY <1>1 DEF Talk, Waits, At

LEMMA CheckTells ==
  ASSUME TellInv, RenamesToNew, NEW p \in Conns, Check(p) PROVE TellInv'
<1>0. /\ TypeOK /\ SafeInv /\ cmd \in [Conns -> Cmd] /\ Talk(p) /\ Knows(p) /\ Command(p)
      /\ cmd[p].pc = "check"
  BY TellFields DEF Command, Check, At
<1>1. UNCHANGED <<vars, file>> /\ req'[p] = req[p] /\ rep'[p] = rep[p] /\ peer'[p] = peer[p]
  BY LocalType, <1>0 DEF Check, vars
<1>2. req[p] \in Seq(Truths) /\ rep[p] = <<>>
  BY <1>0 DEF Talk, Waits, At
<1>3. CASE Refuse(p)
  BY <1>0, <1>1, <1>2, <1>3, GiveUpTells
<1>4. ASSUME NEW x \in {"edit", "ask", "read"}, Goto(p, x) PROVE TellInv'
  <2>1. Moves(p, x) /\ x \notin Waits \cup {"write", "move"}
    BY <1>0, <1>4, GotoFields DEF Places, Moves, Waits
  <2>2. Talk(p)'
    BY <1>1, <1>2, <1>4, <2>1, SameTruths, PlainTalk DEF Moves, Becomes, Like
  <2>3. Knows(p)'
    BY <1>0, <1>1, <1>4, <2>1
       DEF Knows, Moves, Becomes, Like, Active, Renaming, Succeeded, At, RenamesToNew
  <2> QED BY <1>0, <1>1, <2>2, <2>3, CommandTells
<1>5. CASE ~Creating(p) /\ Goto(p, IF cmd[p].online /\ ~Forced(p) THEN "ask" ELSE "read")
  <2>1. PICK x \in {"ask", "read"} : Goto(p, x)
    BY <1>5, Zenon
  <2> QED BY <1>4, <2>1
<1> QED
  BY <1>3, <1>4, <1>5 DEF Check

LEMMA AskTells ==
  ASSUME TellInv, NEW p \in Conns, Ask(p) PROVE TellInv'
<1>0. /\ TypeOK /\ cmd \in [Conns -> Cmd] /\ Talk(p) /\ Knows(p) /\ Command(p)
      /\ cmd[p].pc = "ask" /\ UNCHANGED file /\ Goto(p, "answer")
  BY TellFields DEF Command, Ask, At
<1>1. Moves(p, "answer")
  BY <1>0, GotoFields DEF Places, Moves
<1>2. Question(p)' = [op |-> "SEARCH", name |-> Subject(p)]
  BY <1>1 DEF Question, Wanted, Subject, At, Moves, Becomes, Like
<1>3. Send(p, Question(p)') /\ alive
  BY <1>2 DEF Ask, Send
<1>4. UNCHANGED <<rep, peer>> /\ req'[p] = Append(req[p], Question(p)')
  BY <1>0, <1>3, ChannelUse
<1>5. Talk(p)'
  BY <1>0, <1>1, <1>4, AskedTalk DEF Talk, Moves, Becomes, Like, Waits, At
<1>6. Knows(p)'
  BY <1>0, <1>1, <1>4 DEF Knows, Moves, Becomes, Like, Active, Renaming, Succeeded, At, Agrees
<1> QED
  BY <1>0, <1>3, <1>4, <1>5, <1>6, CommandTells

\* What the command hears answers its own question.
LEMMA Heard ==
  ASSUME TellInv, NEW p \in Conns, cmd[p].pc \in Waits, NEW op, Hears(p, op)
  PROVE  /\ req[p] = <<>> /\ req'[p] = <<>> /\ rep'[p] = <<>> /\ UNCHANGED peer
         /\ op # "SEARCH" => storage[Wanted(p)] = Absent
         /\ op = "SEARCH" => /\ ~At(p, "discarded") /\ Head(rep[p]).unsafe.name = Wanted(p)
                             /\ Agrees(Wanted(p), Head(rep[p]).unsafe.value)
<1>0. TypeOK /\ Talk(p) /\ Dead /\ Wanted(p) \in Names
  BY TellFields
<1>1. CASE Receive(p) /\ Head(rep[p]).op = op
  <2>1. rep[p] # <<>> /\ rep'[p] = Tail(rep[p]) /\ UNCHANGED <<req, peer>>
    BY <1>0, <1>1, ChannelUse
  <2>2. Told(p)
    BY <1>0, <2>1 DEF Talk, Asked
  <2>3. PICK m \in Reply : rep[p] = <<m>> /\ Tells(p, m)
    BY <2>2 DEF Told
  <2>4. Head(rep[p]) = m /\ rep'[p] = <<>>
    BY <2>1, <2>3, OneFacts
  <2> QED BY <1>1, <2>1, <2>2, <2>3, <2>4 DEF Told, Tells
<1>2. CASE op = "EOF" /\ ~alive /\ rep[p] = <<>> /\ UNCHANGED <<agentVars, channelVars>>
  BY <1>0, <1>2 DEF Dead, channelVars
<1> QED
  BY <1>1, <1>2 DEF Hears

\* An opened safe: the file holds what the command has got.
LEMMA OpenedKnows ==
  ASSUME TellInv, NEW p \in Conns, UNCHANGED file, NEW v, GoesOn(p, v), Agrees(Subject(p), v),
         cmd[p].pc \in {"answer", "read"}, peer'[p] = peer[p]
  PROVE  /\ Knows(p)'
         /\ cmd'[p].pc \in {"cfgstore", "store", "exit", "edit", "discard"}
<1>0. /\ Knows(p) /\ cmd[p] \in Cmd /\ Fit(cmd[p]) /\ cmd[p].job.cmd \in Commands
      /\ cmd[p].stage \in {"config", "safe"}
  BY TellFields DEF Cmd
<1>1. cmd[p].online /\ peer[p] = "connected"
  BY <1>0 DEF Knows, Active
<1>2. CASE cmd[p].stage = "config"
  <2>1. cmd'[p].pc = "cfgstore" /\ Subject(p) = Config
    BY <1>1, <1>2 DEF GoesOn, Continues, Subject
  <2> QED BY <1>0, <1>1, <1>2, <2>1
             DEF GoesOn, Continues, Knows, Active, Renaming, Succeeded, At, Agrees
<1>3. CASE cmd[p].stage = "safe"
  <2>1. Subject(p) = cmd[p].job.name /\ cmd'[p].stage = "safe"
        /\ cmd'[p].pc \in {"store", "exit", "edit", "discard"}
        /\ (cmd'[p].pc = "discard" => cmd[p].job.cmd \in {"delete", "rename"})
    BY <1>0, <1>1, <1>3 DEF GoesOn, Continues, Subject, Fit, Commands
  <2> QED BY <1>0, <1>1, <1>3, <2>1
             DEF GoesOn, Knows, Active, Renaming, Succeeded, At, Agrees
<1> QED
  BY <1>0, <1>2, <1>3

LEMMA AnsweredTells ==
  ASSUME TellInv, NEW p \in Conns, Answered(p) PROVE TellInv'
<1>0. /\ TypeOK /\ SafeInv /\ cmd \in [Conns -> Cmd] /\ Talk(p) /\ Knows(p) /\ Command(p)
      /\ cmd[p].pc = "answer" /\ UNCHANGED file /\ Wanted(p) = Subject(p)
  BY TellFields DEF Command, Answered, At, Wanted
<1>1. cmd[p].pc \in Waits /\ <<>> \in Seq(Truths')
  BY <1>0, EmptyRow DEF Waits
<1>2. CASE HearsNo(p, "SEARCH") /\ Goto(p, "read")
  <2>1. PICK op : Hears(p, op)
    BY <1>2 DEF HearsNo
  <2>2. req[p] = <<>> /\ req'[p] = <<>> /\ rep'[p] = <<>> /\ UNCHANGED peer
    BY <1>1, <2>1, Heard
  <2>3. Moves(p, "read")
    BY <1>0, <1>2, GotoFields DEF Places, Moves
  <2>4. Talk(p)'
    BY <1>1, <2>2, <2>3, PlainTalk DEF Moves, Becomes, Like, Waits
  <2>5. Knows(p)'
    BY <1>0, <2>2, <2>3 DEF Knows, Moves, Becomes, Like, Active, Renaming, Succeeded, At, Agrees
  <2> QED BY <1>0, <2>2, <2>4, <2>5, CommandTells
<1>3. CASE Hears(p, "SEARCH") /\ GoesOn(p, Head(rep[p]).unsafe.value)
  <2>1. /\ req[p] = <<>> /\ req'[p] = <<>> /\ rep'[p] = <<>> /\ UNCHANGED peer
        /\ Agrees(Subject(p), Head(rep[p]).unsafe.value)
    BY <1>0, <1>1, <1>3, Heard
  <2>2. Knows(p)' /\ cmd'[p].pc \in {"cfgstore", "store", "exit", "edit", "discard"}
    BY <1>0, <1>3, <2>1, OpenedKnows
  <2>3. Talk(p)'
    BY <1>1, <2>1, <2>2, PlainTalk DEF Waits
  <2> QED BY <1>0, <2>1, <2>2, <2>3, CommandTells
<1> QED
  BY <1>0, <1>2, <1>3, AnsweredFit

LEMMA ReadFileTells ==
  ASSUME TellInv, NEW p \in Conns, ReadFile(p) PROVE TellInv'
<1>0. /\ TypeOK /\ SafeInv /\ cmd \in [Conns -> Cmd] /\ Talk(p) /\ Command(p) /\ cmd[p].pc = "read"
  BY TellFields DEF Command, ReadFile, At
<1>1. UNCHANGED <<vars, file>> /\ req'[p] = req[p] /\ rep'[p] = rep[p] /\ peer'[p] = peer[p]
  BY <1>0, ReadFileFit DEF vars
<1>2. req[p] \in Seq(Truths) /\ rep[p] = <<>>
  BY <1>0 DEF Talk, Waits, At
<1>3. CASE Refuse(p)
  BY <1>0, <1>1, <1>2, <1>3, GiveUpTells
<1>4. CASE file[Subject(p)] # NoFile /\ GoesOn(p, file[Subject(p)].value)
  <2>1. Agrees(Subject(p), file[Subject(p)].value)
    BY <1>4 DEF Agrees
  <2>2. Knows(p)' /\ cmd'[p].pc \in {"cfgstore", "store", "exit", "edit", "discard"}
    BY <1>0, <1>1, <1>4, <2>1, OpenedKnows
  <2>3. Talk(p)'
    BY <1>1, <1>2, <2>2, SameTruths, PlainTalk DEF Waits
  <2> QED BY <1>0, <1>1, <2>2, <2>3, CommandTells
<1> QED
  BY <1>0, <1>3, <1>4, ReadFileFit

\* A STORE of what the file holds
LEMMA TrueStore ==
  ASSUME NEW n \in Names, NEW v \in Values, NEW t \in Int, Agrees(n, v)
  PROVE  Stored(n, v, t) \in Truths
BY StoredType, StoredFields DEF Truths

LEMMA CfgStoreTells ==
  ASSUME TellInv, NEW p \in Conns, CfgStore(p) PROVE TellInv'
<1>0. /\ TypeOK /\ SafeInv /\ Talk(p) /\ Knows(p) /\ Command(p) /\ Fit(cmd[p])
      /\ cmd[p].pc = "cfgstore" /\ UNCHANGED file
  BY TellFields DEF Command, CfgStore, At
<1>1. Agrees(Config, cmd[p].value) /\ cmd[p].value \in Values
  BY <1>0 DEF Knows, Fit
<1>2. PICK m \in Truths : m = Stored(Config, cmd[p].value, CfgLifetime)
  BY <1>1, TrueStore, ConfigAssumption, JobsAssumption
<1>3. Send(p, m) /\ alive
  BY <1>2 DEF CfgStore, Send
<1>4. UNCHANGED <<rep, peer>> /\ req'[p] = Append(req[p], m)
  BY <1>0, <1>3, ChannelUse
<1>5. req[p] \in Seq(Truths) /\ rep[p] = <<>>
  BY <1>0 DEF Talk, Waits, At
<1>6. LET c == cmd[p] IN
      Becomes(p, "check", "safe", c.job, c.online, c.password, c.value, c.found, c.rc)
  BY <1>0, CfgStoreFit
<1>7. req'[p] \in Seq(Truths') /\ rep'[p] = <<>>
  BY <1>0, <1>4, <1>5, SameTruths, RowFacts
<1>8. Talk(p)'
  BY <1>6, <1>7, PlainTalk DEF Becomes, Like, Waits
<1>9. Knows(p)'
  BY <1>0, <1>4, <1>6 DEF Knows, Becomes, Like, Active, Renaming, Succeeded, At
<1> QED
  BY <1>0, <1>3, <1>4, <1>8, <1>9, CommandTells

LEMMA StoreCmdTells ==
  ASSUME TellInv, NEW p \in Conns, Store(p) PROVE TellInv'
<1>0. /\ TypeOK /\ SafeInv /\ cmd \in [Conns -> Cmd] /\ Talk(p) /\ Knows(p) /\ Command(p)
      /\ Fit(cmd[p]) /\ cmd[p].pc = "store" /\ UNCHANGED file /\ cmd[p].job.name \in Names
      /\ Return(p, "ok")
  BY TellFields DEF Command, Store, At
<1>1. Agrees(cmd[p].job.name, cmd[p].value) /\ cmd[p].value \in Values
  BY <1>0 DEF Knows, Fit
<1>t. PICK t \in Lifetimes : Send(p, Stored(cmd[p].job.name, cmd[p].value, t))
  BY DEF Store
<1>2. PICK m \in Truths : m = Stored(cmd[p].job.name, cmd[p].value, t)
  BY <1>0, <1>1, TrueStore, LifetimeAssumption
<1>3. Send(p, m) /\ alive
  BY <1>t, <1>2 DEF Send
<1>4. UNCHANGED <<rep, peer>> /\ req'[p] = Append(req[p], m)
  BY <1>0, <1>3, ChannelUse
<1>5. req[p] \in Seq(Truths)
  BY <1>0 DEF Talk, Waits, At
<1>6. cmd'[p].pc = "exit" /\ cmd'[p].job = cmd[p].job /\ cmd'[p].value = cmd[p].value
  BY <1>0, ReturnFields DEF Becomes, Like
<1>7. req'[p] \in Seq(Truths')
  BY <1>0, <1>4, <1>5, SameTruths, RowFacts
<1>8. Talk(p)'
  BY <1>6, <1>7, PlainTalk DEF Waits
<1>9. Knows(p)'
  BY <1>0, <1>1, <1>6, EndKnows DEF Agrees
<1> QED
  BY <1>0, <1>3, <1>4, <1>8, <1>9, CommandTells

LEMMA EditTells ==
  ASSUME TellInv, NEW p \in Conns, Edit(p) PROVE TellInv'
<1>0. /\ TypeOK /\ SafeInv /\ Talk(p) /\ Knows(p) /\ Command(p) /\ cmd[p].pc = "edit"
  BY TellFields DEF Command, Edit, At
<1>1. UNCHANGED <<vars, file>> /\ req'[p] = req[p] /\ rep'[p] = rep[p] /\ peer'[p] = peer[p]
  BY <1>0, EditFit DEF vars
<1>2. req[p] \in Seq(Truths) /\ rep[p] = <<>> /\ cmd[p].online
  BY <1>0 DEF Talk, Knows, Active, Waits, At
<1>3. CASE Return(p, "failed")
  BY <1>0, <1>1, <1>2, <1>3, GiveUpTells
<1>4. ASSUME NEW v \in Values, NEW w \in Passwords,
             LET c == cmd[p] IN
             Becomes(p, IF c.online THEN "saveask" ELSE "write", c.stage, c.job, c.online,
                     w, v, c.found, c.rc)
      PROVE  TellInv'
  <2>1. /\ cmd'[p].pc = "saveask" /\ cmd'[p].stage = cmd[p].stage /\ cmd'[p].job = cmd[p].job
        /\ cmd'[p].online = cmd[p].online
    BY <1>2, <1>4 DEF Becomes, Like
  <2>2. Talk(p)'
    BY <1>1, <1>2, <2>1, SameTruths, PlainTalk DEF Waits
  <2>3. Knows(p)'
    BY <1>0, <1>1, <2>1 DEF Knows, Active, Renaming, Succeeded, At
  <2> QED BY <1>0, <1>1, <2>2, <2>3, CommandTells
<1> QED
  BY <1>0, <1>3, <1>4, EditFit

LEMMA SaveAskTells ==
  ASSUME TellInv, NEW p \in Conns, SaveAsk(p) PROVE TellInv'
<1>0. /\ TypeOK /\ cmd \in [Conns -> Cmd] /\ Talk(p) /\ Knows(p) /\ Command(p)
      /\ cmd[p].pc = "saveask" /\ UNCHANGED file /\ Goto(p, "saveanswer")
  BY TellFields DEF Command, SaveAsk, At
<1>1. Moves(p, "saveanswer")
  BY <1>0, GotoFields DEF Places, Moves
<1>2. Question(p)' = [op |-> "SEARCH", name |-> cmd[p].job.name]
  BY <1>1 DEF Question, Wanted, At, Moves, Becomes, Like
<1>3. Send(p, Question(p)') /\ alive
  BY <1>2 DEF SaveAsk, Send
<1>4. UNCHANGED <<rep, peer>> /\ req'[p] = Append(req[p], Question(p)')
  BY <1>0, <1>3, ChannelUse
<1>5. Talk(p)'
  BY <1>0, <1>1, <1>4, AskedTalk DEF Talk, Moves, Becomes, Like, Waits, At
<1>6. Knows(p)'
  BY <1>0, <1>1, <1>4 DEF Knows, Moves, Becomes, Like, Active, Renaming, Succeeded, At, Agrees
<1> QED
  BY <1>0, <1>3, <1>4, <1>5, <1>6, CommandTells

\* kp_safe_save tells the agent unless the agent has no entry of the safe.
LEMMA SaveAnsweredTells ==
  ASSUME TellInv, NEW p \in Conns, SaveAnswered(p) PROVE TellInv'
<1>0. /\ TypeOK /\ SafeInv /\ cmd \in [Conns -> Cmd] /\ Talk(p) /\ Knows(p) /\ Command(p)
      /\ cmd[p].pc = "saveanswer" /\ UNCHANGED file /\ Wanted(p) = cmd[p].job.name
  BY TellFields DEF Command, SaveAnswered, At, Wanted
<1>1. cmd[p].pc \in Waits /\ <<>> \in Seq(Truths') /\ UNCHANGED storage
  BY <1>0, EmptyRow, CommandSteps DEF Waits
<1>2. CASE HearsNo(p, "SEARCH") /\ Goto(p, "write")
  <2>1. PICK op : Hears(p, op) /\ op # "SEARCH"
    BY <1>2 DEF HearsNo
  <2>2. /\ req[p] = <<>> /\ req'[p] = <<>> /\ rep'[p] = <<>> /\ UNCHANGED peer
        /\ storage[cmd[p].job.name] = Absent
    BY <1>0, <1>1, <2>1, Heard
  <2>3. Moves(p, "write")
    BY <1>0, <1>2, GotoFields DEF Places, Moves
  <2>4. Talk(p)'
    BY <1>1, <2>2, <2>3 DEF Talk, Ahead, Behind, Moves, Becomes, Like, Waits, At
  <2>5. Knows(p)'
    BY <1>0, <2>2, <2>3 DEF Knows, Moves, Becomes, Like, Active, Renaming, Succeeded, At, Agrees
  <2> QED BY <1>0, <2>2, <2>4, <2>5, CommandTells
<1>3. CASE /\ Hears(p, "SEARCH")
           /\ LET c == cmd[p] IN
              Becomes(p, "savestore", c.stage, c.job, c.online, c.password, c.value,
                      Head(rep[p]).unsafe.name, c.rc)
  <2>1. /\ req[p] = <<>> /\ req'[p] = <<>> /\ rep'[p] = <<>> /\ UNCHANGED peer
        /\ Head(rep[p]).unsafe.name = cmd[p].job.name /\ file[cmd[p].job.name] # NoFile
    BY <1>0, <1>1, <1>3, Heard DEF Agrees
  <2>2. Talk(p)'
    BY <1>1, <1>3, <2>1, PlainTalk DEF Becomes, Like, Waits
  <2>3. Knows(p)'
    BY <1>0, <1>3, <2>1 DEF Knows, Becomes, Like, Active, Renaming, Succeeded, At, Agrees
  <2> QED BY <1>0, <2>1, <2>2, <2>3, CommandTells
<1> QED
  BY <1>0, <1>2, <1>3, SaveAnsweredFit

LEMMA SaveStoreTells ==
  ASSUME TellInv, NEW p \in Conns, SaveStore(p) PROVE TellInv'
<1>0. /\ TypeOK /\ cmd \in [Conns -> Cmd] /\ Talk(p) /\ Knows(p) /\ Command(p)
      /\ cmd[p].pc = "savestore" /\ UNCHANGED file /\ Goto(p, "write")
  BY TellFields DEF Command, SaveStore, At
<1>1. /\ cmd[p].found = cmd[p].job.name /\ file[cmd[p].job.name] # NoFile
      /\ req[p] = <<>> /\ rep[p] = <<>>
  BY <1>0 DEF Knows, Talk, Waits, At
<1>2. PICK m : m = Stored(cmd[p].job.name, cmd[p].value, NoTimeout)
  OBVIOUS
<1>3. Send(p, m) /\ alive
  BY <1>1, <1>2 DEF SaveStore, Send
<1>4. UNCHANGED <<rep, peer>> /\ req'[p] = Append(req[p], m) /\ req'[p] = <<m>>
  BY <1>0, <1>1, <1>3, ChannelUse, OneFacts
<1>5. Moves(p, "write")
  BY <1>0, GotoFields DEF Places, Moves
<1>6. Talk(p)'
  BY <1>0, <1>1, <1>2, <1>4, <1>5
     DEF Talk, Ahead, Behind, Stored, Moves, Becomes, Like, Waits, At
<1>7. Knows(p)'
  BY <1>0, <1>4, <1>5 DEF Knows, Moves, Becomes, Like, Active, Renaming, Succeeded, At, Agrees
<1> QED
  BY <1>0, <1>3, <1>4, <1>6, <1>7, CommandTells

LEMMA DiscardCmdTells ==
  ASSUME TellInv, NEW p \in Conns, Discard(p) PROVE TellInv'
<1>0. /\ TypeOK /\ cmd \in [Conns -> Cmd] /\ Talk(p) /\ Knows(p) /\ Command(p)
      /\ cmd[p].pc = "discard" /\ UNCHANGED file /\ Goto(p, "discarded")
  BY TellFields DEF Command, Discard, At
<1>1. Moves(p, "discarded")
  BY <1>0, GotoFields DEF Places, Moves
<1>2. Question(p)' = [op |-> "DISCARD", name |-> cmd[p].job.name]
  BY <1>1 DEF Question, Wanted, At, Moves, Becomes, Like
<1>3. Send(p, Question(p)') /\ alive
  BY <1>2 DEF Discard, Send
<1>4. UNCHANGED <<rep, peer>> /\ req'[p] = Append(req[p], Question(p)')
  BY <1>0, <1>3, ChannelUse
<1>5. Talk(p)'
  BY <1>0, <1>1, <1>4, AskedTalk DEF Talk, Moves, Becomes, Like, Waits, At
<1>6. Knows(p)'
  BY <1>0, <1>1, <1>4 DEF Knows, Moves, Becomes, Like, Active, Renaming, Succeeded, At, Agrees
<1> QED
  BY <1>0, <1>3, <1>4, <1>5, <1>6, CommandTells

\* While a command has an empty connection, the agent has no entry without a file.
LEMMA NoFileNoEntry ==
  ASSUME TellInv, NEW p \in Conns, Command(p), req[p] = <<>>, cmd[p].pc \notin {"write", "move"},
         NEW n \in Names, file[n] = NoFile
  PROVE  storage[n] = Absent
<1>1. \A q \in Conns : req[q] = <<>> /\ ~At(q, "write") /\ ~At(q, "move")
  BY CommandSteps DEF At, Running
<1>2. ~Promised(n) /\ ~Agrees(n, storage[n])
  BY <1>1 DEF Promised, Agrees
<1> QED
  BY <1>2 DEF TellInv, Entry

LEMMA DiscardedTells ==
  ASSUME TellInv, NEW p \in Conns, Discarded(p) PROVE TellInv'
<1>0. /\ TypeOK /\ SafeInv /\ cmd \in [Conns -> Cmd] /\ Talk(p) /\ Knows(p) /\ Command(p)
      /\ cmd[p].pc = "discarded" /\ UNCHANGED file /\ Wanted(p) = cmd[p].job.name
      /\ cmd[p].job.to \in Names
  BY TellFields DEF Command, Discarded, At, Wanted
<1>1. cmd[p].pc \in Waits /\ <<>> \in Seq(Truths') /\ UNCHANGED storage
  BY <1>0, EmptyRow, CommandSteps DEF Waits
<1>2. PICK op : Hears(p, op)
  BY DEF Discarded, HearsNo
<1>3. /\ req[p] = <<>> /\ req'[p] = <<>> /\ rep'[p] = <<>> /\ UNCHANGED peer
      /\ storage[cmd[p].job.name] = Absent
  BY <1>0, <1>1, <1>2, Heard DEF At
<1>4. CASE Return(p, "failed")
  BY <1>0, <1>1, <1>3, <1>4, EmptyRow, GiveUpTells
<1>5. ASSUME NEW x \in {"unlink", "restore"}, Goto(p, x),
             x = "unlink" <=> cmd[p].job.cmd = "delete" PROVE TellInv'
  <2>1. Moves(p, x) /\ x \notin Waits \cup {"write", "move"}
    BY <1>0, <1>5, GotoFields DEF Places, Moves, Waits
  <2>2. Talk(p)'
    BY <1>1, <1>3, <2>1, PlainTalk DEF Moves, Becomes, Like
  <2>3. Knows(p)'
    BY <1>0, <1>1, <1>3, <1>5, <2>1
       DEF Knows, Moves, Becomes, Like, Active, Renaming, Succeeded, At, Agrees
  <2> QED BY <1>0, <1>3, <2>2, <2>3, CommandTells
<1>6. CASE Goto(p, "move") /\ cmd[p].job.cmd # "delete"
  <2>1. Moves(p, "move")
    BY <1>0, <1>6, GotoFields DEF Places, Moves
  <2>2. Renaming(p) /\ file[cmd[p].job.to] = NoFile
    BY <1>0, <1>6 DEF Knows, Renaming
  <2>3. storage[cmd[p].job.to] = Absent
    BY <1>0, <1>3, <2>2, NoFileNoEntry
  <2>4. Talk(p)'
    BY <1>1, <1>3, <2>1, <2>3 DEF Talk, Ahead, Behind, Moves, Becomes, Like, Waits, At
  <2>5. Knows(p)'
    BY <1>0, <1>1, <1>3, <2>1, <2>2
       DEF Knows, Moves, Becomes, Like, Active, Renaming, Succeeded, At, Agrees
  <2> QED BY <1>0, <1>3, <2>4, <2>5, CommandTells
<1> QED
  BY <1>4, <1>5, <1>6 DEF Discarded

LEMMA RestoreTells ==
  ASSUME TellInv, NEW p \in Conns, Restore(p) PROVE TellInv'
<1>0. /\ TypeOK /\ cmd \in [Conns -> Cmd] /\ Talk(p) /\ Knows(p) /\ Command(p)
      /\ cmd[p].pc = "restore" /\ UNCHANGED <<file, storage>> /\ Goto(p, "move")
  BY TellFields, CommandSteps DEF Command, Restore, At
<1>1. req[p] = <<>> /\ rep[p] = <<>>
  BY <1>0 DEF Knows, Talk, Waits, At
<1>2. PICK m : m = Stored(cmd[p].job.to, cmd[p].value, NoTimeout)
  OBVIOUS
<1>3. Send(p, m) /\ alive
  BY <1>2 DEF Restore, Send
<1>4. UNCHANGED <<rep, peer>> /\ req'[p] = Append(req[p], m) /\ req'[p] = <<m>>
  BY <1>0, <1>1, <1>3, ChannelUse, OneFacts
<1>5. Moves(p, "move")
  BY <1>0, GotoFields DEF Places, Moves
<1>6. Talk(p)'
  BY <1>1, <1>2, <1>4, <1>5 DEF Talk, Ahead, Behind, Stored, Moves, Becomes, Like, Waits, At
<1>7. Knows(p)'
  BY <1>0, <1>4, <1>5 DEF Knows, Moves, Becomes, Like, Active, Renaming, Succeeded, At, Agrees
<1> QED
  BY <1>0, <1>3, <1>4, <1>6, <1>7, CommandTells

\* A command changes files of the workspace, and nothing of the agent.
LEMMA FileTells ==
  ASSUME TellInv, NEW p \in Conns, Command(p), UNCHANGED vars,
         Talk(p)', Knows(p)', \A n \in Names : Entry(n)'
  PROVE  TellInv'
<1>1. AloneInv' /\ Apart(p) /\ \A q \in Conns \ {p} : ~Running(q) /\ req[q] = <<>>
  BY CommandSteps
<1>2. ASSUME NEW q \in Conns PROVE Talk(q)' /\ Knows(q)'
  <2>1. CASE q # p
    <3>1. cmd'[q] = cmd[q] /\ req'[q] = <<>> /\ cmd[q].pc \in {"idle", "done"}
      BY <1>1, <2>1 DEF Apart, Running
    <3>2. <<>> \in Seq(Truths')
      BY EmptyRow
    <3> QED BY <3>1, <3>2 DEF Talk, Knows, Active, Waits, Succeeded, At
  <2> QED BY <2>1
<1>3. Dead' /\ Timely'
  <2>1. UNCHANGED <<alive, storage, req, now, timers>> /\ \A t \in timers : now < t.at
    BY CommandSteps DEF vars
  <2> QED BY <2>1 DEF TellInv, Dead, Timely
<1> QED
  BY <1>1, <1>2, <1>3 DEF TellInv

\* Before the step that puts the file of n in its place, what is under way is n.
LEMMA AheadFields ==
  ASSUME TellInv, NEW p \in Conns, Command(p), NEW n \in Names, Ahead(p, n),
         \/ At(p, "write") /\ n = cmd[p].job.name
         \/ At(p, "move") /\ n = cmd[p].job.to
  PROVE  /\ \A i \in Names \ {n} : storage[i] # Absent => Agrees(i, storage[i])
         /\ storage[n] \in {Absent, cmd[p].value}
            \/ (req[p] # <<>> /\ Head(req[p]).op = "STORE" /\ Head(req[p]).unsafe.name = n)
         /\ Agrees(n, cmd[p].value)' => req[p] \in Seq(Truths')
<1>0. SafeInv /\ Fit(cmd[p]) /\ (At(p, "write") => cmd[p].value \in Values) /\ Entry(n)
  BY TellFields DEF TellInv, Fit, At
<1>1. \A q \in Conns \ {p} : req[q] = <<>> /\ ~At(q, "write") /\ ~At(q, "move")
  BY CommandSteps DEF Running, At
<1>2. CASE req[p] = <<>> /\ storage[n] \in {Absent, cmd[p].value}
  <2>1. ASSUME NEW i \in Names \ {n} PROVE ~Promised(i)
    BY <1>1, <1>2 DEF Promised, At
  <2>2. <<>> \in Seq(Truths')
    BY EmptyRow
  <2> QED BY <1>2, <2>1, <2>2 DEF TellInv, Entry
<1>3. CASE req[p] = <<Stored(n, cmd[p].value, NoTimeout)>>
  <2>1. PICK m : m = Stored(n, cmd[p].value, NoTimeout)
    OBVIOUS
  <2>2. req[p] = <<m>> /\ req[p] # <<>> /\ Head(req[p]) = m /\ m.op = "STORE" /\ m.unsafe.name = n
        /\ m.unsafe.value = cmd[p].value
    BY <1>3, <2>1, OneFacts, StoredFields
  <2>3. ASSUME NEW i \in Names \ {n} PROVE ~Promised(i)
    BY <1>1, <2>2 DEF Promised, At
  <2>4. m \in Request
    BY <2>2, RowFacts, TellFields DEF TypeOK
  <2>5. Agrees(n, cmd[p].value)' => m \in Truths'
    <3>1. cmd'[p].value = cmd[p].value => (Agrees(n, cmd[p].value)' => m \in Truths')
      BY <2>2, <2>4 DEF Truths, Agrees
    <3>2. cmd'[p].value = cmd[p].value
      <4>1. SafeInv /\ cmd \in [Conns -> Cmd]
        BY TellFields
      <4>2. WriteFile(p) \/ Move(p)
        BY DEF Command, Check, Ask, Answered, ReadFile, CfgStore, Edit, SaveAsk, SaveAnswered,
               SaveStore, Store, Discard, Discarded, Unlink, Restore, Exit, BrokenPipe, Sending, At
      <4>3. \/ \E r \in {"ok", "failed"} : Return(p, r)
            \/ Goto(p, "store")
        BY <4>1, <4>2, WriteFileFit DEF Move
      <4> QED BY <4>1, <4>3, ReturnFields, GotoFields DEF Becomes, Like, Places
    <3> QED BY <3>1, <3>2
  <2> QED BY <2>2, <2>3, <2>5 DEF TellInv, Entry
<1> QED
  BY <1>2, <1>3 DEF Ahead

\* kp_storage_save: the file gets what the agent has been sent, or was meant to.
LEMMA WriteFileTells ==
  ASSUME TellInv, NEW p \in Conns, WriteFile(p) PROVE TellInv'
<1>0. /\ TypeOK /\ SafeInv /\ cmd \in [Conns -> Cmd] /\ Talk(p) /\ Knows(p) /\ Command(p)
      /\ cmd[p].pc = "write" /\ cmd[p].job.name \in Names
      /\ cmd[p].value \in Values /\ cmd[p].password \in Passwords
  BY TellFields DEF Command, WriteFile, At, Fit
<1>n. PICK n \in Names : n = cmd[p].job.name
  BY <1>0
<1>1. /\ UNCHANGED vars /\ req'[p] = req[p] /\ rep'[p] = <<>> /\ peer'[p] = peer[p]
      /\ UNCHANGED storage
      /\ \/ file'[n] # NoFile /\ cmd[p].value \in {file'[n].value, file'[n].meant}
         \/ file[n] = NoFile /\ file' = file /\ Return(p, "failed")
      /\ \A i \in Names \ {n} : file'[i] = file[i]
  BY <1>0, <1>n, WriteFileFit DEF vars, Talk, Waits, At
<1>2. /\ cmd'[p].pc \in {"exit", "store"} /\ cmd'[p].job = cmd[p].job /\ cmd'[p].value = cmd[p].value
      /\ cmd'[p].stage = cmd[p].stage /\ cmd'[p].online = cmd[p].online
      /\ Return(p, "failed") => cmd'[p].pc = "exit" /\ cmd'[p].rc = "failed"
  <2>1. (\E r \in {"ok", "failed"} : Return(p, r)) \/ Goto(p, "store")
    BY <1>0, WriteFileFit
  <2> QED BY <1>0, <2>1, ReturnFields, GotoFields DEF Becomes, Like, Places
<1>3. Ahead(p, n) /\ At(p, "write")
  BY <1>0, <1>n DEF Talk, At
<1>6. /\ \A i \in Names \ {n} : storage[i] # Absent => Agrees(i, storage[i])
      /\ storage[n] \in {Absent, cmd[p].value}
         \/ (req[p] # <<>> /\ Head(req[p]).op = "STORE" /\ Head(req[p]).unsafe.name = n)
      /\ Agrees(n, cmd[p].value)' => req[p] \in Seq(Truths')
  BY <1>0, <1>n, <1>3, AheadFields
<1>i. ASSUME NEW i \in Names \ {n} PROVE Entry(i)'
  BY <1>1, <1>6, <1>i DEF Entry, Agrees
<1>4. CASE file'[n] # NoFile /\ cmd[p].value \in {file'[n].value, file'[n].meant}
  <2>1. Agrees(n, cmd[p].value)'
    BY <1>2, <1>4 DEF Agrees
  <2>2. Talk(p)'
    BY <1>1, <1>2, <1>6, <2>1, PlainTalk DEF Waits
  <2>3. Knows(p)'
    BY <1>0, <1>n, <1>1, <1>2, <2>1 DEF Knows, Active, Renaming, Succeeded, At
  <2>4. Entry(n)'
    BY <1>1, <1>2, <1>6, <2>1 DEF Entry, Promised, Agrees
  <2> QED BY <1>0, <1>1, <1>i, <2>2, <2>3, <2>4, FileTells
<1>5. CASE file[n] = NoFile /\ file' = file /\ Return(p, "failed")
  <2>1. Behind(p, n) /\ <<>> \in Seq(Truths')
    BY <1>0, <1>n, <1>5, EmptyRow DEF Talk, At
  <2>2. Talk(p)'
    BY <1>1, <1>2, <2>1, PlainTalk DEF Waits, Behind
  <2>3. Knows(p)'
    BY <1>2, <1>5, EndKnows DEF Succeeded
  <2>4. Entry(n)'
    BY <1>1, <2>1 DEF Entry, Behind
  <2> QED BY <1>0, <1>1, <1>i, <2>2, <2>3, <2>4, FileTells
<1> QED
  BY <1>1, <1>4, <1>5

LEMMA UnlinkTells ==
  ASSUME TellInv, NEW p \in Conns, Unlink(p) PROVE TellInv'
<1>0. /\ TypeOK /\ SafeInv /\ cmd \in [Conns -> Cmd] /\ Talk(p) /\ Knows(p) /\ Command(p)
      /\ cmd[p].pc = "unlink" /\ cmd[p].job.name \in Names
  BY TellFields DEF Command, Unlink, At
<1>n. PICK n \in Names : n = cmd[p].job.name
  BY <1>0
<1>1. /\ UNCHANGED vars /\ req'[p] = req[p] /\ req[p] = <<>> /\ peer'[p] = peer[p]
      /\ UNCHANGED storage /\ storage[n] = Absent
      /\ \A i \in Names \ {n} : file'[i] = file[i]
  BY <1>0, <1>n, UnlinkFit DEF vars, Knows, Unlink, SafeInv, FileType
<1>2. cmd'[p].pc = "exit" /\ cmd'[p].job = cmd[p].job /\ cmd[p].job.cmd = "delete"
  <2>1. \E r \in {"ok", "failed"} : Return(p, r)
    BY DEF Unlink
  <2> QED BY <1>0, <2>1, ReturnFields DEF Becomes, Like, Knows
<1>3. \A q \in Conns : req[q] = <<>> /\ ~At(q, "write") /\ ~At(q, "move")
  BY <1>0, <1>1, CommandSteps DEF Running, At
<1>4. <<>> \in Seq(Truths')
  BY EmptyRow
<1>5. Talk(p)'
  BY <1>1, <1>2, <1>4, PlainTalk DEF Waits
<1>6. Knows(p)'
  BY <1>2, EndKnows DEF Succeeded
<1>7. ASSUME NEW i \in Names PROVE Entry(i)'
  <2>1. Entry(i) /\ ~Promised(i)
    BY <1>3 DEF TellInv, Promised
  <2> QED BY <1>1, <2>1 DEF Entry, Agrees
<1> QED
  BY <1>0, <1>1, <1>5, <1>6, <1>7, FileTells

\* renameat: the file follows the entry.
LEMMA MoveTells ==
  ASSUME TellInv, NEW p \in Conns, Move(p) PROVE TellInv'
<1>0. /\ TypeOK /\ SafeInv /\ cmd \in [Conns -> Cmd] /\ Talk(p) /\ Knows(p) /\ Command(p)
      /\ cmd[p].pc = "move" /\ cmd[p].job.name \in Names /\ cmd[p].job.to \in Names
  BY TellFields DEF Command, Move, At
<1>n. PICK n \in Names, old \in Names : n = cmd[p].job.to /\ old = cmd[p].job.name
  BY <1>0
<1>k. /\ Renaming(p) /\ Agrees(old, cmd[p].value) /\ storage[old] = Absent
      /\ file[n] = NoFile /\ n \notin Unreachable /\ rep[p] = <<>>
  BY <1>0, <1>n DEF Knows, Renaming, Talk, Waits
<1>1. /\ UNCHANGED vars /\ req'[p] = req[p] /\ peer'[p] = peer[p] /\ UNCHANGED storage
  BY <1>0, MoveFit DEF vars
<1>f. /\ old # n /\ Return(p, "ok")
      /\ file'[n] = file[old] /\ file'[old] = NoFile
      /\ \A i \in Names \ {n, old} : file'[i] = file[i]
  BY <1>0, <1>n, <1>k DEF Move, SafeInv, FileType, Agrees
<1>2. /\ cmd'[p].pc = "exit" /\ cmd'[p].job = cmd[p].job /\ cmd'[p].value = cmd[p].value
  BY <1>0, <1>f, ReturnFields DEF Becomes, Like
<1>3. Ahead(p, n) /\ At(p, "move")
  BY <1>0, <1>n DEF Talk, At
<1>5. Agrees(n, cmd[p].value)'
  BY <1>2, <1>f, <1>k DEF Agrees
<1>6. /\ \A i \in Names \ {n} : storage[i] # Absent => Agrees(i, storage[i])
      /\ storage[n] \in {Absent, cmd[p].value}
         \/ (req[p] # <<>> /\ Head(req[p]).op = "STORE" /\ Head(req[p]).unsafe.name = n)
      /\ req[p] \in Seq(Truths')
  BY <1>0, <1>n, <1>3, <1>5, AheadFields
<1>7. Talk(p)'
  BY <1>1, <1>2, <1>6, PlainTalk DEF Waits
<1>8. Knows(p)'
  BY <1>2, <1>k, EndKnows DEF Succeeded, Renaming
<1>9. ASSUME NEW i \in Names PROVE Entry(i)'
  <2>1. CASE i = n
    BY <1>1, <1>2, <1>5, <1>6, <2>1 DEF Entry, Promised, Agrees
  <2>2. CASE i = old
    BY <1>1, <1>k, <2>2 DEF Entry
  <2>3. CASE i \notin {n, old}
    BY <1>1, <1>f, <1>6, <2>3 DEF Entry, Agrees
  <2> QED BY <2>1, <2>2, <2>3
<1> QED
  BY <1>0, <1>1, <1>7, <1>8, <1>9, FileTells

\* The end of a command, and its end by SIGPIPE
LEMMA LeaveTells ==
  ASSUME TellInv, NEW p \in Conns, Exit(p) \/ BrokenPipe(p) PROVE TellInv'
<1>0. /\ TypeOK /\ SafeInv /\ cmd \in [Conns -> Cmd] /\ Talk(p) /\ Dead /\ Command(p) /\ UNCHANGED file
  BY TellFields DEF Command, Exit, BrokenPipe
<1>1. cmd'[p].pc = "done" /\ cmd'[p].job = cmd[p].job
  <2>1. Goto(p, "done") \/ Killed(p)
    BY DEF Exit, BrokenPipe
  <2> QED BY <1>0, <2>1, GotoFields, KilledFields DEF Becomes, Like, Places
<1>2. UNCHANGED req
  BY DEF Exit, BrokenPipe, Close, channelVars
<1>3. cmd[p].pc \notin {"write", "move"} /\ req'[p] \in Seq(Truths')
  <2>1. CASE Exit(p)
    BY <1>0, <1>2, <2>1, SameTruths DEF Exit, At, Talk, Waits
  <2>2. CASE BrokenPipe(p)
    BY <1>0, <1>2, <2>2, EmptyRow DEF BrokenPipe, Sending, Dead
  <2> QED BY <2>1, <2>2
<1>4. Talk(p)'
  BY <1>1, <1>3, PlainTalk DEF Waits
<1>5. Knows(p)'
  BY <1>1, EndKnows DEF Succeeded, At
<1> QED
  BY <1>0, <1>2, <1>3, <1>4, <1>5, CommandTells

LEMMA StartTells ==
  ASSUME TellInv, Serial, Brisk, Links \subseteq {TRUE}, NEW p \in Conns, Start(p)
  PROVE  TellInv'
<1>0. TypeOK /\ SafeInv /\ AloneInv
  BY TellFields
<1>1. /\ Apart(p) /\ UNCHANGED <<storage, file>> /\ req'[p] = req[p] /\ rep'[p] = rep[p]
      /\ cmd[p].pc = "idle" /\ Settled
  BY <1>0, StartApart
<1>2. AloneInv' /\ (\A q \in Conns : ~Running(q) /\ req[q] = <<>>) /\ rep[p] = <<>>
      /\ cmd[p].stage = "safe"
  BY <1>0, <1>1, StartAlone DEF Settled, AloneInv, Fresh
<1>3. PICK j \in Jobs : StartsOn(p, j)
  BY <1>0, StartFit
<1>4. \/ Connect(p) /\ Begun(p, j, TRUE)
      \/ Refused(p, j) /\ UNCHANGED vars
  BY <1>3 DEF StartsOn
<1>5. UNCHANGED <<now, timers, alive>> /\ \A t \in timers : now < t.at
  BY <1>4 DEF Connect, agentVars, vars, Start
<1>6. Talk(p)'
  BY <1>1, <1>2, <1>4, EmptyRow, PlainTalk DEF Begun, Refused, Waits
<1>7. Knows(p)'
  <2>1. CASE Connect(p) /\ Begun(p, j, TRUE)
    <3>1. peer'[p] = "connected"
      BY <1>0, <2>1, ChannelUse
    <3> QED BY <2>1, <3>1 DEF Begun, Knows, Active, Renaming, Succeeded, At
  <2>2. CASE Refused(p, j)
    BY <2>2 DEF Refused, Knows, Active, Renaming, Succeeded, At
  <2> QED BY <1>4, <2>1, <2>2
<1> QED
  BY <1>1, <1>2, <1>5, <1>6, <1>7, StepTells

LEMMA NextTells ==
  ASSUME Serial, Brisk, ~Interrupts, Links \subseteq {TRUE}
  PROVE  TellInv /\ RenamesToNew /\ [SafeNext]_allVars => TellInv'
<1> SUFFICES ASSUME TellInv, RenamesToNew, [SafeNext]_allVars PROVE TellInv'
  OBVIOUS
<1>1. CASE UNCHANGED allVars
  <2>1. AloneInv' /\ UNCHANGED <<cmd, file, peer, storage, alive, req, rep, now, timers>>
    BY <1>1, QuietAlone DEF TellInv, allVars, vars, safeVars
  <2>2. Timely'
    BY <2>1 DEF TellInv, Timely, Running
  <2> QED BY <2>1, <2>2, QuietTells
<1>2. ASSUME NEW p \in Conns, Command(p) PROVE TellInv'
  BY <1>2, CheckTells, AskTells, AnsweredTells, ReadFileTells, CfgStoreTells, EditTells,
     SaveAskTells, SaveAnsweredTells, SaveStoreTells, WriteFileTells, StoreCmdTells,
     DiscardCmdTells, DiscardedTells, UnlinkTells, RestoreTells, MoveTells, LeaveTells DEF Command
<1>3. ASSUME NEW p \in Conns PROVE ~Interrupt(p)
  BY DEF Interrupt
<1> QED
  BY <1>1, <1>2, <1>3, AgentTells, StartTells DEF SafeNext

\* One command after the other, an agent set for each, no lifetime that ends while one
\* runs, no kill and no rename onto a safe or to where none can be made: then what the
\* agent shows of a safe between commands is what its file holds, or what a save that
\* failed since was to write, whatever the commands and however long, also when saves
\* fail at any step and when the agent dies in the middle of a command
\* (kp_safe_save, kp_safe_delete, kp_safe_rename).
THEOREM AgentIsCoherent ==
  ASSUME Serial, Brisk, ~Interrupts, Links \subseteq {TRUE}
  PROVE  SafeSpec /\ []RenamesToNew => []Coherent
<1>1. TellInv => Coherent
  <2>1. ASSUME TellInv, Settled, NEW n \in Names, storage[n] # Absent PROVE Agrees(n, storage[n])
    <3>1. ~Promised(n)
      BY <2>1 DEF Settled, Promised, Running, At
    <3> QED BY <2>1, <3>1 DEF TellInv, Entry
  <2> QED BY <2>1 DEF Coherent, Agrees
<1> QED
  BY InitTells, NextTells, <1>1, PTL DEF SafeSpec

\* Under the same conditions cat prints what the file of the safe holds, or what a save
\* that failed since was to write, from the agent as from the file.
THEOREM CatIsTruthful ==
  ASSUME Serial, Brisk, ~Interrupts, Links \subseteq {TRUE}
  PROVE  SafeSpec /\ []RenamesToNew => []CatTruthful
<1>1. TellInv => CatTruthful
  BY DEF TellInv, Knows, CatTruthful, Agrees
<1> QED
  BY InitTells, NextTells, <1>1, PTL DEF SafeSpec
=============================================================================
