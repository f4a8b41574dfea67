--------------------------------- MODULE Imsg ---------------------------------
(***************************************************************************)
(* One connection between a kickpass command and the agent, byte by byte:  *)
(* the framing of compat/bsd/imsg.c and imsg-buffer.c under kp_agent_send  *)
(* and kp_agent_receive on the command's side and dispatch on the agent's. *)
(*                                                                         *)
(* The sockets block: sendmsg puts pieces of any length into the kernel's  *)
(* buffer while it has room, recvmsg takes pieces of any length out of it. *)
(* No descriptor is ever passed.  A byte is <<its message, its place>>;    *)
(* the header's length field is that of the message its first byte is of.  *)
(***************************************************************************)
EXTENDS Integers, Sequences, SequencesExt, FiniteSets

CONSTANTS
  HeaderSize,  \* IMSG_HEADER_SIZE, 16
  MaxSize,     \* MAX_IMSGSIZE, 16384
  BufSize,     \* IBUF_READ_SIZE, 65535
  Room,        \* bytes the kernel holds for one direction of a socket
  DataLen,     \* DataLen[t]: bytes of data of a message of type t
  Failures,    \* "nobufs": sendmsg may find no memory; "nofds": imsg_read may
               \* find too few descriptors, or no memory
  MaxCalls     \* bound: requests the command sends

Requests == {"STORE", "SEARCH"}   \* SEARCH stands for DISCARD too: one answer
Answers  == {"FOUND", "ERROR"}

ASSUME SizeAssumption == HeaderSize \in Nat \ {0} /\ Room \in Nat \ {0}
\* imsg_create refuses nothing that kickpass sends, and no datalen wraps in its
\* 16 bits: the largest, a struct kp_unsafe, has 12296 bytes
ASSUME FitAssumption ==
  /\ DataLen \in [Requests \cup Answers -> Nat]
  /\ \A t \in Requests \cup Answers : HeaderSize + DataLen[t] <= MaxSize
ASSUME BufferAssumption == MaxSize \in Nat /\ BufSize \in Nat /\ MaxSize <= BufSize
ASSUME CallsAssumption == MaxCalls \in Nat

VARIABLES
  pc,      \* where each end is
  w,       \* imsgbuf.w: the ibufs to be sent, each a message and its rpos
  pipe,    \* what an end has sent and the kernel still has
  r,       \* imsgbuf.r: what an end has read and not yet taken
  call,    \* the command's last request
  failed,  \* history: a sendmsg or an imsg_read has failed for want of them
  freed    \* the agent has freed its struct conn, but the socket is open

imsgVars == <<pc, w, pipe, r, call, failed, freed>>

Ends == {"client", "agent"}
Peer(e) == CHOOSE f \in Ends : f # e

\* A request is numbered, which tells it apart from others of its type; an answer
\* has the number of its request.  Neither number is in the real message.
Message == [type : Requests \cup Answers, serial : 1..MaxCalls]
Size(m) == HeaderSize + DataLen[m.type]

Byte == Message \X Nat
Bytes(m) == [i \in 1..Size(m) |-> <<m, i>>]
IsLast(b) == b[2] = Size(b[1])

\* What is left to send of an ibuf, and of all of them
Left(buf)  == SubSeq(Bytes(buf.msg), buf.rpos + 1, Size(buf.msg))
Unsent(e)  == FlattenSeq([i \in DOMAIN w[e] |-> Left(w[e][i])])

\* All the bytes between two ends, the oldest first
Stream(e) == r[Peer(e)] \o pipe[e] \o Unsent(e)

\* An end that is gone serves the connection no more; the agent's socket is closed
\* only when the agent dies
Up == \A e \in Ends : pc[e] # "gone"
Closed(e) == pc[e] = "gone" /\ ~(e = "agent" /\ freed)

ImsgTypeOK ==
  /\ pc \in [Ends -> {"idle", "flush", "receive", "poll", "dispatch", "gone"}]
  /\ w \in [Ends -> Seq([msg : Message, rpos : Nat])]
  /\ \A e \in Ends : \A i \in DOMAIN w[e] : w[e][i].rpos < Size(w[e][i].msg)
  /\ pipe \in [Ends -> Seq(Byte)] /\ \A e \in Ends : Len(pipe[e]) <= Room
  /\ r \in [Ends -> Seq(Byte)] /\ \A e \in Ends : Len(r[e]) <= BufSize
  /\ call \in [type : Requests, serial : 0..MaxCalls]
  /\ failed \in BOOLEAN /\ freed \in BOOLEAN

\* imsg_init
ImsgInit ==
  /\ pc = [e \in Ends |-> IF e = "client" THEN "idle" ELSE "poll"]
  /\ w = [e \in Ends |-> <<>>]
  /\ pipe = [e \in Ends |-> <<>>]
  /\ r = [e \in Ends |-> <<>>]
  /\ call = [type |-> "STORE", serial |-> 0]
  /\ failed = FALSE /\ freed = FALSE

Goto(e, l) == pc' = [pc EXCEPT ![e] = l]

-----------------------------------------------------------------------------
(* Sending: kp_agent_send is imsg_compose and imsg_flush                    *)

\* imsg_compose: a new ibuf at the end of the queue
Compose(e, m) == w' = [w EXCEPT ![e] = Append(@, [msg |-> m, rpos |-> 0])]

\* Bytes of the first k ibufs that are still to be sent
Ahead(e, k) == Len(FlattenSeq([i \in 1..k |-> Left(w[e][i])]))

\* Bug: an ibuf that has just been sent whole stays in the queue
BugDrained(e, n) ==
  LET k == CHOOSE k \in 0..Len(w[e]) :
             /\ k = 0 \/ Ahead(e, k) < n
             /\ k < Len(w[e]) => Ahead(e, k + 1) >= n
  IN [i \in 1..(Len(w[e]) - k) |->
        IF i = 1 THEN [w[e][k + 1] EXCEPT !.rpos = @ + n - Ahead(e, k)] ELSE w[e][k + i]]

\* msgbuf_drain: n more bytes are sent.  Whole ibufs leave the queue, the next
\* one remembers how far it got.
Drained(e, n) ==
  LET k == CHOOSE k \in 0..Len(w[e]) :
             /\ Ahead(e, k) <= n
             /\ k < Len(w[e]) => Ahead(e, k + 1) > n
  IN [i \in 1..(Len(w[e]) - k) |->
        IF i = 1 THEN [w[e][k + 1] EXCEPT !.rpos = @ + n - Ahead(e, k)] ELSE w[e][k + i]]

\* msgbuf_write: the kernel takes the next piece
SendPiece(e) ==
  /\ pc[e] = "flush" /\ ~Closed(Peer(e))
  /\ \E n \in 1..Room :
       /\ n <= Len(Unsent(e)) /\ Len(pipe[e]) + n <= Room
       /\ pipe' = [pipe EXCEPT ![e] = @ \o SubSeq(Unsent(e), 1, n)]
       /\ w' = [w EXCEPT ![e] = Drained(e, n)]
  /\ UNCHANGED <<pc, r, call, failed, freed>>

\* Where an end goes on after kp_agent_send: dispatch looks at its buffer again; the
\* command waits for an answer when the send succeeded and an answer comes
AfterSend(e, sent) ==
  IF e = "agent" THEN "dispatch"
  ELSE IF sent /\ call.type = "SEARCH" THEN "receive" ELSE "idle"

\* Bug: imsg_flush is content with one sendmsg
BugFlushed(e) ==
  /\ pc[e] = "flush" /\ (w[e] # <<>> => Head(w[e]).rpos > 0)
  /\ Goto(e, AfterSend(e, TRUE))
  /\ UNCHANGED <<w, pipe, r, call, failed, freed>>

\* imsg_flush has emptied the queue
Flushed(e) ==
  /\ pc[e] = "flush" /\ w[e] = <<>>
  /\ Goto(e, AfterSend(e, TRUE))
  /\ UNCHANGED <<w, pipe, r, call, failed, freed>>

\* Bug: a failing imsg_flush throws the queue away
BugSendFails(e) ==
  /\ "nobufs" \in Failures
  /\ pc[e] = "flush" /\ w[e] # <<>>
  /\ Goto(e, AfterSend(e, FALSE))
  /\ failed' = TRUE
  /\ w' = [w EXCEPT ![e] = <<>>]
  /\ UNCHANGED <<pipe, r, call, freed>>

\* sendmsg fails, and imsg_flush with it: what is left stays in the queue
SendFails(e) ==
  /\ "nobufs" \in Failures
  /\ pc[e] = "flush" /\ w[e] # <<>>
  /\ Goto(e, AfterSend(e, FALSE))
  /\ failed' = TRUE
  /\ UNCHANGED <<w, pipe, r, call, freed>>

\* An end drops its buffers: what it had not sent and what it had not taken is lost
Forget(e) ==
  /\ Goto(e, "gone")
  /\ w' = [w EXCEPT ![e] = <<>>]
  /\ r' = [r EXCEPT ![e] = <<>>]
  /\ UNCHANGED call

\* An end dies, and its socket is closed: what it had not read is lost too; what
\* the kernel already has for its peer is not
Leave(e) ==
  /\ Forget(e)
  /\ pipe' = [pipe EXCEPT ![Peer(e)] = <<>>]
  /\ freed' = (freed /\ e # "agent")
  /\ UNCHANGED failed

\* The peer is gone: SIGPIPE ends a command, the agent ignores it and the error
BrokenPipe(e) ==
  /\ pc[e] = "flush" /\ w[e] # <<>> /\ Closed(Peer(e))
  /\ \/ e = "client" /\ Leave(e)
     \/ /\ e = "agent" /\ Goto(e, AfterSend(e, FALSE))
        /\ UNCHANGED <<w, pipe, r, call, failed, freed>>

-----------------------------------------------------------------------------
(* Receiving                                                                *)

\* Bug: the length is taken for that of the data alone
BugHasMessage(e) ==
  /\ Len(r[e]) >= HeaderSize
  /\ Head(r[e])[2] = 1
  /\ HeaderSize + Size(Head(r[e])[1]) <= Len(r[e])

\* What imsg_get looks at: the header is there, and as many bytes as it says.
\* Bytes that begin inside a message are no header (Framed: they never come)
HasMessage(e) ==
  /\ Len(r[e]) >= HeaderSize
  /\ Head(r[e])[2] = 1
  /\ Size(Head(r[e])[1]) <= Len(r[e])

\* Bug: what was read behind the message is lost
BugGet(e) == r' = [r EXCEPT ![e] = <<>>]

\* imsg_get: the rest moves to the front of the buffer
Get(e) == r' = [r EXCEPT ![e] = SubSeq(@, Size(Head(@)[1]) + 1, Len(@))]

\* imsg_read: up to as much as the buffer still takes
Read(e) ==
  \E n \in 1..Room :
    /\ n <= Len(pipe[Peer(e)]) /\ n <= BufSize - Len(r[e])
    /\ pipe' = [pipe EXCEPT ![Peer(e)] = SubSeq(@, n + 1, Len(@))]
    /\ r' = [r EXCEPT ![e] = @ \o SubSeq(pipe[Peer(e)], 1, n)]
    /\ UNCHANGED <<w, call, failed, freed>>

AtEof(e) == pipe[Peer(e)] = <<>> /\ Closed(Peer(e))

\* kp_agent_receive: a message that is in the buffer already, whatever it answers
Receive ==
  /\ pc["client"] = "receive" /\ HasMessage("client")
  /\ Get("client") /\ Goto("client", "idle")
  /\ UNCHANGED <<w, pipe, call, failed, freed>>

\* ... or else what the socket has, until there is one
ReceiveMore ==
  /\ pc["client"] = "receive" /\ ~HasMessage("client")
  /\ Read("client") /\ UNCHANGED pc

\* ... or an error, which clears the queue and leaves the buffer
ReceiveEof ==
  /\ pc["client"] = "receive" /\ ~HasMessage("client")
  /\ AtEof("client")
  /\ Goto("client", "idle")
  /\ w' = [w EXCEPT !["client"] = <<>>]
  /\ UNCHANGED <<pipe, r, call, failed, freed>>

\* ... also when imsg_read fails with the answer still on its way
ReceiveFails ==
  /\ "nofds" \in Failures
  /\ pc["client"] = "receive" /\ ~HasMessage("client")
  /\ Goto("client", "idle")
  /\ w' = [w EXCEPT !["client"] = <<>>]
  /\ failed' = TRUE
  /\ UNCHANGED <<pipe, r, call, freed>>

\* dispatch gives the connection up: no event, no struct conn, but the socket stays
FreeConn == Forget("agent") /\ freed' = TRUE /\ UNCHANGED pipe

\* dispatch, when libevent finds the socket readable: one imsg_read
Poll ==
  /\ pc["agent"] = "poll"
  /\ \/ Read("agent") /\ Goto("agent", "dispatch")
     \/ AtEof("agent") /\ FreeConn /\ UNCHANGED failed

\* ... which fails although there are bytes to be read
PollFails ==
  /\ "nofds" \in Failures
  /\ pc["agent"] = "poll" /\ (pipe["client"] # <<>> \/ AtEof("agent"))
  /\ FreeConn /\ failed' = TRUE

\* Bug: a STORE is answered like a SEARCH
BugStoreAnswered ==
  /\ pc["agent"] = "dispatch" /\ HasMessage("agent")
  /\ Get("agent") /\ Goto("agent", "flush")
  /\ \E t \in Answers : Compose("agent", [Head(r["agent"])[1] EXCEPT !.type = t])
  /\ UNCHANGED <<pipe, call, failed, freed>>

\* Bug: one message for each imsg_read
BugDispatchOnce ==
  /\ pc["agent"] = "dispatch" /\ HasMessage("agent")
  /\ Get("agent")
  /\ LET m == Head(r["agent"])[1] IN
       \/ m.type = "STORE" /\ Goto("agent", "poll") /\ UNCHANGED w
       \/ /\ m.type = "SEARCH" /\ Goto("agent", "flush")
          /\ \E t \in Answers : Compose("agent", [m EXCEPT !.type = t])
  /\ UNCHANGED <<pipe, call, failed, freed>>

\* ... then every message there is
Dispatch ==
  /\ pc["agent"] = "dispatch" /\ HasMessage("agent")
  /\ Get("agent")
  /\ LET m == Head(r["agent"])[1] IN
       \/ m.type = "STORE" /\ UNCHANGED <<pc, w>>
       \/ /\ m.type = "SEARCH" /\ Goto("agent", "flush")
          /\ \E t \in Answers : Compose("agent", [m EXCEPT !.type = t])
  /\ UNCHANGED <<pipe, call, failed, freed>>

\* ... and back to the event loop
DispatchEnd ==
  /\ pc["agent"] = "dispatch" /\ ~HasMessage("agent")
  /\ Goto("agent", "poll")
  /\ UNCHANGED <<w, pipe, r, call, failed, freed>>

-----------------------------------------------------------------------------

\* The command makes a request; nothing is said of which, and of how many
Call ==
  /\ pc["client"] = "idle" /\ call.serial < MaxCalls
  /\ \E t \in Requests :
       LET m == [type |-> t, serial |-> call.serial + 1] IN
         call' = m /\ Compose("client", m)
  /\ Goto("client", "flush")
  /\ UNCHANGED <<pipe, r, failed, freed>>

\* The command exits or is killed; the agent dies
Quit(e) == ~Closed(e) /\ Leave(e)

Client == \/ SendPiece("client") \/ Flushed("client") \/ BrokenPipe("client")
          \/ Receive \/ ReceiveMore \/ ReceiveEof

Agent == \/ SendPiece("agent") \/ Flushed("agent") \/ BrokenPipe("agent")
         \/ Poll \/ Dispatch \/ DispatchEnd

Fail == ReceiveFails \/ PollFails \/ \E e \in Ends : SendFails(e)

ImsgNext == Client \/ Agent \/ Call \/ Fail \/ \E e \in Ends : Quit(e)

ImsgSpec == ImsgInit /\ [][ImsgNext]_imsgVars

\* Each process runs on; nobody has to call, to leave or to fail
FairImsgSpec == ImsgSpec /\ WF_imsgVars(Client) /\ WF_imsgVars(Agent)

-----------------------------------------------------------------------------
(* Properties                                                               *)

\* The messages whose last byte is in a row of bytes
Completed(s) == FlattenSeq([i \in DOMAIN s |-> IF IsLast(s[i]) THEN <<s[i][1]>> ELSE <<>>])

\* The messages the peer can still take: those whose last byte is on its way
Queue(e) == IF pc[Peer(e)] = "gone" THEN <<>> ELSE Completed(Stream(e))

\* On the way to an end there is a row of messages, byte after byte, the first from
\* its first byte: a send that failed half way is continued, never begun again or
\* given up, so imsg_get always finds a header at the start of the buffer.
Framed ==
  \A e \in Ends : LET s == Stream(e) IN pc[Peer(e)] # "gone" =>
    /\ s # <<>> => s[1][2] = 1
    /\ \A i \in 1..(Len(s) - 1) :
         s[i + 1] = <<s[i][1], s[i][2] + 1>> \/ (IsLast(s[i]) /\ s[i + 1][2] = 1)

\* imsg_read is never called on a full buffer: recvmsg would return 0, which is
\* taken for the end of the connection.
RoomToRead ==
  /\ pc["agent"] = "poll" => Len(r["agent"]) < BufSize
  /\ pc["client"] = "receive" /\ ~HasMessage("client") => Len(r["client"]) < BufSize

\* Each direction is a channel of whole messages, as KpAgent has it (req, rep).
ToAgent  == INSTANCE MessageChannel WITH Messages <- Message, queue <- Queue("client"), up <- Up
ToClient == INSTANCE MessageChannel WITH Messages <- Message, queue <- Queue("agent"), up <- Up
ImplementsChannels == ToAgent!Spec /\ ToClient!Spec

\* Answers are told apart by their order alone.  While no sendmsg and no imsg_read
\* has failed there is never more than the one answer the command waits for.
OneAnswer ==
  ~failed /\ pc["client"] # "gone" =>
    /\ Len(Queue("agent")) <= 1
    /\ \A m \in ToSet(Queue("agent")) : pc["client"] # "idle" /\ m.serial = call.serial

\* Neither kp_agent_send nor kp_agent_receive blocks for ever, however little the
\* kernel takes at a time, unless a sendmsg or an imsg_read has failed.
CallsReturn == pc["client"] \in {"flush", "receive"} ~> pc["client"] \in {"idle", "gone"} \/ failed

\* A request that was sent whole is taken in the end, also when it came in the same
\* read as another and when the command has gone meanwhile, unless a sendmsg or an
\* imsg_read has failed.
RequestsTaken == Queue("client") # <<>> /\ ~failed ~> Queue("client") = <<>> \/ failed
=============================================================================
