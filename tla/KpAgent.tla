------------------------------- MODULE KpAgent -------------------------------
(***************************************************************************)
(* The kickpass agent: the background process that keeps opened safes in   *)
(* clear text in a red-black tree and serves them over a Unix socket.      *)
(*                                                                         *)
(*   src/command/agent.c   the event loop: accept, dispatch, the timers    *)
(*   lib/kpagent.c         the storage and the message layer               *)
(*                                                                         *)
(* The loop is single threaded: one callback runs to its end before the    *)
(* next, so each callback is one action.  dispatch() handles every message *)
(* its read returned; here each message is an action of its own, which     *)
(* only adds interleavings.  A password and its metadata are one Value.    *)
(***************************************************************************)
EXTENDS Integers, Sequences, FiniteSets

CONSTANTS Names,      \* names of safes
          Values,     \* what a safe holds: password and metadata together
          Absent,     \* "no entry of this name in the tree"
          Conns,      \* connections, each used once (one kickpass command)
          Addrs,      \* addresses malloc may give a struct conn
          NoConn,     \* the agent has not accepted the connection yet
          Freed,      \* dispatch() saw end-of-file and freed the struct conn
          Lifetimes,  \* values of unsafe.timeout the clients send, in seconds
          MaxFds,     \* connections the agent may accept before EMFILE
          Spare,      \* descriptors imsg_read wants free (2 where CMSG_SPACE is 24)
          MaxNow,     \* bound: the clock stops here once no timer is armed
          MaxSends    \* bound: requests all the clients send together

ASSUME AbsentAssumption == Absent \notin Values
ASSUME AddrsAssumption  == NoConn \notin Addrs /\ Freed \notin Addrs
ASSUME EndsAssumption   == NoConn # Freed
ASSUME LifetimeAssumption == Lifetimes \subseteq Int
ASSUME BoundsAssumption ==
  MaxFds \in Nat /\ Spare \in Nat /\ MaxNow \in Nat /\ MaxSends \in Nat

VARIABLES
  now,      \* seconds since the agent started
  alive,    \* the agent process runs
  storage,  \* the red-black tree: name -> Value, or Absent
  timers,   \* the armed libevent timers
  block,    \* where the struct conn of a connection lives, NoConn or Freed
  peer,     \* the client's end: "absent", "connected" or "closed"
  req,      \* bytes towards the agent, one sequence of messages per connection
  rep,      \* bytes towards the client
  promise,  \* history: when the lifetime last asked for this entry ends
  sent      \* requests sent so far (for the bound MaxSends only)

agentVars   == <<now, alive, storage, timers, block, promise>>
channelVars == <<peer, req, rep>>
vars        == <<now, alive, storage, timers, block, peer, req, rep, promise, sent>>

-----------------------------------------------------------------------------
(* Messages.  STORE has no answer, SEARCH and DISCARD have exactly one.     *)

Unsafe  == [name : Names, value : Values, timeout : Int]   \* struct kp_unsafe
Request == [op : {"STORE"}, unsafe : Unsafe]
             \cup [op : {"SEARCH", "DISCARD"}, name : Names]
Reply   == [op : {"SEARCH"}, unsafe : Unsafe] \cup [op : {"DISCARD", "ERROR"}]

NoTimeout == -1   \* KP_UNSAFE_INIT.timeout
Never     == -1   \* promise of an entry that has no lifetime

\* addr is the pointer timeout->agent: it stays what it was when the struct
\* conn is freed.  copy tells apart timers armed alike; each one is an event.
Timer == [name : Names, at : Nat, addr : Addrs, copy : Nat]

Accepted == {c \in Conns : block[c] # NoConn}
Owner(a) == {c \in Conns : block[c] = a}       \* at most one connection

\* imsg_read gives up unless Spare more descriptors can be had
OutOfFds == Cardinality(Accepted) + Spare > MaxFds

TypeOK ==
  /\ now \in Nat
  /\ alive \in BOOLEAN
  /\ storage \in [Names -> Values \cup {Absent}]
  /\ timers \in SUBSET Timer /\ IsFiniteSet(timers)
  /\ block \in [Conns -> Addrs \cup {NoConn, Freed}]
  /\ peer \in [Conns -> {"absent", "connected", "closed"}]
  /\ req \in [Conns -> Seq(Request)]
  /\ rep \in [Conns -> Seq(Reply)]
  /\ promise \in [Names -> Nat \cup {Never}]
  /\ sent \in Nat

Init ==
  /\ now = 0
  /\ alive = TRUE
  /\ storage = [n \in Names |-> Absent]
  /\ timers = {}
  /\ block = [c \in Conns |-> NoConn]
  /\ peer = [c \in Conns |-> "absent"]
  /\ req = [c \in Conns |-> <<>>]
  /\ rep = [c \in Conns |-> <<>>]
  /\ promise = [n \in Names |-> Never]
  /\ sent = 0

-----------------------------------------------------------------------------
(* The client's end of a connection (lib/kpagent.c in the kickpass command) *)

\* kp_agent_connect: succeeds as soon as the socket listens, accepted or not
Connect(c) ==
  /\ alive
  /\ peer[c] = "absent"
  /\ peer' = [peer EXCEPT ![c] = "connected"]
  /\ UNCHANGED <<agentVars, req, rep>>

\* kp_agent_send by a client
Send(c, m) ==
  /\ alive
  /\ peer[c] = "connected"
  /\ req' = [req EXCEPT ![c] = Append(@, m)]
  /\ UNCHANGED <<agentVars, peer, rep>>

\* kp_agent_receive takes the next message of the connection, whatever it is
Receive(c) ==
  /\ peer[c] = "connected"
  /\ rep[c] # <<>>
  /\ rep' = [rep EXCEPT ![c] = Tail(@)]
  /\ UNCHANGED <<agentVars, peer, req>>

\* kp_agent_close, or the client's exit: unread answers are lost
Close(c) ==
  /\ peer[c] = "connected"
  /\ peer' = [peer EXCEPT ![c] = "closed"]
  /\ rep' = [rep EXCEPT ![c] = <<>>]
  /\ UNCHANGED <<agentVars, req>>

-----------------------------------------------------------------------------
(* The agent                                                               *)

\* Bug: the accept event is not persistent
BugAccept(c) ==
  /\ alive
  /\ peer[c] # "absent" /\ block[c] = NoConn
  /\ Accepted = {}
  /\ \E a \in Addrs : block' = [block EXCEPT ![c] = a]
  /\ UNCHANGED <<now, alive, storage, timers, promise, channelVars, sent>>

\* agent_accept: malloc gives any address no live struct conn has, that of a
\* freed one included.  No socket is ever closed, so MaxFds bounds the accepts
\* over the whole life of the agent; beyond it accept() fails and the client
\* stays in the listen queue.
Accept(c) ==
  /\ alive
  /\ peer[c] # "absent" /\ block[c] = NoConn
  /\ Cardinality(Accepted) < MaxFds
  /\ \E a \in Addrs :
       /\ Owner(a) = {}
       /\ block' = [block EXCEPT ![c] = a]
  /\ UNCHANGED <<now, alive, storage, timers, promise, channelVars, sent>>

\* kp_agent_send by the agent: lost when the client is gone (EPIPE is ignored)
Answer(c, m) ==
  rep' = IF peer[c] = "connected" THEN [rep EXCEPT ![c] = Append(@, m)] ELSE rep

\* Bug: what a client sent before it closed is dropped
BugTaken(c, op) ==
  /\ alive
  /\ block[c] \in Addrs /\ ~OutOfFds
  /\ peer[c] = "connected"
  /\ req[c] # <<>> /\ Head(req[c]).op = op
  /\ req' = [req EXCEPT ![c] = Tail(@)]

\* The message at the head of c's buffer is handled
Taken(c, op) ==
  /\ alive
  /\ block[c] \in Addrs /\ ~OutOfFds
  /\ req[c] # <<>> /\ Head(req[c]).op = op
  /\ req' = [req EXCEPT ![c] = Tail(@)]

\* Bug: a name that has a timer gets no second one
BugArmOnce(unsafe, addr) ==
  IF unsafe.timeout > 0 /\ \A t \in timers : t.name # unsafe.name
  THEN timers \cup {[name |-> unsafe.name, at |-> now + unsafe.timeout,
                     addr |-> addr, copy |-> 0]}
  ELSE timers

\* Bug: the timer is a second late
BugArmLate(unsafe, addr) ==
  IF unsafe.timeout > 0
  THEN timers \cup {[name |-> unsafe.name, at |-> now + unsafe.timeout + 1,
                     addr |-> addr, copy |-> 0]}
  ELSE timers

\* store() of agent.c: a timer for this name, whatever timers it already has
Arm(unsafe, addr) ==
  IF unsafe.timeout > 0
  THEN LET like == {t \in timers : /\ t.name = unsafe.name
                                   /\ t.at = now + unsafe.timeout
                                   /\ t.addr = addr}
       IN timers \cup {[name |-> unsafe.name, at |-> now + unsafe.timeout,
                        addr |-> addr, copy |-> Cardinality(like)]}
  ELSE timers

\* What the manuals promise of the entry after a STORE: a positive timeout sets
\* its lifetime, without one the entry keeps the lifetime it had
\* (kp_safe_save.3), a new one has none.
PromiseOf(unsafe) ==
  IF unsafe.timeout > 0 THEN now + unsafe.timeout
  ELSE IF storage[unsafe.name] = Absent THEN Never ELSE promise[unsafe.name]

\* dispatch, KP_MSG_STORE: store() arms, kp_agent_store inserts or replaces
DispatchStore(c) ==
  /\ Taken(c, "STORE")
  /\ LET unsafe == Head(req[c]).unsafe IN
       /\ timers'  = Arm(unsafe, block[c])
       /\ storage' = [storage EXCEPT ![unsafe.name] = unsafe.value]
       /\ promise' = [promise EXCEPT ![unsafe.name] = PromiseOf(unsafe)]
  /\ UNCHANGED <<now, alive, block, peer, rep, sent>>

\* Bug: store_cmp takes different names for equal
BugFound(n) ==
  LET other == CHOOSE m \in Names : storage[m] # Absent IN
  [op |-> "SEARCH",
   unsafe |-> [name |-> n, value |-> storage[other], timeout |-> NoTimeout]]

\* The reply is a fresh kp_unsafe: it does not carry the entry's timeout
Found(n) == [op |-> "SEARCH",
             unsafe |-> [name |-> n, value |-> storage[n], timeout |-> NoTimeout]]

\* Bug: the result of RB_FIND is not checked
BugDispatchSearch(c) ==
  /\ Taken(c, "SEARCH")
  /\ Answer(c, Found(Head(req[c]).name))
  /\ UNCHANGED <<now, alive, storage, timers, block, peer, promise, sent>>

\* dispatch, KP_MSG_SEARCH: kp_agent_search
DispatchSearch(c) ==
  /\ Taken(c, "SEARCH")
  /\ LET n == Head(req[c]).name IN
       Answer(c, IF storage[n] = Absent THEN [op |-> "ERROR"] ELSE Found(n))
  /\ UNCHANGED <<now, alive, storage, timers, block, peer, promise, sent>>

Forget(n) ==
  /\ storage' = [storage EXCEPT ![n] = Absent]
  /\ promise' = [promise EXCEPT ![n] = Never]

\* Bug: silent is taken to mean "no answer on failure" here too
BugDiscardMute(c) ==
  /\ Taken(c, "DISCARD")
  /\ LET n == Head(req[c]).name IN
       \/ storage[n] # Absent /\ Forget(n) /\ Answer(c, [op |-> "DISCARD"])
       \/ storage[n] = Absent /\ UNCHANGED <<storage, promise, rep>>
  /\ UNCHANGED <<now, alive, timers, block, peer, sent>>

\* dispatch, KP_MSG_DISCARD: kp_agent_discard.  The timers of the name stay.
DispatchDiscard(c) ==
  /\ Taken(c, "DISCARD")
  /\ LET n == Head(req[c]).name IN
       \/ /\ storage[n] # Absent
          /\ Forget(n)
          /\ Answer(c, [op |-> "DISCARD"])
       \/ /\ storage[n] = Absent
          /\ Answer(c, [op |-> "ERROR"])
          /\ UNCHANGED <<storage, promise>>
  /\ UNCHANGED <<now, alive, timers, block, peer, sent>>

\* Bug: the timers of a connection go with it
BugDispatchEof(c) ==
  /\ alive
  /\ block[c] \in Addrs
  /\ peer[c] = "closed" /\ req[c] = <<>>
  /\ timers' = {t \in timers : t.addr # block[c]}
  /\ block' = [block EXCEPT ![c] = Freed]
  /\ UNCHANGED <<now, alive, storage, promise, channelVars, sent>>

\* dispatch, end of file or any other failure of imsg_read: the event is deleted
\* and the struct conn freed; its socket stays open, so that a client that waits
\* for an answer waits on, and timers that point into it stay armed
DispatchEof(c) ==
  /\ alive
  /\ block[c] \in Addrs
  /\ \/ peer[c] = "closed" /\ req[c] = <<>>
     \/ OutOfFds /\ (peer[c] = "closed" \/ req[c] # <<>>)
  /\ block' = [block EXCEPT ![c] = Freed]
  /\ UNCHANGED <<now, alive, storage, timers, promise, channelVars, sent>>

\* The process is gone with all it held; a client can read what it was sent
Stop ==
  /\ alive' = FALSE
  /\ storage' = [n \in Names |-> Absent]
  /\ promise' = [n \in Names |-> Never]
  /\ timers' = {}
  /\ block' = [c \in Conns |-> Freed]
  /\ req' = [c \in Conns |-> <<>>]
  /\ UNCHANGED <<now, peer, rep, sent>>

\* Bug: an entry that has another timer is left to it
BugExpireFound(t) ==
  /\ storage[t.name] # Absent
  /\ IF \E u \in timers \ {t} : u.name = t.name
     THEN UNCHANGED <<storage, promise>> ELSE Forget(t.name)
  /\ timers' = timers \ {t}
  /\ UNCHANGED <<now, alive, block, channelVars, sent>>

\* timeout_discard: kp_agent_discard with silent set
ExpireFound(t) ==
  /\ storage[t.name] # Absent
  /\ Forget(t.name)
  /\ timers' = timers \ {t}
  /\ UNCHANGED <<now, alive, block, channelVars, sent>>

\* The entry is already gone: kp_agent_discard sends an ERROR all the same, to
\* the connection whose struct conn is at timeout->agent now
ExpireMissing(t) ==
  /\ storage[t.name] = Absent
  /\ \E c \in Owner(t.addr) : Answer(c, [op |-> "ERROR"])
  /\ timers' = timers \ {t}
  /\ UNCHANGED <<now, alive, storage, block, peer, req, promise, sent>>

\* ... or nobody's: a use after free.  The bytes may still be those of the dead
\* connection, whose peer is gone (nothing happens), or anything (a crash)
ExpireDangling(t) ==
  /\ storage[t.name] = Absent
  /\ Owner(t.addr) = {}
  /\ \/ /\ timers' = timers \ {t}
        /\ UNCHANGED <<now, alive, storage, block, channelVars, promise, sent>>
     \/ Stop

TimeoutDiscard(t) ==
  /\ alive
  /\ t \in timers /\ t.at <= now
  /\ ExpireFound(t) \/ ExpireMissing(t) \/ ExpireDangling(t)

\* SIGCHLD of the command the agent was started for (agent_kill), or a signal
AgentKill == alive /\ Stop

\* The loop runs a due timer before the clock moves a second further
Tick ==
  /\ alive
  /\ now < MaxNow \/ timers # {}
  /\ \A t \in timers : now < t.at
  /\ now' = now + 1
  /\ UNCHANGED <<alive, storage, timers, block, promise, channelVars, sent>>

-----------------------------------------------------------------------------
\* Clients that may send anything at any time, up to MaxSends
ClientMessage ==
  [op : {"STORE"}, unsafe : [name : Names, value : Values, timeout : Lifetimes]]
    \cup [op : {"SEARCH", "DISCARD"}, name : Names]

ClientSend(c) ==
  /\ sent < MaxSends
  /\ \E m \in ClientMessage : Send(c, m)
  /\ sent' = sent + 1

Client(c) ==
  \/ Connect(c) /\ UNCHANGED sent
  \/ ClientSend(c)
  \/ Receive(c) /\ UNCHANGED sent
  \/ Close(c) /\ UNCHANGED sent

Dispatch(c) == DispatchStore(c) \/ DispatchSearch(c) \/ DispatchDiscard(c) \/ DispatchEof(c)

Next ==
  \/ \E c \in Conns : Client(c) \/ Accept(c) \/ Dispatch(c)
  \/ \E t \in timers : TimeoutDiscard(t)
  \/ AgentKill
  \/ Tick

Spec == Init /\ [][Next]_vars

\* libevent serves every readable connection and every due timer, and time
\* passes.  Nothing is assumed of the clients.
Fairness ==
  /\ \A c \in Conns : WF_vars(Accept(c)) /\ WF_vars(Dispatch(c))
  /\ WF_vars(\E t \in timers : TimeoutDiscard(t))
  /\ WF_vars(Tick)

FairSpec == Spec /\ Fairness

-----------------------------------------------------------------------------
(* Properties                                                              *)

Held(n) == storage[n] # Absent /\ promise[n] # Never

ExpiryCovered ==
  \A n \in Names : Held(n) => \E t \in timers : t.name = n /\ t.at <= promise[n]

TimersAhead == \A t \in timers : now <= t.at

\* Whatever stores, discards and early expiries came before, an entry with a
\* lifetime always has a timer of its name armed that is due no later, and no
\* timer is overdue: the reason why store() may replace an entry and arm one
\* more timer without looking at the others.
ExpiryInv == ExpiryCovered /\ TimersAhead

\* The clear text of a safe is never in the agent after the lifetime the last
\* STORE asked for it (timeout_discard).
NoOverstay == \A n \in Names : Held(n) => now <= promise[n]

\* The agent implements the timed cache: every callback is one step of it or
\* none (store, kp_agent_store, kp_agent_discard, timeout_discard).
Cache == INSTANCE TimedCache WITH cache <- storage, deadline <- promise
ImplementsTimedCache == Cache!Spec

\* An entry with a lifetime is gone in the end, even when the connection that
\* armed its timer is closed and its struct conn freed.
EntryEnds == \A n \in Names : Held(n) ~> storage[n] = Absent

\* A request the agent received is handled in the end, also when the client
\* closed the connection right after it (kp_safe_store does not wait); it is left
\* unread only by an agent that is short of descriptors.
RequestsHandled ==
  \A c \in Conns : block[c] \in Addrs /\ req[c] # <<>> ~> req[c] = <<>> \/ OutOfFds

\* A client waits for ever in the listen queue only of an agent that is out of
\* descriptors, which it never gives back (dispatch frees, but never closes).
AcceptedUnlessOutOfFds ==
  \A c \in Conns : peer[c] = "connected" ~>
    block[c] # NoConn \/ ~alive \/ Cardinality(Accepted) = MaxFds

\* kickpass.1: the timeout sets the lifetime of the opened safe.  A timer may
\* remove an entry only when the lifetime it was last given is over.
LifetimeHonoured ==
  [][\A n \in Names :
       /\ storage[n] # Absent /\ storage'[n] = Absent
       /\ alive' /\ req' = req
       => promise[n] = now]_vars
=============================================================================
