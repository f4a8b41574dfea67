--------------------------- MODULE KpAgent_proofs ---------------------------
(***************************************************************************)
(* Proofs about the agent, for any set of names, values and connections.   *)
(***************************************************************************)
EXTENDS KpAgent, FiniteSetTheorems, TLAPS

USE AbsentAssumption, AddrsAssumption, EndsAssumption, LifetimeAssumption,
    BoundsAssumption

-----------------------------------------------------------------------------
(* Messages *)

\* Taking the head of a connection's buffer leaves a buffer of requests.
LEMMA TakenType ==
  ASSUME TypeOK, NEW c \in Conns, NEW op, Taken(c, op)
  PROVE  /\ req' \in [Conns -> Seq(Request)]
         /\ Head(req[c]) \in Request
         /\ Head(req[c]).op = op
         /\ block[c] \in Addrs
BY DEF TypeOK, Taken

\* A STORE carries a struct kp_unsafe, the other requests a name.
LEMMA RequestFields ==
  ASSUME NEW m \in Request
  PROVE  /\ m.op = "STORE" => m.unsafe \in Unsafe
         /\ m.op \in {"SEARCH", "DISCARD"} => m.name \in Names
BY DEF Request

\* An answer of the agent leaves a sequence of replies.
LEMMA AnswerType ==
  ASSUME TypeOK, NEW c \in Conns, NEW m \in Reply, Answer(c, m)
  PROVE  rep' \in [Conns -> Seq(Reply)]
BY DEF TypeOK, Answer

\* The timers stay a finite set of timers when one is armed.
LEMMA ArmType ==
  ASSUME TypeOK, NEW u \in Unsafe, NEW a \in Addrs
  PROVE  Arm(u, a) \in SUBSET Timer /\ IsFiniteSet(Arm(u, a))
<1> DEFINE at == now + u.timeout
           like == {t \in timers : t.name = u.name /\ t.at = at /\ t.addr = a}
           new == [name |-> u.name, at |-> at, addr |-> a, copy |-> Cardinality(like)]
<1>1. CASE u.timeout > 0
  <2>1. IsFiniteSet(like)
    BY FS_Subset DEF TypeOK
  <2>2. Cardinality(like) \in Nat
    BY <2>1, FS_CardinalityType
  <2>3. at \in Nat /\ u.name \in Names
    BY <1>1 DEF TypeOK, Unsafe
  <2>4. new \in Timer
    BY <2>2, <2>3 DEF Timer
  <2>5. IsFiniteSet(timers \cup {new})
    BY FS_AddElement DEF TypeOK
  <2>6. Arm(u, a) = timers \cup {new}
    BY <1>1 DEF Arm
  <2> QED
    BY <2>4, <2>5, <2>6 DEF TypeOK
<1>2. CASE ~(u.timeout > 0)
  BY <1>2 DEF Arm, TypeOK
<1> QED
  BY <1>1, <1>2

\* A positive timeout arms a timer of the name, due when the timeout is over.
LEMMA ArmAdds ==
  ASSUME NEW u, NEW a, u.timeout > 0
  PROVE  \E t \in Arm(u, a) : t.name = u.name /\ t.at = now + u.timeout
<1> DEFINE like == {t \in timers : t.name = u.name /\ t.at = now + u.timeout /\ t.addr = a}
           new == [name |-> u.name, at |-> now + u.timeout, addr |-> a,
                   copy |-> Cardinality(like)]
<1>1. new \in Arm(u, a)
  BY DEF Arm
<1>2. new.name = u.name /\ new.at = now + u.timeout
  OBVIOUS
<1> QED
  BY <1>1, <1>2

-----------------------------------------------------------------------------
(* Type correctness *)

LEMMA InitType == Init => TypeOK
<1> SUFFICES ASSUME Init PROVE TypeOK
  OBVIOUS
<1>1. IsFiniteSet(timers)
  BY FS_EmptySet DEF Init
<1> QED
  BY <1>1 DEF Init, TypeOK, Never

\* Every callback of the event loop and every call of a client keeps the types.
LEMMA ClientType == ASSUME TypeOK, NEW c \in Conns, Client(c) PROVE TypeOK'
<1>1. CASE Connect(c) /\ UNCHANGED sent
  BY <1>1 DEF Connect, TypeOK, agentVars
<1>2. CASE ClientSend(c)
  <2>1. PICK m \in ClientMessage : Send(c, m)
    BY <1>2 DEF ClientSend
  <2>2. m \in Request
    BY DEF ClientMessage, Request, Unsafe
  <2>3. req' \in [Conns -> Seq(Request)]
    BY <2>1, <2>2 DEF Send, TypeOK
  <2> QED
    BY <1>2, <2>1, <2>3 DEF ClientSend, Send, TypeOK, agentVars
<1>3. CASE Receive(c) /\ UNCHANGED sent
  <2>1. Tail(rep[c]) \in Seq(Reply)
    BY <1>3 DEF Receive, TypeOK
  <2> QED
    BY <1>3, <2>1 DEF Receive, TypeOK, agentVars
<1>4. CASE Close(c) /\ UNCHANGED sent
  <2>1. rep' \in [Conns -> Seq(Reply)]
    BY <1>4 DEF Close, TypeOK
  <2> QED
    BY <1>4, <2>1 DEF Close, TypeOK, agentVars
<1> QED
  BY <1>1, <1>2, <1>3, <1>4 DEF Client

LEMMA DispatchType == ASSUME TypeOK, NEW c \in Conns, Dispatch(c) PROVE TypeOK'
<1>1. CASE DispatchStore(c)
  <2> DEFINE u == Head(req[c]).unsafe
  <2>1. u \in Unsafe /\ block[c] \in Addrs /\ req' \in [Conns -> Seq(Request)]
    BY <1>1, TakenType, RequestFields DEF DispatchStore
  <2>2. timers' \in SUBSET Timer /\ IsFiniteSet(timers')
    BY <1>1, <2>1, ArmType DEF DispatchStore
  <2>3. PromiseOf(u) \in Nat \cup {Never}
    BY <2>1 DEF PromiseOf, TypeOK, Unsafe
  <2>4. storage' \in [Names -> Values \cup {Absent}]
    BY <1>1, <2>1 DEF DispatchStore, TypeOK, Unsafe
  <2>5. promise' \in [Names -> Nat \cup {Never}]
    BY <1>1, <2>1, <2>3 DEF DispatchStore, TypeOK, Unsafe
  <2> QED
    BY <1>1, <2>1, <2>2, <2>4, <2>5 DEF DispatchStore, TypeOK
<1>2. CASE DispatchSearch(c)
  <2> DEFINE n == Head(req[c]).name
  <2>1. n \in Names /\ req' \in [Conns -> Seq(Request)]
    BY <1>2, TakenType, RequestFields DEF DispatchSearch
  <2>2. storage[n] # Absent => Found(n) \in Reply
    BY <2>1 DEF Found, Reply, Unsafe, TypeOK, NoTimeout
  <2>3. [op |-> "ERROR"] \in Reply
    BY DEF Reply
  <2>4. rep' \in [Conns -> Seq(Reply)]
    BY <1>2, <2>2, <2>3, AnswerType DEF DispatchSearch
  <2> QED
    BY <1>2, <2>1, <2>4 DEF DispatchSearch, TypeOK
<1>3. CASE DispatchDiscard(c)
  <2> DEFINE n == Head(req[c]).name
  <2>1. n \in Names /\ req' \in [Conns -> Seq(Request)]
    BY <1>3, TakenType, RequestFields DEF DispatchDiscard
  <2>2. [op |-> "ERROR"] \in Reply /\ [op |-> "DISCARD"] \in Reply
    BY DEF Reply
  <2>3. rep' \in [Conns -> Seq(Reply)]
    BY <1>3, <2>2, AnswerType DEF DispatchDiscard
  <2>4. storage' \in [Names -> Values \cup {Absent}] /\ promise' \in [Names -> Nat \cup {Never}]
    BY <1>3, <2>1 DEF DispatchDiscard, Forget, TypeOK
  <2> QED
    BY <1>3, <2>1, <2>3, <2>4 DEF DispatchDiscard, TypeOK
<1>4. CASE DispatchEof(c)
  BY <1>4 DEF DispatchEof, TypeOK, channelVars
<1> QED
  BY <1>1, <1>2, <1>3, <1>4 DEF Dispatch

LEMMA StopType == ASSUME TypeOK, Stop PROVE TypeOK'
<1>1. timers' \in SUBSET Timer /\ IsFiniteSet(timers')
  BY FS_EmptySet DEF Stop
<1>2. storage' \in [Names -> Values \cup {Absent}] /\ promise' \in [Names -> Nat \cup {Never}]
  BY DEF Stop
<1>3. block' \in [Conns -> Addrs \cup {NoConn, Freed}] /\ req' \in [Conns -> Seq(Request)]
  BY DEF Stop
<1> QED
  BY <1>1, <1>2, <1>3 DEF Stop, TypeOK

LEMMA TimeoutType == ASSUME TypeOK, NEW t \in timers, TimeoutDiscard(t) PROVE TypeOK'
<1>1. t \in Timer /\ t.name \in Names
  BY DEF TypeOK, Timer
<1>2. IsFiniteSet(timers \ {t}) /\ timers \ {t} \in SUBSET Timer
  BY FS_RemoveElement DEF TypeOK
<1>3. CASE ExpireFound(t)
  <2>1. storage' \in [Names -> Values \cup {Absent}] /\ promise' \in [Names -> Nat \cup {Never}]
    BY <1>1, <1>3 DEF ExpireFound, Forget, TypeOK
  <2> QED
    BY <1>2, <1>3, <2>1 DEF ExpireFound, TypeOK, channelVars
<1>4. CASE ExpireMissing(t)
  <2>1. [op |-> "ERROR"] \in Reply
    BY DEF Reply
  <2>2. rep' \in [Conns -> Seq(Reply)]
    BY <1>4, <2>1, AnswerType DEF ExpireMissing, Owner
  <2> QED
    BY <1>2, <1>4, <2>2 DEF ExpireMissing, TypeOK
<1>5. CASE ExpireDangling(t)
  BY <1>2, <1>5, StopType DEF ExpireDangling, TypeOK, channelVars
<1> QED
  BY <1>3, <1>4, <1>5 DEF TimeoutDiscard

LEMMA NextType == TypeOK /\ [Next]_vars => TypeOK'
<1> SUFFICES ASSUME TypeOK, [Next]_vars PROVE TypeOK'
  OBVIOUS
<1>1. ASSUME NEW c \in Conns, Client(c) PROVE TypeOK'
  BY <1>1, ClientType
<1>2. ASSUME NEW c \in Conns, Accept(c) PROVE TypeOK'
  BY <1>2 DEF Accept, TypeOK, channelVars
<1>3. ASSUME NEW c \in Conns, Dispatch(c) PROVE TypeOK'
  BY <1>3, DispatchType
<1>4. ASSUME NEW t \in timers, TimeoutDiscard(t) PROVE TypeOK'
  BY <1>4, TimeoutType
<1>5. CASE AgentKill
  BY <1>5, StopType DEF AgentKill
<1>6. CASE Tick
  BY <1>6 DEF Tick, TypeOK, channelVars
<1>7. CASE UNCHANGED vars
  BY <1>7 DEF vars, TypeOK
<1> QED
  BY <1>1, <1>2, <1>3, <1>4, <1>5, <1>6, <1>7 DEF Next

\* Every reachable state of the agent and its connections is well formed.
THEOREM TypeCorrect == Spec => []TypeOK
BY InitType, NextType, PTL DEF Spec

-----------------------------------------------------------------------------
(* No entry outlives its lifetime *)

IInv == TypeOK /\ ExpiryInv

LEMMA InitInv == Init => IInv
<1> SUFFICES ASSUME Init PROVE IInv
  OBVIOUS
<1>1. TypeOK
  BY InitType
<1> QED
  BY <1>1 DEF Init, IInv, ExpiryInv, ExpiryCovered, TimersAhead, Held

\* A STORE with a lifetime arms the timer that covers the entry; one without
\* keeps the timers of the entry, or makes an entry that needs none.
LEMMA StoreInv == ASSUME IInv, NEW c \in Conns, DispatchStore(c) PROVE ExpiryInv'
<1> DEFINE u == Head(req[c]).unsafe
           at == now + u.timeout
<1>1. u \in Unsafe /\ block[c] \in Addrs
  BY TakenType, RequestFields DEF DispatchStore, IInv
<1>2. /\ now \in Nat /\ u.timeout \in Int /\ u.name \in Names
      /\ timers' = Arm(u, block[c])
      /\ storage' = [storage EXCEPT ![u.name] = u.value]
      /\ promise' = [promise EXCEPT ![u.name] = PromiseOf(u)]
      /\ now' = now
      /\ storage \in [Names -> Values \cup {Absent}]
      /\ promise \in [Names -> Nat \cup {Never}]
      /\ timers \in SUBSET Timer
  BY <1>1 DEF DispatchStore, IInv, TypeOK, Unsafe
<1>3. timers \subseteq timers'
  BY <1>2 DEF Arm
<1>4. TimersAhead'
  <2> SUFFICES ASSUME NEW t \in timers' PROVE now <= t.at
    BY <1>2 DEF TimersAhead
  <2>1. CASE t \in timers
    BY <2>1 DEF IInv, ExpiryInv, TimersAhead
  <2>2. CASE t \notin timers
    <3>1. u.timeout > 0 /\ t.at = at
      BY <1>2, <2>2 DEF Arm
    <3> QED
      BY <1>2, <3>1
  <2> QED
    BY <2>1, <2>2
<1>5. ExpiryCovered'
  <2> SUFFICES ASSUME NEW n \in Names, Held(n)'
               PROVE  \E t \in timers' : t.name = n /\ t.at <= promise'[n]
    BY DEF ExpiryCovered
  <2>1. CASE n # u.name
    <3>1. Held(n) /\ promise'[n] = promise[n]
      BY <1>2, <2>1 DEF Held
    <3> QED
      BY <1>3, <3>1 DEF IInv, ExpiryInv, ExpiryCovered
  <2>2. CASE n = u.name /\ u.timeout > 0
    <3>3. PromiseOf(u) = at
      BY <2>2 DEF PromiseOf
    <3>1. promise'[n] = at
      BY <1>2, <2>2, <3>3
    <3>2. \E t \in timers' : t.name = n /\ t.at = at
      BY <1>2, <2>2, ArmAdds
    <3> QED
      BY <1>2, <3>1, <3>2
  <2>3. CASE n = u.name /\ ~(u.timeout > 0)
    <3> HIDE DEF u
    <3>1. promise'[n] = PromiseOf(u) /\ promise'[n] # Never
      BY <1>2, <2>3 DEF Held
    <3>2. storage[n] # Absent /\ promise'[n] = promise[n]
      BY <2>3, <3>1 DEF PromiseOf
    <3>3. Held(n)
      BY <3>1, <3>2 DEF Held
    <3> QED
      BY <1>3, <3>2, <3>3 DEF IInv, ExpiryInv, ExpiryCovered
  <2> QED
    BY <2>1, <2>2, <2>3
<1> QED
  BY <1>4, <1>5 DEF ExpiryInv

\* Steps that add no entry, keep every promise that still counts and remove no
\* timer keep the invariant.
LEMMA QuietInv ==
  ASSUME ExpiryInv, UNCHANGED <<now, timers>>,
         \A n \in Names : Held(n)' => Held(n) /\ promise'[n] = promise[n]
  PROVE  ExpiryInv'
BY DEF ExpiryInv, ExpiryCovered, TimersAhead

LEMMA DispatchInv == ASSUME IInv, NEW c \in Conns, Dispatch(c) PROVE ExpiryInv'
<1>1. CASE DispatchStore(c)
  BY <1>1, StoreInv
<1>2. CASE DispatchSearch(c)
  BY <1>2, QuietInv DEF DispatchSearch, IInv, Held
<1>3. CASE DispatchDiscard(c)
  <2>1. Head(req[c]).name \in Names
    BY <1>3, TakenType, RequestFields DEF DispatchDiscard, IInv
  <2>2. \A n \in Names : Held(n)' => Held(n) /\ promise'[n] = promise[n]
    BY <1>3, <2>1 DEF DispatchDiscard, Forget, Held, IInv, TypeOK
  <2> QED
    BY <1>3, <2>2, QuietInv DEF DispatchDiscard, IInv
<1>4. CASE DispatchEof(c)
  BY <1>4, QuietInv DEF DispatchEof, IInv, Held
<1> QED
  BY <1>1, <1>2, <1>3, <1>4 DEF Dispatch

LEMMA StopInv == ASSUME Stop PROVE ExpiryInv'
BY DEF Stop, ExpiryInv, ExpiryCovered, TimersAhead, Held

\* A timer that is gone covered only an entry that is gone too.
LEMMA TimeoutInv == ASSUME IInv, NEW t \in timers, TimeoutDiscard(t) PROVE ExpiryInv'
<1>1. t.name \in Names
  BY DEF IInv, TypeOK, Timer
<1>2. CASE Stop
  BY <1>2, StopInv
<1>3. CASE timers' = timers \ {t} /\ now' = now
  <2>1. TimersAhead'
    BY <1>3 DEF IInv, ExpiryInv, TimersAhead
  <2>2. ASSUME NEW n \in Names, Held(n)'
        PROVE  n # t.name /\ Held(n) /\ promise'[n] = promise[n]
    <3>1. CASE ExpireFound(t)
      BY <1>1, <2>2, <3>1 DEF ExpireFound, Forget, Held, IInv, TypeOK
    <3>2. CASE ExpireMissing(t) \/ (ExpireDangling(t) /\ UNCHANGED <<storage, promise>>)
      BY <2>2, <3>2 DEF ExpireMissing, ExpireDangling, Held
    <3>3. CASE Stop
      BY <2>2, <3>3 DEF Stop, Held
    <3> QED
      BY <3>1, <3>2, <3>3 DEF TimeoutDiscard, ExpireDangling
  <2>3. ExpiryCovered'
    BY <1>3, <2>2 DEF ExpiryCovered, IInv, ExpiryInv
  <2> QED
    BY <2>1, <2>3 DEF ExpiryInv
<1> QED
  BY <1>2, <1>3 DEF TimeoutDiscard, ExpireFound, ExpireMissing, ExpireDangling

LEMMA TickInv == ASSUME IInv, Tick PROVE ExpiryInv'
<1>1. \A t \in timers : now + 1 <= t.at
  BY DEF Tick, IInv, TypeOK, Timer
<1>2. ExpiryCovered'
  BY DEF Tick, IInv, ExpiryInv, ExpiryCovered, Held
<1> QED
  BY <1>1, <1>2 DEF Tick, ExpiryInv, TimersAhead

LEMMA NextInv == IInv /\ [Next]_vars => IInv'
<1> SUFFICES ASSUME IInv, [Next]_vars PROVE ExpiryInv'
  BY NextType DEF IInv
<1>1. ASSUME NEW c \in Conns, Client(c) PROVE ExpiryInv'
  BY <1>1, QuietInv
     DEF Client, Connect, ClientSend, Send, Receive, Close, agentVars, IInv, Held
<1>2. ASSUME NEW c \in Conns, Accept(c) PROVE ExpiryInv'
  BY <1>2, QuietInv DEF Accept, IInv, Held
<1>3. ASSUME NEW c \in Conns, Dispatch(c) PROVE ExpiryInv'
  BY <1>3, DispatchInv
<1>4. ASSUME NEW t \in timers, TimeoutDiscard(t) PROVE ExpiryInv'
  BY <1>4, TimeoutInv
<1>5. CASE AgentKill
  BY <1>5, StopInv DEF AgentKill
<1>6. CASE Tick
  BY <1>6, TickInv
<1>7. CASE UNCHANGED vars
  BY <1>7, QuietInv DEF vars, IInv, Held
<1> QED
  BY <1>1, <1>2, <1>3, <1>4, <1>5, <1>6, <1>7 DEF Next

\* Every entry with a lifetime is covered by a timer that is not overdue.
THEOREM ExpiryInvariant == Spec => []ExpiryInv
<1>1. IInv => ExpiryInv
  BY DEF IInv
<1> QED
  BY InitInv, NextInv, <1>1, PTL DEF Spec

\* The clear text of a safe is never in the agent after its lifetime.
THEOREM NeverOverstays == Spec => []NoOverstay
<1>1. IInv => NoOverstay
  BY DEF IInv, ExpiryInv, ExpiryCovered, TimersAhead, NoOverstay, Held, TypeOK, Timer
<1> QED
  BY InitInv, NextInv, <1>1, PTL DEF Spec

-----------------------------------------------------------------------------
(* The agent implements the timed cache *)

LEMMA InitRefines == Init => Cache!Init
BY DEF Init, Cache!Init, Never, Cache!Never

\* A step that touches neither the clock nor the tree is a stutter.
LEMMA StutterRefines ==
  ASSUME UNCHANGED <<now, storage, promise>>
  PROVE  UNCHANGED Cache!cacheVars
BY DEF Cache!cacheVars

\* Forgetting one entry is dropping the set of its name.
LEMMA ForgetRefines ==
  ASSUME TypeOK, NEW n \in Names, Forget(n), UNCHANGED now
  PROVE  Cache!Next
<1>1. Cache!Drop({n})
  BY DEF Forget, Cache!Drop, TypeOK, Never, Cache!Never
<1> QED
  BY <1>1 DEF Cache!Next

LEMMA StopRefines == ASSUME Stop PROVE Cache!Next
<1>1. Cache!Drop(Names)
  BY DEF Stop, Cache!Drop, Never, Cache!Never
<1> QED
  BY <1>1 DEF Cache!Next

LEMMA StoreRefines == ASSUME TypeOK, NEW c \in Conns, DispatchStore(c) PROVE Cache!Next
<1> DEFINE u == Head(req[c]).unsafe
<1>1. u \in Unsafe
  BY TakenType, RequestFields DEF DispatchStore
<1>2. /\ u.name \in Names /\ u.value \in Values /\ u.timeout \in Int /\ now \in Nat
      /\ promise \in [Names -> Nat \cup {Never}]
      /\ storage' = [storage EXCEPT ![u.name] = u.value]
      /\ promise' = [promise EXCEPT ![u.name] = PromiseOf(u)]
      /\ now' = now
  BY <1>1 DEF DispatchStore, TypeOK, Unsafe
<1> HIDE DEF u
<1>3. CASE u.timeout > 0
  <2>1. PromiseOf(u) = now + u.timeout
    BY <1>3 DEF PromiseOf
  <2>2. promise'[u.name] = PromiseOf(u)
    BY <1>2
  <2>3. promise'[u.name] > now
    BY <1>2, <1>3, <2>1, <2>2
  <2>4. promise' = [promise EXCEPT ![u.name] = promise'[u.name]]
    BY <1>2, <2>2
  <2> QED
    BY <1>2, <2>3, <2>4 DEF Cache!Next, Cache!Put
<1>4. CASE ~(u.timeout > 0) /\ storage[u.name] = Absent
  <2>1. PromiseOf(u) = Never
    BY <1>4 DEF PromiseOf
  <2>2. PromiseOf(u) = Cache!Never
    BY <2>1 DEF Never, Cache!Never
  <2>3. promise' = [promise EXCEPT ![u.name] = Cache!Never]
    BY <1>2, <2>2
  <2> QED
    BY <1>2, <1>4, <2>3 DEF Cache!Next, Cache!Put, Cache!Present
<1>5. CASE ~(u.timeout > 0) /\ storage[u.name] # Absent
  <2>1. PromiseOf(u) = promise[u.name]
    BY <1>5 DEF PromiseOf
  <2>2. promise' = promise
    BY <1>2, <2>1
  <2> QED
    BY <1>2, <1>5, <2>2 DEF Cache!Next, Cache!Put, Cache!Present
<1> QED
  BY <1>3, <1>4, <1>5

LEMMA DispatchRefines ==
  ASSUME TypeOK, NEW c \in Conns, Dispatch(c)
  PROVE  [Cache!Next]_Cache!cacheVars
<1>1. CASE DispatchStore(c)
  BY <1>1, StoreRefines
<1>2. CASE DispatchSearch(c)
  BY <1>2, StutterRefines DEF DispatchSearch
<1>3. CASE DispatchDiscard(c)
  <2>1. Head(req[c]).name \in Names
    BY <1>3, TakenType, RequestFields DEF DispatchDiscard
  <2>2. CASE Forget(Head(req[c]).name)
    BY <1>3, <2>1, <2>2, ForgetRefines DEF DispatchDiscard
  <2>3. CASE UNCHANGED <<storage, promise>>
    BY <1>3, <2>3, StutterRefines DEF DispatchDiscard
  <2> QED
    BY <1>3, <2>2, <2>3 DEF DispatchDiscard
<1>4. CASE DispatchEof(c)
  BY <1>4, StutterRefines DEF DispatchEof
<1> QED
  BY <1>1, <1>2, <1>3, <1>4 DEF Dispatch

LEMMA TimeoutRefines ==
  ASSUME TypeOK, NEW t \in timers, TimeoutDiscard(t)
  PROVE  [Cache!Next]_Cache!cacheVars
<1>1. t.name \in Names
  BY DEF TypeOK, Timer
<1>2. CASE ExpireFound(t)
  BY <1>1, <1>2, ForgetRefines DEF ExpireFound
<1>3. CASE ExpireMissing(t)
  BY <1>3, StutterRefines DEF ExpireMissing
<1>4. CASE ExpireDangling(t)
  BY <1>4, StutterRefines, StopRefines DEF ExpireDangling
<1> QED
  BY <1>2, <1>3, <1>4 DEF TimeoutDiscard

\* The clock may pass: an entry at the end of its lifetime would have a timer
\* that is due, and the loop serves that one first.
LEMMA TickRefines == ASSUME IInv, Tick PROVE Cache!Next
<1>1. ASSUME NEW n \in Names, storage[n] # Absent, promise[n] # Never
      PROVE  now < promise[n]
  <2>1. PICK t \in timers : t.name = n /\ t.at <= promise[n]
    BY <1>1 DEF IInv, ExpiryInv, ExpiryCovered, Held
  <2>2. now < t.at
    BY DEF Tick
  <2>3. now \in Nat /\ t.at \in Nat /\ promise[n] \in Nat
    BY <1>1 DEF IInv, TypeOK, Timer
  <2> QED
    BY <2>1, <2>2, <2>3
<1>2. Cache!Pass
  BY <1>1 DEF Tick, Cache!Pass, Cache!Present, Never, Cache!Never
<1> QED
  BY <1>2 DEF Cache!Next

LEMMA NextRefines == IInv /\ [Next]_vars => [Cache!Next]_Cache!cacheVars
<1> SUFFICES ASSUME IInv, [Next]_vars PROVE [Cache!Next]_Cache!cacheVars
  OBVIOUS
<1>1. ASSUME NEW c \in Conns, Client(c) PROVE UNCHANGED Cache!cacheVars
  BY <1>1, StutterRefines
     DEF Client, Connect, ClientSend, Send, Receive, Close, agentVars
<1>2. ASSUME NEW c \in Conns, Accept(c) PROVE UNCHANGED Cache!cacheVars
  BY <1>2, StutterRefines DEF Accept
<1>3. ASSUME NEW c \in Conns, Dispatch(c) PROVE [Cache!Next]_Cache!cacheVars
  BY <1>3, DispatchRefines DEF IInv
<1>4. ASSUME NEW t \in timers, TimeoutDiscard(t) PROVE [Cache!Next]_Cache!cacheVars
  BY <1>4, TimeoutRefines DEF IInv
<1>5. CASE AgentKill
  BY <1>5, StopRefines DEF AgentKill
<1>6. CASE Tick
  BY <1>6, TickRefines
<1>7. CASE UNCHANGED vars
  BY <1>7, StutterRefines DEF vars
<1> QED
  BY <1>1, <1>2, <1>3, <1>4, <1>5, <1>6, <1>7 DEF Next

\* Every behaviour of the agent is one of the timed cache.
THEOREM Implements == Spec => ImplementsTimedCache
BY InitRefines, InitInv, NextInv, NextRefines, PTL DEF Spec, ImplementsTimedCache, Cache!Spec

=============================================================================
