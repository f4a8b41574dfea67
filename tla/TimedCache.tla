----------------------------- MODULE TimedCache -----------------------------
(***************************************************************************)
(* What the agent promises: a map from the names of opened safes to their  *)
(* clear text in which an entry that was given a lifetime is not seen      *)
(* after it.  The cache may forget an entry at any time: its clients only  *)
(* rely on it never to keep one too long.                                  *)
(***************************************************************************)
EXTENDS Integers

CONSTANTS Names, Values, Absent

VARIABLES now, cache, deadline

cacheVars == <<now, cache, deadline>>

Never == -1

Present(n) == cache[n] # Absent

Init ==
  /\ now = 0
  /\ cache = [n \in Names |-> Absent]
  /\ deadline = [n \in Names |-> Never]

\* A new value and a new lifetime, or the lifetime the entry had
Put(n) ==
  /\ \E v \in Values : cache' = [cache EXCEPT ![n] = v]
  /\ \/ deadline'[n] > now /\ deadline' = [deadline EXCEPT ![n] = deadline'[n]]
     \/ Present(n) /\ deadline' = deadline
     \/ ~Present(n) /\ deadline' = [deadline EXCEPT ![n] = Never]
  /\ now' = now

Drop(S) ==
  /\ cache' = [n \in Names |-> IF n \in S THEN Absent ELSE cache[n]]
  /\ deadline' = [n \in Names |-> IF n \in S THEN Never ELSE deadline[n]]
  /\ now' = now

\* Time does not pass over the end of the lifetime of an entry
Pass ==
  /\ \A n \in Names : Present(n) /\ deadline[n] # Never => now < deadline[n]
  /\ now' = now + 1
  /\ UNCHANGED <<cache, deadline>>

Next ==
  \/ \E n \in Names : Put(n)
  \/ \E S \in SUBSET Names : Drop(S)
  \/ Pass

Spec == Init /\ [][Next]_cacheVars
=============================================================================
