----------------------------- MODULE KpSelection -----------------------------
(***************************************************************************)
(* kickpass copy and the X clients, src/command/copy.c from XOpenDisplay   *)
(* on: it owns the selections and answers who asks for them.               *)
(***************************************************************************)
EXTENDS Integers, Sequences

CONSTANT MaxEvents  \* bound: events there will be

ASSUME BoundAssumption == MaxEvents \in Nat

VARIABLES
  events,  \* what XNextEvent is going to return
  owner,   \* kickpass owns the selections
  replied,
  seen,    \* history: events there have been
  pastes,  \* history: answers with the password
  refused  \* history: answers without

selectionVars == <<events, owner, replied, seen, pastes, refused>>

\* "text": a request for one of the six targets that are text, "strange": for another
\* one but TARGETS, "other": not a request at all
Events == {"targets", "text", "strange", "other"}

SelectionTypeOK ==
  /\ events \in Seq(Events) /\ Len(events) <= MaxEvents
  /\ owner \in BOOLEAN /\ replied \in BOOLEAN
  /\ seen \in 0..MaxEvents /\ pastes \in Nat /\ refused \in Nat

SelectionInit ==
  /\ events = <<>> /\ owner = FALSE /\ replied = FALSE
  /\ seen = 0 /\ pastes = 0 /\ refused = 0

\* XSetSelectionOwner, of both
Own == owner' = TRUE /\ UNCHANGED <<events, replied, seen, pastes, refused>>

\* The X clients: they ask the owner for a selection, change properties, or own the
\* selections themselves, which tells the owner so.
Clients ==
  /\ owner /\ seen < MaxEvents
  /\ \E e \in Events : events' = Append(events, e) /\ owner' \in {TRUE, e # "other"}
  /\ seen' = seen + 1
  /\ UNCHANGED <<replied, pastes, refused>>

\* Bug: nothing ends the loop
BugForEver ==
  /\ ~replied /\ events # <<>>
  /\ events' = Tail(events)
  /\ pastes' = IF Head(events) = "text" THEN pastes + 1 ELSE pastes
  /\ refused' = IF Head(events) = "strange" THEN refused + 1 ELSE refused
  /\ UNCHANGED <<replied, owner, seen>>

\* Bug: a request that is refused does not end the loop
BugNotRefused ==
  /\ ~replied /\ events # <<>>
  /\ events' = Tail(events)
  /\ replied' = (Head(events) = "text")
  /\ pastes' = IF Head(events) = "text" THEN pastes + 1 ELSE pastes
  /\ refused' = IF Head(events) = "strange" THEN refused + 1 ELSE refused
  /\ UNCHANGED <<owner, seen>>

\* One round of the loop.  A request for TARGETS is answered and the loop goes on, as
\* it does after anything but a request, SelectionClear included.
NextEvent ==
  /\ ~replied /\ events # <<>>
  /\ events' = Tail(events)
  /\ replied' = (Head(events) \in {"text", "strange"})
  /\ pastes' = IF Head(events) = "text" THEN pastes + 1 ELSE pastes
  /\ refused' = IF Head(events) = "strange" THEN refused + 1 ELSE refused
  /\ UNCHANGED <<owner, seen>>

\* XCloseDisplay: what is still in the queue nobody answers
CloseDisplay ==
  /\ replied
  /\ events' = <<>> /\ owner' = FALSE
  /\ UNCHANGED <<replied, seen, pastes, refused>>
=============================================================================
