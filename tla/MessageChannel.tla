---------------------------- MODULE MessageChannel ----------------------------
(***************************************************************************)
(* What imsg promises of one direction of a connection: whole messages, in *)
(* the order they were composed in, each once.  Only when the connection   *)
(* is no longer up may messages be lost, and then those composed last.     *)
(***************************************************************************)
EXTENDS Naturals, Sequences, SequencesExt

CONSTANT Messages

VARIABLES queue,  \* the messages composed and not yet taken
          up      \* both ends serve the connection

channel == <<queue, up>>

Init == queue = <<>> /\ up = TRUE

Put ==
  /\ Len(queue') = Len(queue) + 1
  /\ IsPrefix(queue, queue') /\ Last(queue') \in Messages
  /\ UNCHANGED up

Take == queue # <<>> /\ queue' = Tail(queue) /\ UNCHANGED up

Break == up' = FALSE /\ IsPrefix(queue', queue)

Next == Put \/ Take \/ Break

Spec == Init /\ [][Next]_channel
=============================================================================
