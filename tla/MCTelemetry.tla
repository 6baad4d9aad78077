----------------------------- MODULE MCTelemetry -----------------------------
(***************************************************************************)
(* Telemetry for TLC: more peers than slots, more ticks than the counter    *)
(* holds and more events than the queue holds, but not all at once.         *)
(***************************************************************************)
EXTENDS Telemetry

CONSTANT EventTicks   \* bound: the ticks of a behaviour with events

First == CHOOSE p \in Peer : TRUE

\* Bound: once an event was reported the clock stops at EventTicks, and no
\* other peer than the first has a slot or asks.
Bounded ==
  \/ reported' = 0
  \/ /\ clock' <= EventTicks
     /\ {clients'[i].peer : i \in Slots} \cup {discovery'} \subseteq {First, NoPeer}

MCSpec == Init /\ [][Next /\ Bounded]_vars /\ WF_vars(TaskStep)
=============================================================================
