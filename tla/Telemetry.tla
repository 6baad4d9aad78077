------------------------------ MODULE Telemetry ------------------------------
(***************************************************************************)
(* Telemetry (software/application/dashboard.c): the tasks of the miner      *)
(* count and queue their events (telemetry_detail), and the telemetry task   *)
(* (broadcast_task) takes subscriptions, and sends events and a periodic     *)
(* status to the subscribers.                                                *)
(*                                                                           *)
(* The code keeps times as ticks modulo TickMod; clock and the history       *)
(* fields are the same times without the wrap.                               *)
(***************************************************************************)
EXTENDS Integers, Sequences, FiniteSets

CONSTANTS Peer,       \* addresses and ports of clients
          NumSlots,   \* clients[4]
          Expire,     \* ticks of a subscription (5000 ms)
          Period,     \* ticks between two status packets (1000 ms)
          TickMod,    \* modulus of TickType_t
          MaxStall,   \* bound: ticks an iteration of broadcast_task takes
          MaxTicks,   \* bound: ticks
          QueueLen,   \* length of the events queue (32)
          Producer,   \* tasks that report events
          MaxEvents,  \* bound: events reported
          NoPeer      \* a slot that is not used, a packet without a request

ASSUME TelemetryAssumption ==
  /\ NoPeer \notin Peer
  /\ {NumSlots, Expire, Period, TickMod, MaxStall, MaxTicks, QueueLen} \subseteq Nat \ {0}
  /\ MaxEvents \in Nat
  /\ Expire + Period + 2 * MaxStall < TickMod

VARIABLES clock,      \* ticks since boot
          clients,    \* clients: peer, last, and since, the tick behind last
          pc,         \* where broadcast_task is
          now,        \* now, and the clock behind it
          discovery,  \* the peer of a discovery request, or NoPeer
          event,      \* the event taken from the queue, or "status"
          lastStatus, \* last_status
          snapshot,   \* snapshot.submitted
          eventSeq,   \* event_seq
          served      \* history: solution_submitted events taken from the queue
taskVars == <<clients, pc, now, discovery, event, lastStatus, snapshot, eventSeq, served>>

VARIABLES producer,   \* per task: the step of telemetry_detail and its event
          queue,      \* events
          submitted,  \* stats.submitted
          dropped,    \* stats.dropped
          reported    \* history: calls of telemetry_detail
eventVars == <<producer, queue, submitted, dropped, reported>>

vars == <<clock, taskVars, eventVars>>

Slots == 1 .. NumSlots
Event == {"solution_submitted", "other"}
Tick == clock % TickMod

\* Unsigned difference of two tick counts.
Since(last) == (now.tick - last) % TickMod

Unused == [peer |-> NoPeer, last |-> 0, since |-> 0]
Quiet == [step |-> "idle", event |-> "other"]

Init ==
  /\ clock = 0
  /\ clients = [i \in Slots |-> Unused]
  /\ pc = "recv"
  /\ now = [tick |-> 0, at |-> 0]
  /\ discovery = NoPeer
  /\ event = "status"
  /\ lastStatus = 0
  /\ snapshot = 0 /\ eventSeq = 0 /\ served = 0
  /\ producer = [p \in Producer |-> Quiet]
  /\ queue = <<>>
  /\ submitted = 0 /\ dropped = 0 /\ reported = 0

\* Time passes.  The task's recvfrom waits 100 ms, so an iteration is short.
TickInterrupt ==
  /\ clock < MaxTicks
  /\ clock - now.at < MaxStall
  /\ clock' = clock + 1
  /\ UNCHANGED <<taskVars, eventVars>>
-----------------------------------------------------------------------------
(* telemetry_detail, called by any task.                                    *)

\* The first critical section: the counters.
Count(p, e) ==
  /\ producer[p].step = "idle"
  /\ reported < MaxEvents
  /\ reported' = reported + 1
  /\ submitted' = IF e = "solution_submitted" THEN submitted + 1 ELSE submitted
  /\ producer' = [producer EXCEPT ![p] = [step |-> "queue", event |-> e]]
  /\ UNCHANGED <<clock, taskVars, queue, dropped>>

\* Faulty variant: an event that does not fit is not noted.
EnqueueSilent(p) ==
  /\ producer[p].step = "queue"
  /\ producer' = [producer EXCEPT ![p] = Quiet]
  /\ queue' = IF Len(queue) < QueueLen THEN Append(queue, producer[p].event) ELSE queue
  /\ UNCHANGED <<clock, taskVars, submitted, dropped, reported>>

\* xQueueSend without waiting.
Enqueue(p) ==
  /\ producer[p].step = "queue"
  /\ IF Len(queue) < QueueLen
     THEN /\ queue' = Append(queue, producer[p].event)
          /\ producer' = [producer EXCEPT ![p] = Quiet]
     ELSE /\ producer' = [producer EXCEPT ![p].step = "drop"]
          /\ UNCHANGED queue
  /\ UNCHANGED <<clock, taskVars, submitted, dropped, reported>>

\* The second critical section.
Drop(p) ==
  /\ producer[p].step = "drop"
  /\ dropped' = dropped + 1
  /\ producer' = [producer EXCEPT ![p] = Quiet]
  /\ UNCHANGED <<clock, taskVars, queue, submitted, reported>>
-----------------------------------------------------------------------------
(* broadcast_task.                                                          *)

\* The slot search of SCU35_SUBSCRIBE/1: the slot of the peer, or the last one
\* that is unused or expired, or none.  t is the new value of now.
Matching(p) == {i \in Slots : clients[i].peer = p}
Free(t) == {i \in Slots : clients[i].peer = NoPeer \/ (t - clients[i].last) % TickMod > Expire}

\* Faulty variant: when no slot is free, the last one is taken.
SubscribeEvicting(p, t) ==
  LET usable == IF Matching(p) # {} THEN Matching(p)
                ELSE IF Free(t) # {} THEN Free(t) ELSE {NumSlots}
  IN  [clients EXCEPT ![CHOOSE i \in usable : \A j \in usable : i >= j] =
         [peer |-> p, last |-> t, since |-> clock]]

Subscribe(p, t) ==
  LET usable == IF Matching(p) # {} THEN Matching(p) ELSE Free(t)
  IN  IF usable = {} THEN clients
      ELSE [clients EXCEPT ![CHOOSE i \in usable : \A j \in usable : i >= j] =
              [peer |-> p, last |-> t, since |-> clock]]

\* recvfrom times out, or returns a request of some peer.
Receive ==
  /\ pc = "recv"
  /\ now' = [tick |-> Tick, at |-> clock]
  /\ \/ discovery' = NoPeer /\ UNCHANGED clients
     \/ discovery' \in Peer /\ UNCHANGED clients
     \/ discovery' = NoPeer /\ \E p \in Peer : clients' = Subscribe(p, Tick)
  /\ pc' = "queue"
  /\ UNCHANGED <<clock, event, lastStatus, snapshot, eventSeq, served, eventVars>>

\* Faulty variant: the queue waits while there are discovery requests.
WaitingUnlessAsked == queue # <<>> /\ discovery = NoPeer

Waiting == queue # <<>>

\* xQueueReceive without waiting; without an event, a request or a status that
\* is due the iteration ends.
Dequeue ==
  /\ pc = "queue"
  /\ IF Waiting
     THEN /\ event' = Head(queue)
          /\ queue' = Tail(queue)
          /\ eventSeq' = eventSeq + 1
          /\ served' = served + IF Head(queue) = "solution_submitted" THEN 1 ELSE 0
     ELSE /\ event' = "status"
          /\ UNCHANGED <<queue, eventSeq, served>>
  /\ IF discovery = NoPeer /\ ~Waiting /\ Since(lastStatus) < Period
     THEN pc' = "recv" /\ UNCHANGED lastStatus
     ELSE pc' = "snapshot" /\ lastStatus' = now.tick
  /\ UNCHANGED <<clock, clients, now, discovery, snapshot, producer, submitted, dropped, reported>>

\* Faulty variant: an event goes out with the counters of the last status.
SnapshotReused ==
  /\ pc = "snapshot"
  /\ snapshot' = IF event = "status" THEN submitted ELSE snapshot
  /\ pc' = "send"
  /\ UNCHANGED <<clock, clients, now, discovery, event, lastStatus, eventSeq, served,
                 eventVars>>

\* The critical section that copies stats.
Snapshot ==
  /\ pc = "snapshot"
  /\ snapshot' = submitted
  /\ pc' = "send"
  /\ UNCHANGED <<clock, clients, now, discovery, event, lastStatus, eventSeq, served,
                 eventVars>>

\* The clients a packet is sent to; the others are forgotten.
Recipients == {i \in Slots : clients[i].peer # NoPeer /\ Since(clients[i].last) <= Expire}

\* Faulty variant: expired clients are skipped but not forgotten.
SendKeeping ==
  /\ pc = "send"
  /\ pc' = "recv"
  /\ UNCHANGED <<clock, clients, now, discovery, event, lastStatus, snapshot, eventSeq,
                 served, eventVars>>

\* The packet, in one part or two, is sent to a discovering peer and to the
\* clients.  The longest texts fit in the buffer and, split, in a datagram: no
\* pass and no part is skipped.
Send ==
  /\ pc = "send"
  /\ clients' = [i \in Slots |-> IF i \in Recipients THEN clients[i] ELSE Unused]
  /\ pc' = "recv"
  /\ UNCHANGED <<clock, now, discovery, event, lastStatus, snapshot, eventSeq, served,
                 eventVars>>

TaskStep == Receive \/ Dequeue \/ Snapshot \/ Send

Next ==
  \/ TickInterrupt
  \/ \E p \in Producer : (\E e \in Event : Count(p, e)) \/ Enqueue(p) \/ Drop(p)
  \/ TaskStep

\* The task runs: recvfrom has a timeout and no other call blocks.
Spec == Init /\ [][Next]_vars /\ WF_vars(TaskStep)
-----------------------------------------------------------------------------
(* Properties.                                                              *)

\* Age of the subscription in slot i, in ticks of real time.
Age(i, t) == t - clients[i].since

\* "Renew every two seconds; subscriptions expire after five seconds"
\* (doc/protocol.md:9-10): a subscriber keeps its slot while its subscription
\* lasts, whoever else asks for one.
SubscriberKept ==
  [][\A i \in Slots : clients[i].peer # NoPeer /\ Age(i, clock) <= Expire =>
       clients'[i].peer = clients[i].peer]_vars

\* A packet goes once to each subscriber whose last renewal is not too old and to
\* no other, also when the tick counter wraps between the renewal and the packet
\* and when a renewal finds an earlier slot free (dashboard.c:83-87, 126-129).
SentToLiving ==
  pc = "send" =>
    /\ \A i \in Slots : clients[i].peer # NoPeer => (i \in Recipients <=> Age(i, now.at) <= Expire)
    /\ \A i, j \in Recipients : clients[i].peer = clients[j].peer => i = j

\* "The counters make missed events visible" (doc/protocol.md:27-28): a packet
\* never has a counter that is behind the events sent so far.
CountersLead == pc = "send" => snapshot >= served

\* No event disappears uncounted: it was sent, is queued, was counted as
\* dropped, or its reporter is still in telemetry_detail (dashboard.c:26-41).
EventsAccounted ==
  reported = eventSeq + Len(queue) + dropped
               + Cardinality({p \in Producer : producer[p].step # "idle"})

\* A queued event is sent: it does not wait for requests or status packets
\* (dashboard.c:99-101).
EventsServed == \A n \in 1 .. MaxEvents : eventSeq + Len(queue) >= n ~> eventSeq >= n
=============================================================================
