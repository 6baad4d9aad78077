--------------------------- MODULE DashboardProof ---------------------------
(***************************************************************************)
(* The two tasks of dashboard.c, which share no state here.  The settings in *)
(* use, for any pools and passwords and any number of saves and reboots: a  *)
(* session never runs on torn or superseded settings unnoticed, and a reply *)
(* tells the truth about the EEPROM.  Telemetry, for any numbers of tasks,  *)
(* events, subscribers, slots and ticks: no event is lost uncounted, no     *)
(* packet has a counter behind its events, and a subscription lasts exactly *)
(* its time, wherever the tick counter wraps.                               *)
(***************************************************************************)
EXTENDS ConfigService, Telemetry, FiniteSetTheorems, WellFoundedInduction, TLAPS

(* The configuration service.                                               *)

\* The steps of configure and config_reply between taking and giving the lock,
\* and those of stratum_task.
Saving == {"save", "pool", "password", "count"}
ConfigLocked == {"load", "parse", "give"} \cup Saving
StratumLocked == {"pool", "password", "count", "give"}

ConfigType ==
  /\ {stored, settled, saving} \subseteq Settings \cup {None}
  /\ settings \in Settings /\ session \in Settings
  /\ generation \in Nat /\ sessionGen \in Nat
  /\ lock \in {"free", "config", "stratum"}
  /\ cpc \in {"accept", "lock", "reply"} \cup ConfigLocked
  /\ spc \in {"take", "connect", "session"} \cup StratumLocked

\* settings_lock excludes the two tasks from each other.
Exclusive ==
  /\ lock = "config" <=> cpc \in ConfigLocked
  /\ lock = "stratum" <=> spc \in StratumLocked

\* How far the copy of the Stratum task has got, and what it is worth later.
\* configure changes the settings first and counts the generation last: the
\* copy of a session agrees with the settings while its generation does, but
\* for the steps between.
CopyInvariant ==
  /\ sessionGen <= generation
  /\ spc \in {"password", "count", "give"} => session.pool = settings.pool
  /\ spc \in {"count", "give"} => session.password = settings.password
  /\ spc = "give" => sessionGen = generation
  /\ /\ spc \in {"connect", "session"}
     /\ sessionGen = generation
     /\ cpc \notin {"password", "count"}
     => session = settings

\* What configure knows of its request while it saves.
RequestInvariant ==
  /\ cpc = "lock" => request \in Request /\ request.kind # "malformed"
  /\ cpc \in {"parse"} \cup Saving => request \in Configure
  /\ cpc \in Saving => /\ next \in Settings
                       /\ next.pool = request.pool
                       /\ request.password # Omitted => next.password = request.password
  /\ cpc = "save" => saving = next
  /\ cpc \in {"pool", "password", "count"} => stored = next
  /\ cpc \notin {"give", "reply"} => reply = "none"
  /\ ReplyTruthful

ConfigInvariant == ConfigType /\ Exclusive /\ CopyInvariant /\ RequestInvariant
-----------------------------------------------------------------------------
\* settings_defaults returns settings like any others.
LEMMA DefaultSettings == Default \in Settings
  BY DEF Default, Settings

\* Power-on, with an EEPROM that holds settings or none.
LEMMA InitInvariant == ConfigInit => ConfigInvariant
  BY DefaultSettings
     DEF ConfigInit, Store!Init, ConfigInvariant, ConfigType, Exclusive, CopyInvariant,
         RequestInvariant, ReplyTruthful, Saving, ConfigLocked, StratumLocked

\* A reboot, wherever it comes.
LEMMA RebootKeeps ==
  ASSUME ConfigInvariant, Reboot
  PROVE  ConfigInvariant'
  <1>1. Loaded \in Settings
    BY DefaultSettings DEF ConfigInvariant, ConfigType, Loaded
  <1> QED
    BY <1>1, DefaultSettings
       DEF ConfigInvariant, ConfigType, Exclusive, CopyInvariant, RequestInvariant, ReplyTruthful,
           Saving, ConfigLocked, StratumLocked, Reboot, TasksStart, Store!PowerCut

\* The configuration task: one case per step.
LEMMA ConfigKeeps ==
  ASSUME ConfigInvariant, Accept \/ ConfigStep
  PROVE  ConfigInvariant'
  <1> USE DEF ConfigInvariant, ConfigType, Exclusive, CopyInvariant, RequestInvariant, ReplyTruthful,
              Saving, ConfigLocked, StratumLocked, storeVars, ramVars, replyVars, stratumVars
  <1>1. CASE Accept
    BY <1>1 DEF Accept
  <1>2. CASE ConfigTake
    BY <1>2 DEF ConfigTake, Request
  <1>3. CASE LoadForReply
    BY <1>3 DEF LoadForReply
  <1>4. CASE Parse
    <2>1. CASE reply' = "error" /\ cpc' = "give" /\ UNCHANGED <<storeVars, next>>
      BY <1>4, <2>1 DEF Parse
    <2>2. CASE cpc' = "save" /\ UNCHANGED reply
      <3>1. next' \in Settings
        BY <1>4, <2>2 DEF Parse, Configure, Settings
      <3> QED
        BY <1>4, <2>2, <3>1 DEF Parse, Store!Begin
    <2> QED
      BY <1>4, <2>1, <2>2 DEF Parse
  <1>5. CASE SaveWrites
    BY <1>5 DEF SaveWrites, Store!Write, configVars
  <1>6. CASE SaveSucceeds
    BY <1>6 DEF SaveSucceeds, Store!Succeed
  <1>7. CASE SaveFails
    BY <1>7 DEF SaveFails, Store!Fail
  <1>8. CASE CopyPool
    BY <1>8 DEF CopyPool, Settings
  <1>9. CASE CopyPassword
    BY <1>9 DEF CopyPassword, Settings
  <1>10. CASE CountGeneration
    BY <1>10 DEF CountGeneration
  <1>11. CASE ConfigGive
    BY <1>11 DEF ConfigGive
  <1>12. CASE Reply
    BY <1>12 DEF Reply
  <1> QED
    BY <1>1, <1>2, <1>3, <1>4, <1>5, <1>6, <1>7, <1>8, <1>9, <1>10, <1>11, <1>12 DEF ConfigStep

\* The Stratum task: one case per step.
LEMMA StratumKeeps ==
  ASSUME ConfigInvariant, StratumStep \/ SessionLost
  PROVE  ConfigInvariant'
  <1> USE DEF ConfigInvariant, ConfigType, Exclusive, CopyInvariant, RequestInvariant, ReplyTruthful,
              Saving, ConfigLocked, StratumLocked, storeVars, ramVars, replyVars, configVars
  <1>1. CASE StratumTake
    BY <1>1 DEF StratumTake
  <1>2. CASE SessionPool
    BY <1>2 DEF SessionPool, Settings
  <1>3. CASE SessionPassword
    BY <1>3 DEF SessionPassword, Settings
  <1>4. CASE SessionGeneration
    BY <1>4 DEF SessionGeneration
  <1>5. CASE StratumGive
    <2>1. session = settings
      BY <1>5 DEF StratumGive, Settings
    <2> QED
      BY <1>5, <2>1 DEF StratumGive
  <1>6. CASE Connect
    BY <1>6 DEF Connect
  <1>7. CASE SessionSuperseded
    BY <1>7 DEF SessionSuperseded
  <1>8. CASE SessionLost
    BY <1>8 DEF SessionLost
  <1> QED
    BY <1>1, <1>2, <1>3, <1>4, <1>5, <1>6, <1>7, <1>8 DEF StratumStep

\* Every step, of either task or a reboot, keeps the invariant.
LEMMA StepKeepsConfig ==
  ASSUME ConfigInvariant, [ConfigNext]_serviceVars
  PROVE  ConfigInvariant'
  <1>1. CASE ConfigNext
    BY <1>1, RebootKeeps, ConfigKeeps, StratumKeeps DEF ConfigNext
  <1>2. CASE UNCHANGED serviceVars
    BY <1>2 DEF serviceVars, storeVars, ramVars, configVars, replyVars, stratumVars, ConfigInvariant,
                ConfigType, Exclusive, CopyInvariant, RequestInvariant, ReplyTruthful
  <1> QED
    BY <1>1, <1>2

\* The invariant holds in every reachable state.
LEMMA ConfigInvariantHolds == ConfigSpec => []ConfigInvariant
  BY InitInvariant, StepKeepsConfig, PTL DEF ConfigSpec
-----------------------------------------------------------------------------
\* A session whose generation is the current one has the settings that are in
\* force, wherever the two tasks preempt each other.
THEOREM CopiesCoherent == ConfigSpec => []SessionCoherent
  <1>1. ConfigInvariant => SessionCoherent
    BY DEF ConfigInvariant, Exclusive, CopyInvariant, SessionCoherent, Saving, ConfigLocked
  <1> QED
    BY <1>1, ConfigInvariantHolds, PTL

\* "saved" is said only of settings that are in the EEPROM with the fields of
\* the request, and get_settings returns what is there.
THEOREM RepliesTruthful == ConfigSpec => []ReplyTruthful
  <1>1. ConfigInvariant => ReplyTruthful
    BY DEF ConfigInvariant, RequestInvariant
  <1> QED
    BY <1>1, ConfigInvariantHolds, PTL

-----------------------------------------------------------------------------
(* Telemetry.                                                               *)

\* The sizes of things.
LEMMA Sizes ==
  /\ NumSlots \in Nat \ {0} /\ Expire \in Nat \ {0} /\ Period \in Nat \ {0}
  /\ TickMod \in Nat \ {0} /\ MaxStall \in Nat \ {0} /\ QueueLen \in Nat \ {0}
  /\ Expire + Period + 2 * MaxStall < TickMod
  BY TelemetryAssumption, Zenon

\* A set of slots has a last one.
LEMMA Greatest ==
  ASSUME NEW n \in Nat, NEW S, S \subseteq 1 .. n, S # {}
  PROVE  \E j \in S : \A l \in S : j >= l
  <1> DEFINE R == OpToRel(<, Nat)
             T == {n - i : i \in S}
  <1>1. IsWellFoundedOn(R, Nat)
    BY NatLessThanWellFounded
  <1>2. \A x, y \in Nat : y < x => <<y, x>> \in R
    BY DEF OpToRel
  <1>3. T # {} /\ T \subseteq Nat
    <2>1. \A i \in S : n - i \in Nat
      OBVIOUS
    <2> QED
      BY <2>1
  <1>4. PICK t \in T : \A u \in T : <<u, t>> \notin R
    <2> HIDE DEF R, T
    <2> QED
      BY <1>1, <1>3, WFMin
  <1>5. PICK j \in S : t = n - j
    OBVIOUS
  <1>6. \A l \in S : n - l \in Nat /\ ~(n - l < n - j)
    <2> HIDE DEF R
    <2> QED
      BY <1>2, <1>3, <1>4, <1>5, Zenon
  <1>7. \A l \in S : j >= l
    BY <1>6
  <1> QED
    BY <1>7

TypeOK ==
  /\ clock \in Nat
  /\ clients \in [Slots -> [peer : Peer \cup {NoPeer}, last : Nat, since : Nat]]
  /\ pc \in {"recv", "queue", "snapshot", "send"}
  /\ now \in [tick : Nat, at : Nat] /\ lastStatus \in Nat
  /\ producer \in [Producer -> [step : {"idle", "queue", "drop"}, event : Event]]
  /\ queue \in Seq(Event)
  /\ submitted \in Nat /\ dropped \in Nat /\ reported \in Nat
  /\ snapshot \in Nat /\ eventSeq \in Nat /\ served \in Nat

\* What a subscription does to the slots: nothing, or one of them gets the peer.
LEMMA SubscribedSlot ==
  ASSUME NEW p, NEW t, Subscribe(p, t) # clients
  PROVE  \E i \in Slots :
           /\ Subscribe(p, t) = [clients EXCEPT ![i] = [peer |-> p, last |-> t, since |-> clock]]
           /\ \/ clients[i].peer = p
              \/ Matching(p) = {} /\ i \in Free(t)
  <1> DEFINE usable == IF Matching(p) # {} THEN Matching(p) ELSE Free(t)
             i == CHOOSE i \in usable : \A j \in usable : i >= j
  <1>1. usable # {} /\ Subscribe(p, t) = [clients EXCEPT ![i] = [peer |-> p, last |-> t, since |-> clock]]
    BY Zenon DEF Subscribe
  <1>2. usable \subseteq Slots
    BY DEF Matching, Free
  <1>3. i \in usable
    BY <1>1, <1>2, Greatest, Sizes DEF Slots
  <1>4. clients[i].peer = p \/ (Matching(p) = {} /\ i \in Free(t))
    <2> HIDE DEF i
    <2>1. CASE Matching(p) # {}
      BY <1>3, <2>1 DEF Matching
    <2>2. CASE Matching(p) = {}
      BY <1>3, <2>2
    <2> QED
      BY <2>1, <2>2
  <1> HIDE DEF i
  <1> QED
    BY <1>1, <1>2, <1>3, <1>4, Zenon

\* Types.
LEMMA TypeStep == TypeOK /\ [Next]_vars => TypeOK'
  <1> SUFFICES ASSUME TypeOK, [Next]_vars
               PROVE  TypeOK'
    OBVIOUS
  <1> USE DEF TypeOK, taskVars, eventVars
  <1>1. CASE TickInterrupt
    BY <1>1 DEF TickInterrupt
  <1>2. ASSUME NEW p \in Producer, NEW e \in Event, Count(p, e)
        PROVE  TypeOK'
    BY <1>2 DEF Count
  <1>3. ASSUME NEW p \in Producer, Enqueue(p)
        PROVE  TypeOK'
    <2>1. producer[p].event \in Event /\ Quiet \in [step : {"idle", "queue", "drop"}, event : Event]
      BY DEF Quiet, Event
    <2>2. queue' \in Seq(Event)
      <3>1. queue' = queue \/ queue' = Append(queue, producer[p].event)
        BY <1>3, Zenon DEF Enqueue
      <3>2. \A q \in Seq(Event), e \in Event : Append(q, e) \in Seq(Event)
        OBVIOUS
      <3> QED
        BY <2>1, <3>1, <3>2, Zenon
    <2>3. producer' \in [Producer -> [step : {"idle", "queue", "drop"}, event : Event]]
      <3>1. \/ producer' = [producer EXCEPT ![p] = Quiet]
            \/ producer' = [producer EXCEPT ![p].step = "drop"]
        BY <1>3, Zenon DEF Enqueue
      <3>2. CASE producer' = [producer EXCEPT ![p] = Quiet]
        BY <2>1, <3>2
      <3>3. CASE producer' = [producer EXCEPT ![p].step = "drop"]
        BY <3>3
      <3> QED
        BY <3>1, <3>2, <3>3, Zenon
    <2> QED
      BY <1>3, <2>2, <2>3, Zenon DEF Enqueue
  <1>4. ASSUME NEW p \in Producer, Drop(p)
        PROVE  TypeOK'
    BY <1>4 DEF Drop, Quiet, Event
  <1>5. CASE Receive
    <2>1. Tick \in Nat
      BY Sizes DEF Tick
    <2>2. now' \in [tick : Nat, at : Nat] /\ pc' = "queue"
      BY <1>5, <2>1 DEF Receive
    <2>3. ASSUME NEW p \in Peer
          PROVE  Subscribe(p, Tick) \in [Slots -> [peer : Peer \cup {NoPeer}, last : Nat, since : Nat]]
      <3>1. CASE Subscribe(p, Tick) = clients
        BY <3>1
      <3>2. CASE Subscribe(p, Tick) # clients
        <4>1. PICK i \in Slots : Subscribe(p, Tick) =
                 [clients EXCEPT ![i] = [peer |-> p, last |-> Tick, since |-> clock]]
          BY <3>2, SubscribedSlot, Zenon
        <4> QED
          BY <2>1, <4>1
      <3> QED
        BY <3>1, <3>2
    <2>4. clients' \in [Slots -> [peer : Peer \cup {NoPeer}, last : Nat, since : Nat]]
      BY <1>5, <2>3, ZenonT(40) DEF Receive
    <2> QED
      BY <1>5, <2>2, <2>4, Zenon DEF Receive
  <1>6. CASE Dequeue
    <2>1. served' \in Nat /\ eventSeq' \in Nat /\ queue' \in Seq(Event)
      <3>1. \A q \in Seq(Event) : q # <<>> => Tail(q) \in Seq(Event)
        OBVIOUS
      <3>2. queue' \in Seq(Event)
        BY <1>6, <3>1, Zenon DEF Dequeue, Waiting
      <3>3. served' \in Nat /\ eventSeq' \in Nat
        BY <1>6 DEF Dequeue
      <3> QED
        BY <3>2, <3>3
    <2> QED
      BY <1>6, <2>1 DEF Dequeue
  <1>7. CASE Snapshot
    BY <1>7 DEF Snapshot
  <1>8. CASE Send
    BY <1>8 DEF Send, Unused
  <1>9. CASE UNCHANGED vars
    BY <1>9 DEF vars
  <1> QED
    BY <1>1, <1>2, <1>3, <1>4, <1>5, <1>6, <1>7, <1>8, <1>9, Zenon DEF Next, TaskStep

\* The types hold in every reachable state.
LEMMA TypesHold == Spec => []TypeOK
  <1>1. Init => TypeOK
    BY DEF Init, TypeOK, Unused, Quiet, Event
  <1> QED
    BY <1>1, TypeStep, PTL DEF Spec
-----------------------------------------------------------------------------
(* Events.                                                                  *)

\* The tasks in telemetry_detail; those of them that report a solution they
\* have counted and not queued; and the numbers of the solutions in the queue,
\* counted from the first event of all.
Reporting == {p \in Producer : producer[p].step # "idle"}
Counted == {p \in Producer : producer[p].step = "queue" /\ producer[p].event = "solution_submitted"}
Queued == {eventSeq + i : i \in {i \in DOMAIN queue : queue[i] = "solution_submitted"}}

\* A solution is counted before it is queued, so the counter covers what was
\* served, what is queued and what is about to be.
EventInvariant ==
  /\ IsFiniteSet(Reporting) /\ IsFiniteSet(Counted) /\ IsFiniteSet(Queued)
  /\ submitted >= served + Cardinality(Queued) + Cardinality(Counted)
  /\ CountersLead /\ EventsAccounted

\* An event more at the end of the queue, and one less at its head.
LEMMA QueuedAfterSend ==
  ASSUME TypeOK, NEW e \in Event, queue' = Append(queue, e), UNCHANGED eventSeq
  PROVE  LET n == eventSeq + Len(queue) + 1
         IN  /\ n \notin Queued
             /\ Queued' = IF e = "solution_submitted" THEN Queued \cup {n} ELSE Queued
  <1>1. /\ DOMAIN queue = 1 .. Len(queue) /\ Len(queue) \in Nat /\ eventSeq \in Nat
        /\ DOMAIN queue' = 1 .. Len(queue) + 1
        /\ \A i \in 1 .. Len(queue) : queue'[i] = queue[i]
        /\ queue'[Len(queue) + 1] = e
    BY DEF TypeOK
  <1>2. eventSeq + Len(queue) + 1 \notin Queued
    BY <1>1 DEF Queued
  <1>3. DOMAIN queue' = DOMAIN queue \cup {Len(queue) + 1} /\ Len(queue) + 1 \notin DOMAIN queue
    BY <1>1
  <1>4. CASE e = "solution_submitted"
    BY <1>1, <1>2, <1>3, <1>4, SMTT(30) DEF Queued
  <1>5. CASE e # "solution_submitted"
    BY <1>1, <1>2, <1>3, <1>5 DEF Queued
  <1> QED
    BY <1>2, <1>4, <1>5

LEMMA QueuedAfterReceive ==
  ASSUME TypeOK, queue # <<>>, queue' = Tail(queue), eventSeq' = eventSeq + 1
  PROVE  /\ Queued' = Queued \ {eventSeq + 1}
         /\ eventSeq + 1 \in Queued <=> Head(queue) = "solution_submitted"
  <1>1. /\ DOMAIN queue = 1 .. Len(queue) /\ Len(queue) \in Nat \ {0} /\ eventSeq \in Nat
        /\ Head(queue) = queue[1]
        /\ DOMAIN queue' = 1 .. Len(queue) - 1
        /\ \A i \in 1 .. Len(queue) - 1 : i + 1 \in 2 .. Len(queue) /\ queue'[i] = queue[i + 1]
        /\ \A i \in 2 .. Len(queue) : i - 1 \in 1 .. Len(queue) - 1 /\ queue'[i - 1] = queue[i]
    BY DEF TypeOK
  <1>2. eventSeq + 1 \in Queued <=> Head(queue) = "solution_submitted"
    BY <1>1 DEF Queued
  <1>3. ASSUME NEW n \in Queued, n # eventSeq + 1
        PROVE  n \in Queued'
    <2>1. PICK i \in DOMAIN queue : n = eventSeq + i /\ queue[i] = "solution_submitted"
      BY DEF Queued
    <2>2. i \in 2 .. Len(queue)
      BY <1>1, <1>3, <2>1
    <2>3. n = eventSeq' + (i - 1) /\ i - 1 \in DOMAIN queue' /\ queue'[i - 1] = "solution_submitted"
      BY <1>1, <2>1, <2>2
    <2> QED
      BY <2>3 DEF Queued
  <1>4. ASSUME NEW n \in Queued'
        PROVE  n \in Queued /\ n # eventSeq + 1
    <2>1. PICK i \in DOMAIN queue' : n = eventSeq' + i /\ queue'[i] = "solution_submitted"
      BY DEF Queued
    <2>2. n = eventSeq + (i + 1) /\ i + 1 \in DOMAIN queue /\ queue[i + 1] = "solution_submitted"
      BY <1>1, <2>1
    <2>3. n # eventSeq + 1
      BY <1>1, <2>1
    <2> QED
      BY <2>2, <2>3 DEF Queued
  <1> QED
    BY <1>2, <1>3, <1>4

\* telemetry_detail's first critical section.
LEMMA CountKeepsEvents ==
  ASSUME TypeOK, EventInvariant, NEW p \in Producer, NEW e \in Event, Count(p, e)
  PROVE  EventInvariant'
  <1>1. /\ producer[p].step = "idle" /\ producer' = [producer EXCEPT ![p] = [step |-> "queue", event |-> e]]
        /\ reported' = reported + 1
        /\ submitted' = IF e = "solution_submitted" THEN submitted + 1 ELSE submitted
        /\ UNCHANGED <<queue, dropped, eventSeq, served, pc, snapshot>>
    BY Zenon DEF Count, taskVars
  <1>2. Reporting' = Reporting \cup {p} /\ p \notin Reporting
    BY <1>1 DEF Reporting, TypeOK
  <1>3. Counted' = (IF e = "solution_submitted" THEN Counted \cup {p} ELSE Counted) /\ p \notin Counted
    BY <1>1 DEF Counted, TypeOK
  <1>4. Queued' = Queued
    BY <1>1 DEF Queued
  <1>5. IsFiniteSet(Reporting') /\ Cardinality(Reporting') = Cardinality(Reporting) + 1
    BY <1>2, FS_AddElement DEF EventInvariant
  <1>6. /\ IsFiniteSet(Counted')
        /\ Cardinality(Counted') =
             IF e = "solution_submitted" THEN Cardinality(Counted) + 1 ELSE Cardinality(Counted)
    BY <1>3, FS_AddElement DEF EventInvariant
  <1> QED
    <2>1. Cardinality(Reporting) \in Nat /\ Cardinality(Counted) \in Nat /\ Cardinality(Queued) \in Nat
      BY FS_CardinalityType DEF EventInvariant
    <2>2. submitted' >= served' + Cardinality(Queued') + Cardinality(Counted')
      BY <1>1, <1>4, <1>6, <2>1 DEF EventInvariant, TypeOK
    <2>3. EventsAccounted'
      BY <1>1, <1>5, <2>1 DEF EventInvariant, EventsAccounted, Reporting, TypeOK
    <2> QED
      BY <1>1, <1>4, <1>5, <1>6, <2>2, <2>3, Zenon DEF EventInvariant, CountersLead

\* xQueueSend: a solution moves from its reporter into the queue, or the event
\* is to be dropped.
LEMMA EnqueueKeepsEvents ==
  ASSUME TypeOK, EventInvariant, NEW p \in Producer, Enqueue(p)
  PROVE  EventInvariant'
  <1>1. /\ producer[p].step = "queue" /\ producer[p].event \in Event
        /\ UNCHANGED <<submitted, dropped, reported, eventSeq, served, pc, snapshot>>
    BY DEF Enqueue, taskVars, TypeOK
  <1>2. Cardinality(Reporting) \in Nat /\ Cardinality(Counted) \in Nat /\ Cardinality(Queued) \in Nat
    BY FS_CardinalityType DEF EventInvariant
  <1>3. Counted' = Counted \ {p} /\ (p \in Counted <=> producer[p].event = "solution_submitted")
    BY DEF Enqueue, Counted, TypeOK, Quiet
  <1>4. /\ IsFiniteSet(Counted')
        /\ Cardinality(Counted') =
             Cardinality(Counted) - (IF producer[p].event = "solution_submitted" THEN 1 ELSE 0)
    <2>1. /\ IsFiniteSet(Counted')
          /\ Cardinality(Counted') = IF p \in Counted THEN Cardinality(Counted) - 1
                                                      ELSE Cardinality(Counted)
      BY <1>3, FS_RemoveElement DEF EventInvariant
    <2> QED
      BY <1>2, <1>3, <2>1
  <1>5. CASE Len(queue) < QueueLen
    <2>1. queue' = Append(queue, producer[p].event) /\ producer' = [producer EXCEPT ![p] = Quiet]
      BY <1>5, Zenon DEF Enqueue
    <2>2. Reporting' = Reporting \ {p} /\ p \in Reporting
      BY <1>1, <2>1 DEF Reporting, Quiet, TypeOK
    <2>3. IsFiniteSet(Reporting') /\ Cardinality(Reporting') = Cardinality(Reporting) - 1
      BY <2>2, FS_RemoveElement DEF EventInvariant
    <2>4. PICK n : /\ n \notin Queued
                   /\ Queued' = IF producer[p].event = "solution_submitted" THEN Queued \cup {n} ELSE Queued
      BY <1>1, <2>1, QueuedAfterSend
    <2>5. /\ IsFiniteSet(Queued')
          /\ Cardinality(Queued') =
               Cardinality(Queued) + (IF producer[p].event = "solution_submitted" THEN 1 ELSE 0)
      <3>1. IsFiniteSet(Queued)
        BY Zenon DEF EventInvariant
      <3>2. CASE producer[p].event = "solution_submitted"
        BY <2>4, <3>1, <3>2, FS_AddElement
      <3>3. CASE producer[p].event # "solution_submitted"
        BY <1>2, <2>4, <3>1, <3>3
      <3> QED
        BY <3>2, <3>3
    <2>6. submitted' >= served' + Cardinality(Queued') + Cardinality(Counted')
      BY <1>1, <1>2, <1>4, <2>5 DEF EventInvariant, TypeOK
    <2>7. Len(queue') = Len(queue) + 1 /\ Len(queue) \in Nat
      BY <1>1, <2>1 DEF TypeOK
    <2>8. EventsAccounted'
      BY <1>1, <1>2, <2>3, <2>7 DEF EventInvariant, EventsAccounted, Reporting, TypeOK
    <2> QED
      BY <1>1, <1>4, <2>3, <2>5, <2>6, <2>8, Zenon DEF EventInvariant, CountersLead
  <1>6. CASE ~(Len(queue) < QueueLen)
    <2>1. queue' = queue /\ producer' = [producer EXCEPT ![p].step = "drop"]
      BY <1>6, Zenon DEF Enqueue
    <2>2. Reporting' = Reporting /\ Queued' = Queued
      BY <1>1, <2>1 DEF Reporting, Queued, TypeOK
    <2>3. submitted' >= served' + Cardinality(Queued') + Cardinality(Counted')
      BY <1>1, <1>2, <1>4, <2>2 DEF EventInvariant, TypeOK
    <2>4. EventsAccounted'
      BY <1>1, <2>1, <2>2 DEF EventInvariant, EventsAccounted, Reporting
    <2> QED
      BY <1>1, <1>4, <2>2, <2>3, <2>4, Zenon DEF EventInvariant, CountersLead
  <1> QED
    BY <1>5, <1>6

\* The second critical section.
LEMMA DropKeepsEvents ==
  ASSUME TypeOK, EventInvariant, NEW p \in Producer, Drop(p)
  PROVE  EventInvariant'
  <1>1. /\ producer[p].step = "drop" /\ producer' = [producer EXCEPT ![p] = Quiet]
        /\ dropped' = dropped + 1
        /\ UNCHANGED <<queue, submitted, reported, eventSeq, served, pc, snapshot>>
    BY Zenon DEF Drop, taskVars
  <1>2. Reporting' = Reporting \ {p} /\ p \in Reporting /\ Counted' = Counted /\ Queued' = Queued
    BY <1>1 DEF Reporting, Counted, Queued, Quiet, TypeOK
  <1>3. /\ IsFiniteSet(Reporting') /\ Cardinality(Reporting') = Cardinality(Reporting) - 1
        /\ Cardinality(Reporting) \in Nat
    BY <1>2, FS_RemoveElement, FS_CardinalityType DEF EventInvariant
  <1>4. Len(queue) \in Nat
    BY DEF TypeOK
  <1>5. EventsAccounted'
    BY <1>1, <1>3, <1>4 DEF EventInvariant, EventsAccounted, Reporting, TypeOK
  <1> QED
    BY <1>1, <1>2, <1>3, <1>5, Zenon DEF EventInvariant, CountersLead

\* xQueueReceive: a solution is served.
LEMMA DequeueKeepsEvents ==
  ASSUME TypeOK, EventInvariant, Dequeue
  PROVE  EventInvariant'
  <1>1. /\ pc' \in {"recv", "snapshot"}
        /\ UNCHANGED <<snapshot, producer, submitted, dropped, reported>>
    BY DEF Dequeue
  <1>2. Reporting' = Reporting /\ Counted' = Counted /\ CountersLead'
    BY <1>1 DEF Reporting, Counted, CountersLead
  <1>3. CASE Waiting
    <2>1. /\ queue # <<>> /\ queue' = Tail(queue) /\ eventSeq' = eventSeq + 1
          /\ served' = served + IF Head(queue) = "solution_submitted" THEN 1 ELSE 0
      BY <1>3, Zenon DEF Dequeue, Waiting
    <2>2. /\ Queued' = Queued \ {eventSeq + 1}
          /\ eventSeq + 1 \in Queued <=> Head(queue) = "solution_submitted"
      BY <2>1, QueuedAfterReceive
    <2>3. /\ Cardinality(Reporting) \in Nat /\ Cardinality(Counted) \in Nat
          /\ Cardinality(Queued) \in Nat
      BY FS_CardinalityType DEF EventInvariant
    <2>4. /\ IsFiniteSet(Queued')
          /\ Cardinality(Queued') = IF eventSeq + 1 \in Queued THEN Cardinality(Queued) - 1
                                                               ELSE Cardinality(Queued)
      BY <2>2, FS_RemoveElement DEF EventInvariant
    <2>5. served' + Cardinality(Queued') = served + Cardinality(Queued)
      BY <2>1, <2>2, <2>3, <2>4 DEF TypeOK
    <2>6. submitted' >= served' + Cardinality(Queued') + Cardinality(Counted')
      BY <1>1, <1>2, <2>5 DEF EventInvariant
    <2>7. Len(queue) \in Nat /\ Len(queue') = Len(queue) - 1
      BY <2>1 DEF TypeOK
    <2>8. EventsAccounted'
      BY <1>1, <1>2, <2>1, <2>3, <2>7 DEF EventInvariant, EventsAccounted, Reporting, TypeOK
    <2> QED
      BY <1>2, <2>4, <2>6, <2>8, Zenon DEF EventInvariant
  <1>4. CASE ~Waiting
    <2>1. UNCHANGED <<queue, eventSeq, served>>
      BY <1>4, Zenon DEF Dequeue
    <2>2. Queued' = Queued /\ EventsAccounted'
      BY <1>1, <2>1 DEF Queued, EventInvariant, EventsAccounted
    <2> QED
      BY <1>1, <1>2, <2>1, <2>2, Zenon DEF EventInvariant
  <1> QED
    BY <1>3, <1>4

LEMMA EventStep ==
  ASSUME TypeOK, EventInvariant, [Next]_vars
  PROVE  EventInvariant'
  <1>1. CASE Snapshot
    <2>1. UNCHANGED <<eventVars, eventSeq, served>> /\ snapshot' = submitted
      BY <1>1, Zenon DEF Snapshot
    <2>2. Reporting' = Reporting /\ Counted' = Counted /\ Queued' = Queued /\ EventsAccounted'
      BY <2>1 DEF Reporting, Counted, Queued, eventVars, EventInvariant, EventsAccounted
    <2>3. Cardinality(Counted) \in Nat /\ Cardinality(Queued) \in Nat
      BY FS_CardinalityType DEF EventInvariant
    <2>4. CountersLead'
      BY <2>1, <2>3 DEF CountersLead, EventInvariant, TypeOK, eventVars
    <2> QED
      BY <2>1, <2>2, <2>4, Zenon DEF EventInvariant, eventVars
  <1>2. CASE TickInterrupt \/ Receive \/ Send \/ UNCHANGED vars
    <2>1. UNCHANGED <<eventVars, eventSeq, served, snapshot>> /\ (pc' = "send" => pc = "send")
      BY <1>2 DEF TickInterrupt, Receive, Send, vars, taskVars
    <2>2. /\ Reporting' = Reporting /\ Counted' = Counted /\ Queued' = Queued
          /\ EventsAccounted' /\ CountersLead'
      BY <2>1 DEF Reporting, Counted, Queued, eventVars, EventInvariant, EventsAccounted, CountersLead
    <2> QED
      BY <2>1, <2>2, Zenon DEF EventInvariant, eventVars
  <1> QED
    BY <1>1, <1>2, CountKeepsEvents, EnqueueKeepsEvents, DropKeepsEvents, DequeueKeepsEvents, Zenon
    DEF Next, TaskStep

LEMMA EventsHold == Spec => []EventInvariant
  <1>1. Init => EventInvariant
    <2> SUFFICES ASSUME Init PROVE EventInvariant
      OBVIOUS
    <2>1. Reporting = {} /\ Counted = {} /\ Queued = {} /\ Len(queue) = 0
      BY DEF Init, Quiet, Reporting, Counted, Queued
    <2>2. IsFiniteSet({}) /\ Cardinality({}) = 0
      BY FS_EmptySet
    <2>3. CountersLead
      BY DEF Init, CountersLead
    <2>4. EventsAccounted
      <3>1. Cardinality({p \in Producer : producer[p].step # "idle"}) = 0
        BY <2>1, <2>2, Zenon DEF Reporting
      <3>2. reported = 0 /\ eventSeq = 0 /\ dropped = 0
        BY Zenon DEF Init
      <3> QED
        BY <2>1, <3>1, <3>2 DEF EventsAccounted
    <2> QED
      BY <2>1, <2>2, <2>3, <2>4 DEF Init, EventInvariant
  <1> QED
    BY <1>1, EventStep, TypesHold, PTL DEF Spec

\* For any tasks and any queue: no packet has a counter that is behind the
\* events sent so far (broadcast_task takes its snapshot after the event).
THEOREM CountersLeadEvents == Spec => []CountersLead
  <1>1. EventInvariant => CountersLead
    BY DEF EventInvariant
  <1> QED
    BY <1>1, EventsHold, PTL

\* For any tasks and any queue: every event reported was sent, is queued, was
\* counted as dropped, or is still in the hands of telemetry_detail.
THEOREM NoEventLost == Spec => []EventsAccounted
  <1>1. EventInvariant => EventsAccounted
    BY DEF EventInvariant
  <1> QED
    BY <1>1, EventsHold, PTL
-----------------------------------------------------------------------------
(* Subscriptions.                                                           *)

Subscribed == {i \in Slots : clients[i].peer # NoPeer}

\* t was the time of the last status.  A status is due a Period after the last,
\* a pass later at the latest, and forgets what has expired: no age of a
\* subscription reaches the modulus of the tick counter.
StatusAt(t) ==
  /\ lastStatus = t % TickMod /\ t <= now.at
  /\ pc = "recv" => now.at - t < Period
  /\ pc = "queue" => now.at - t < Period + MaxStall
  /\ pc \in {"snapshot", "send"} => t = now.at
  /\ \A i \in Subscribed :
       IF pc \in {"snapshot", "send"}
       THEN now.at - clients[i].since < Expire + Period + MaxStall
       ELSE t - clients[i].since <= Expire

SlotInvariant ==
  /\ now.at <= clock /\ clock - now.at <= MaxStall
  /\ now.tick = now.at % TickMod
  /\ \A i \in Subscribed :
       clients[i].since <= now.at /\ clients[i].last = clients[i].since % TickMod
  /\ \A i, j \in Subscribed : clients[i].peer = clients[j].peer => i = j
  /\ \E t \in Nat : StatusAt(t)

\* The unsigned difference of two tick counts is the time between them, when
\* that is less than the modulus.
LEMMA UnsignedDifference ==
  ASSUME NEW m \in Nat \ {0}, NEW a \in Nat, NEW b \in Nat, b <= a, a - b < m
  PROVE  ((a % m) - (b % m)) % m = a - b
  <1>1. PICK qa \in Int, ra \in 0 .. m - 1 : a = m * qa + ra /\ a % m = ra
    <2>1. a = m * (a \div m) + (a % m) /\ a \div m \in Int /\ a % m \in 0 .. m - 1
      OBVIOUS
    <2> QED
      BY <2>1
  <1>2. PICK qb \in Int, rb \in 0 .. m - 1 : b = m * qb + rb /\ b % m = rb
    <2>1. b = m * (b \div m) + (b % m) /\ b \div m \in Int /\ b % m \in 0 .. m - 1
      OBVIOUS
    <2> QED
      BY <2>1
  <1>3. a - b = m * (qa - qb) + (ra - rb)
    BY <1>1, <1>2
  <1>4. qa - qb \in {0, 1}
    <2>1. CASE qa - qb >= 2
      <3>1. m * (qa - qb) >= m * 2
        BY <2>1
      <3> QED
        BY <1>3, <3>1
    <2>2. CASE qa - qb <= -1
      <3>1. m * (qa - qb) <= m * (-1)
        BY <2>2
      <3> QED
        BY <1>3, <3>1
    <2> QED
      BY <2>1, <2>2
  <1>5. CASE qa - qb = 0
    <2>1. ra - rb = a - b
      BY <1>3, <1>5
    <2> QED
      BY <1>1, <1>2, <2>1
  <1>6. CASE qa - qb = 1
    <2>1. ra - rb = (a - b) - m
      BY <1>3, <1>6
    <2>2. \A d \in 0 .. m - 1 : (d - m) % m = d
      OBVIOUS
    <2> QED
      BY <1>1, <1>2, <2>1, <2>2
  <1> QED
    BY <1>4, <1>5, <1>6

LEMMA TickDifference ==
  ASSUME NEW a \in Nat, NEW b \in Nat, b <= a, a - b < TickMod,
         NEW x, x = a % TickMod, NEW y, y = b % TickMod
  PROVE  (x - y) % TickMod = a - b
  <1>1. TickMod \in Nat \ {0}
    BY Sizes
  <1>2. ((a % TickMod) - (b % TickMod)) % TickMod = a - b
    BY <1>1, UnsignedDifference
  <1>3. x \in Int /\ y \in Int
    BY <1>1
  <1> QED
    BY <1>1, <1>2, <1>3

\* What the code computes as the age of a subscription is its age.
LEMMA Ages ==
  ASSUME TypeOK, SlotInvariant, NEW i \in Subscribed
  PROVE  /\ clients[i].since \in Nat /\ clients[i].since <= now.at /\ now.at <= clock
         /\ pc = "recv" => (Tick - clients[i].last) % TickMod = clock - clients[i].since
         /\ pc \in {"snapshot", "send"} => Since(clients[i].last) = now.at - clients[i].since
  <1>1. /\ clients[i].since \in Nat /\ now.at \in Nat /\ clock \in Nat
        /\ clients[i].since <= now.at /\ now.at <= clock /\ clock - now.at <= MaxStall
        /\ clients[i].last = clients[i].since % TickMod /\ now.tick = now.at % TickMod
    BY DEF TypeOK, SlotInvariant, Subscribed
  <1>2. PICK t \in Nat : StatusAt(t)
    BY DEF SlotInvariant
  <1>3. ASSUME pc = "recv"
        PROVE  (Tick - clients[i].last) % TickMod = clock - clients[i].since
    <2>1. now.at - t < Period /\ t - clients[i].since <= Expire
      BY <1>2, <1>3 DEF StatusAt
    <2>2. clock - clients[i].since < TickMod
      BY <1>1, <2>1, Sizes
    <2>3. clients[i].since <= clock
      BY <1>1
    <2> QED
      BY <1>1, <2>2, <2>3, TickDifference DEF Tick
  <1>4. ASSUME pc \in {"snapshot", "send"}
        PROVE  Since(clients[i].last) = now.at - clients[i].since
    <2>1. now.at - clients[i].since < Expire + Period + MaxStall
      BY <1>2, <1>4 DEF StatusAt
    <2>2. now.at - clients[i].since < TickMod
      BY <1>1, <2>1, Sizes
    <2> QED
      BY <1>1, <2>2, TickDifference DEF Since
  <1> QED
    BY <1>1, <1>3, <1>4

LEMMA TickKeepsSlots ==
  ASSUME TypeOK, SlotInvariant, TickInterrupt
  PROVE  SlotInvariant'
  <1>1. /\ clock' = clock + 1 /\ clock - now.at < MaxStall
        /\ UNCHANGED <<clients, now, lastStatus, pc>>
    BY Zenon DEF TickInterrupt, taskVars
  <1>2. now'.at <= clock' /\ clock' - now'.at <= MaxStall
    BY <1>1, Sizes DEF SlotInvariant, TypeOK
  <1>3. Subscribed' = Subscribed /\ \A t \in Nat : StatusAt(t) => StatusAt(t)'
    BY <1>1 DEF Subscribed, StatusAt
  <1> QED
    BY <1>1, <1>2, <1>3, Zenon DEF SlotInvariant

\* recvfrom, with or without a subscription.
LEMMA ReceiveKeepsSlots ==
  ASSUME TypeOK, SlotInvariant, Receive
  PROVE  SlotInvariant'
  <1>1. /\ pc = "recv" /\ pc' = "queue" /\ now' = [tick |-> clock % TickMod, at |-> clock]
        /\ UNCHANGED <<clock, lastStatus>>
        /\ clients' = clients \/ \E p \in Peer : clients' = Subscribe(p, Tick)
    BY Zenon DEF Receive, Tick
  <1>2. now'.at = clock /\ now'.tick = clock % TickMod /\ clock \in Nat /\ now.at \in Nat
    BY <1>1 DEF TypeOK
  <1>3. now'.at <= clock' /\ clock' - now'.at <= MaxStall /\ now'.tick = now'.at % TickMod
    BY <1>1, <1>2, Sizes
  <1>4. PICK t \in Nat : StatusAt(t)
    BY DEF SlotInvariant
  <1>5. /\ lastStatus' = t % TickMod /\ t <= now'.at /\ now'.at - t < Period + MaxStall
    <2>1. t <= now.at /\ now.at - t < Period /\ now.at <= clock /\ clock - now.at <= MaxStall
      BY <1>1, <1>4 DEF StatusAt, SlotInvariant
    <2>2. lastStatus' = t % TickMod
      BY <1>1, <1>4 DEF StatusAt
    <2> QED
      BY <1>2, <2>1, <2>2, Sizes
  <1>6. ASSUME NEW i \in Subscribed
        PROVE  /\ clients[i].since <= now'.at /\ clients[i].last = clients[i].since % TickMod
               /\ t - clients[i].since <= Expire
    <2>1. /\ clients[i].since \in Nat /\ clients[i].since <= now.at /\ now.at <= clock
          /\ clients[i].last = clients[i].since % TickMod
      BY Ages DEF SlotInvariant
    <2>2. t - clients[i].since <= Expire
      BY <1>1, <1>4 DEF StatusAt
    <2> QED
      BY <1>2, <2>1, <2>2
  <1>7. CASE clients' = clients
    <2>1. Subscribed' = Subscribed
      BY <1>7 DEF Subscribed
    <2>2. StatusAt(t)'
      BY <1>1, <1>5, <1>6, <1>7, <2>1 DEF StatusAt
    <2> QED
      BY <1>3, <1>6, <1>7, <2>1, <2>2, Zenon DEF SlotInvariant
  <1>8. CASE clients' # clients
    <2>1. PICK p \in Peer : clients' = Subscribe(p, Tick)
      BY <1>1, <1>8
    <2>2. PICK i \in Slots :
            /\ clients' = [clients EXCEPT ![i] = [peer |-> p, last |-> Tick, since |-> clock]]
            /\ clients[i].peer = p \/ (Matching(p) = {} /\ i \in Free(Tick))
      BY <1>8, <2>1, SubscribedSlot
    <2>3. /\ \A j \in Slots \ {i} : clients'[j] = clients[j]
          /\ clients'[i].peer = p /\ clients'[i].last = clock % TickMod /\ clients'[i].since = clock
          /\ p # NoPeer
      BY <2>2, TelemetryAssumption DEF TypeOK, Tick
    <2>4. \A j \in Subscribed' \ {i} : j \in Subscribed /\ clients'[j] = clients[j]
      BY <2>3 DEF Subscribed
    <2>5. \A j \in Subscribed' : clients'[j].since <= now'.at
                                 /\ clients'[j].last = clients'[j].since % TickMod
                                 /\ t - clients'[j].since <= Expire
      <3> TAKE j \in Subscribed'
      <3>1. CASE j = i
        BY <1>2, <1>5, <2>3, <3>1, Sizes
      <3>2. CASE j # i
        BY <1>6, <2>4, <3>2
      <3> QED
        BY <3>1, <3>2
    <2>6. \A j \in Subscribed' \ {i} : clients'[j].peer # p
      <3> TAKE j \in Subscribed' \ {i}
      <3>1. j \in Subscribed /\ j \in Slots /\ clients'[j] = clients[j]
        BY <2>4 DEF Subscribed
      <3>2. CASE clients[i].peer = p
        <4>1. i \in Subscribed
          BY <2>3, <3>2 DEF Subscribed
        <4> QED
          BY <3>1, <3>2, <4>1 DEF SlotInvariant
      <3>3. CASE Matching(p) = {}
        BY <3>1, <3>3 DEF Matching
      <3> QED
        BY <2>2, <3>2, <3>3
    <2>7. \A j, k \in Subscribed' : clients'[j].peer = clients'[k].peer => j = k
      <3> TAKE j, k \in Subscribed'
      <3>1. CASE j # i /\ k # i
        BY <2>4, <3>1 DEF SlotInvariant
      <3>2. CASE j = i \/ k = i
        BY <2>3, <2>6, <3>2
      <3> QED
        BY <3>1, <3>2
    <2>8. StatusAt(t)'
      BY <1>1, <1>5, <2>5 DEF StatusAt
    <2> QED
      BY <1>3, <2>5, <2>7, <2>8, Zenon DEF SlotInvariant
  <1> QED
    BY <1>7, <1>8

\* xQueueReceive, and whether a status is due.
LEMMA DequeueKeepsSlots ==
  ASSUME TypeOK, SlotInvariant, Dequeue
  PROVE  SlotInvariant'
  <1>1. /\ pc = "queue" /\ UNCHANGED <<clock, clients, now>>
        /\ \/ pc' = "recv" /\ UNCHANGED lastStatus /\ Since(lastStatus) < Period
           \/ pc' = "snapshot" /\ lastStatus' = now.tick
    BY Zenon DEF Dequeue
  <1>2. Subscribed' = Subscribed
    BY <1>1 DEF Subscribed
  <1>3. PICK t \in Nat : StatusAt(t)
    BY DEF SlotInvariant
  <1>4. /\ lastStatus = t % TickMod /\ t <= now.at /\ now.at - t < Period + MaxStall
        /\ \A i \in Subscribed : t - clients[i].since <= Expire
    BY <1>1, <1>3 DEF StatusAt
  <1>5. now.at \in Nat /\ now.tick = now.at % TickMod
    BY DEF SlotInvariant, TypeOK
  <1>6. CASE pc' = "recv"
    <2>1. now.at - t < TickMod
      BY <1>4, <1>5, Sizes
    <2>2. Since(lastStatus) = now.at - t
      BY <1>4, <1>5, <2>1, TickDifference DEF Since
    <2>3. UNCHANGED lastStatus /\ now.at - t < Period
      BY <1>1, <1>6, <2>2
    <2>4. StatusAt(t)'
      BY <1>1, <1>2, <1>4, <1>6, <2>3 DEF StatusAt
    <2> QED
      BY <1>1, <1>2, <2>4, Zenon DEF SlotInvariant
  <1>7. CASE pc' = "snapshot"
    <2>1. lastStatus' = now.at % TickMod
      BY <1>1, <1>5, <1>7
    <2>2. \A i \in Subscribed : now.at - clients[i].since < Expire + Period + MaxStall
      <3> TAKE i \in Subscribed
      <3>1. clients[i].since \in Nat /\ t - clients[i].since <= Expire
        BY <1>4, Ages
      <3> QED
        BY <1>4, <1>5, <3>1, Sizes
    <2>3. StatusAt(now.at)'
      BY <1>1, <1>2, <1>5, <1>7, <2>1, <2>2 DEF StatusAt
    <2>4. \E u \in Nat : StatusAt(u)'
      BY <1>1, <1>5, <2>3
    <2> QED
      BY <1>1, <1>2, <2>4, Zenon DEF SlotInvariant
  <1> QED
    BY <1>1, <1>6, <1>7

\* sendto, and what has expired is forgotten.
LEMMA SendKeepsSlots ==
  ASSUME TypeOK, SlotInvariant, Send
  PROVE  SlotInvariant'
  <1>1. /\ pc = "send" /\ pc' = "recv" /\ UNCHANGED <<clock, now, lastStatus>>
        /\ clients' = [i \in Slots |-> IF i \in Recipients THEN clients[i] ELSE Unused]
    BY Zenon DEF Send
  <1>2. \A i \in Subscribed' : i \in Recipients /\ i \in Subscribed /\ clients'[i] = clients[i]
    BY <1>1 DEF Subscribed, Recipients, Unused
  <1>3. PICK t \in Nat : StatusAt(t)
    BY DEF SlotInvariant
  <1>4. t = now.at /\ now.at \in Nat /\ lastStatus = t % TickMod
    BY <1>1, <1>3 DEF StatusAt, TypeOK
  <1>5. \A i \in Subscribed' : t - clients'[i].since <= Expire
    <2> TAKE i \in Subscribed'
    <2>1. Since(clients[i].last) = now.at - clients[i].since
      BY <1>1, <1>2, Ages
    <2>2. Since(clients[i].last) <= Expire
      BY <1>2 DEF Recipients
    <2> QED
      BY <1>2, <1>4, <2>1, <2>2
  <1>6. StatusAt(t)'
    <2>1. now.at - t < Period
      BY <1>4, Sizes
    <2>2. t <= now.at
      BY <1>4
    <2> QED
      BY <1>1, <1>4, <1>5, <2>1, <2>2 DEF StatusAt
  <1>7. \A i \in Subscribed' :
          clients'[i].since <= now'.at /\ clients'[i].last = clients'[i].since % TickMod
    BY <1>1, <1>2, Zenon DEF SlotInvariant
  <1>8. \A i, j \in Subscribed' : clients'[i].peer = clients'[j].peer => i = j
    BY <1>2, Zenon DEF SlotInvariant
  <1> QED
    BY <1>1, <1>6, <1>7, <1>8, Zenon DEF SlotInvariant

LEMMA SlotStep ==
  ASSUME TypeOK, SlotInvariant, [Next]_vars
  PROVE  SlotInvariant'
  <1>1. ASSUME UNCHANGED <<clock, clients, now, lastStatus>>,
               pc' = pc \/ (pc = "snapshot" /\ pc' = "send")
        PROVE  SlotInvariant'
    <2>1. Subscribed' = Subscribed /\ \A t \in Nat : StatusAt(t) => StatusAt(t)'
      BY <1>1 DEF Subscribed, StatusAt
    <2> QED
      BY <1>1, <2>1, Zenon DEF SlotInvariant
  <1>2. CASE Snapshot \/ UNCHANGED vars
    BY <1>1, <1>2, Zenon DEF Snapshot, vars, taskVars
  <1>3. CASE \E p \in Producer : (\E e \in Event : Count(p, e)) \/ Enqueue(p) \/ Drop(p)
    BY <1>1, <1>3, Zenon DEF Count, Enqueue, Drop, taskVars
  <1> QED
    BY <1>2, <1>3, TickKeepsSlots, ReceiveKeepsSlots, DequeueKeepsSlots, SendKeepsSlots, Zenon
    DEF Next, TaskStep

LEMMA SlotsHold == Spec => []SlotInvariant
  <1>1. Init => SlotInvariant
    <2> SUFFICES ASSUME Init PROVE SlotInvariant
      OBVIOUS
    <2>1. Subscribed = {}
      BY DEF Init, Subscribed, Unused
    <2>2. clock = 0 /\ now.at = 0 /\ now.tick = 0 /\ lastStatus = 0 /\ pc = "recv" /\ 0 % TickMod = 0
      BY Sizes DEF Init
    <2>3. StatusAt(0)
      BY <2>1, <2>2, Sizes DEF StatusAt
    <2>4. 0 \in Nat /\ 0 <= 0 /\ 0 - 0 <= MaxStall
      BY Sizes
    <2> QED
      BY <2>1, <2>2, <2>3, <2>4, Zenon DEF SlotInvariant
  <1> QED
    BY <1>1, SlotStep, TypesHold, PTL DEF Spec

\* For any slots, peers and times: a packet goes exactly once to each subscriber
\* whose renewal is at most Expire old, wherever the tick counter wraps.
THEOREM PacketsReachLiving == Spec => []SentToLiving
  <1>1. ASSUME TypeOK, SlotInvariant
        PROVE  SentToLiving
    <2> SUFFICES ASSUME pc = "send"
                 PROVE  /\ \A i \in Slots : clients[i].peer # NoPeer =>
                             (i \in Recipients <=> Age(i, now.at) <= Expire)
                        /\ \A i, j \in Recipients : clients[i].peer = clients[j].peer => i = j
      BY Zenon DEF SentToLiving
    <2>1. \A i \in Subscribed : Since(clients[i].last) = now.at - clients[i].since
      BY <1>1, Ages
    <2>2. \A i \in Recipients : i \in Subscribed
      BY DEF Recipients, Subscribed
    <2>3. \A i \in Slots : clients[i].peer # NoPeer => (i \in Recipients <=> Age(i, now.at) <= Expire)
      BY <2>1, Zenon DEF Subscribed, Recipients, Age
    <2> QED
      BY <1>1, <2>2, <2>3, Zenon DEF SlotInvariant
  <1> QED
    BY <1>1, TypesHold, SlotsHold, PTL

\* For any slots, peers and times: no step of broadcast_task, a subscription of
\* somebody else included, takes the slot of a subscription that lasts.
THEOREM SubscribersKept == Spec => SubscriberKept
  <1> DEFINE Kept == \A i \in Slots : clients[i].peer # NoPeer /\ Age(i, clock) <= Expire =>
                       clients'[i].peer = clients[i].peer
  <1>1. ASSUME TypeOK, SlotInvariant, [Next]_vars
        PROVE  Kept
    <2>1. CASE UNCHANGED clients
      BY <2>1
    <2>2. CASE Receive /\ clients' # clients
      <3>1. PICK p \in Peer : clients' = Subscribe(p, Tick)
        BY <2>2, Zenon DEF Receive
      <3>2. PICK k \in Slots :
              /\ clients' = [clients EXCEPT ![k] = [peer |-> p, last |-> Tick, since |-> clock]]
              /\ clients[k].peer = p \/ (Matching(p) = {} /\ k \in Free(Tick))
        BY <2>2, <3>1, SubscribedSlot
      <3>3. \A i \in Slots \ {k} : clients'[i] = clients[i]
        BY <1>1, <3>2 DEF TypeOK
      <3>4. clients'[k].peer = p
        BY <1>1, <3>2 DEF TypeOK
      <3>5. ASSUME clients[k].peer # NoPeer, Age(k, clock) <= Expire
            PROVE  clients[k].peer = p
        <4>1. k \in Subscribed /\ pc = "recv"
          BY <2>2, <3>5, Zenon DEF Subscribed, Receive
        <4>2. /\ (Tick - clients[k].last) % TickMod = clock - clients[k].since
              /\ clients[k].since \in Nat
          BY <1>1, <4>1, Ages
        <4>3. k \notin Free(Tick)
          BY <1>1, <3>5, <4>2, Sizes DEF Free, Age, TypeOK
        <4> QED
          BY <3>2, <4>3
      <3> QED
        BY <3>3, <3>4, <3>5, Zenon
    <2>3. CASE Send
      <3>1. /\ pc = "send"
            /\ clients' = [i \in Slots |-> IF i \in Recipients THEN clients[i] ELSE Unused]
        BY <2>3, Zenon DEF Send
      <3>2. ASSUME NEW i \in Slots, clients[i].peer # NoPeer, Age(i, clock) <= Expire
            PROVE  i \in Recipients
        <4>1. i \in Subscribed
          BY <3>2 DEF Subscribed
        <4>2. /\ Since(clients[i].last) = now.at - clients[i].since
              /\ clients[i].since \in Nat /\ now.at <= clock /\ now.at \in Nat /\ clock \in Nat
          BY <1>1, <3>1, <4>1, Ages DEF TypeOK
        <4>3. Since(clients[i].last) <= Expire
          BY <3>2, <4>2, Sizes DEF Age
        <4> QED
          BY <3>2, <4>3 DEF Recipients
      <3> QED
        BY <3>1, <3>2, Zenon
    <2> QED
      BY <2>1, <2>2, <2>3, <1>1, Zenon
      DEF Next, TaskStep, TickInterrupt, Count, Enqueue, Drop, Dequeue, Snapshot, taskVars, vars
  <1> HIDE DEF Kept
  <1>2. Spec => [][Kept]_vars
    BY <1>1, TypesHold, SlotsHold, PTL DEF Spec
  <1> QED
    BY <1>2 DEF Kept, SubscriberKept
=============================================================================
