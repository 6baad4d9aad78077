---------------------------- MODULE StratumSession ----------------------------
(***************************************************************************)
(* The Stratum task (software/application/stratum.c): one pool session after *)
(* another, and the mining registers.  The task is sequential; the device of *)
(* MinerDevice runs beside it, so every access of stop(), start_range() and  *)
(* service_results() whose result depends on the device is a step of its     *)
(* own.  The pool is free to send any line at any time; time-outs, a lost    *)
(* network and changed settings end a session at the points where the code   *)
(* tests for them; when a time-out fires is left open.                       *)
(***************************************************************************)
EXTENDS MinerDevice, FiniteSets

CONSTANTS JobId,      \* opaque job ids the pool uses, also repeatedly
          Extra1,     \* extranonce1 values the pool assigns
          Extra2Size, \* number of extranonce2 values (256^size in the code)
          NumRanges,  \* nonce ranges of a header (2^32 / RANGE in the code)
          Target,     \* share targets: larger is easier
          NumPending, \* slots of pending[] (8 in the code)
          IdMod,      \* modulus of next_id (2^32 in the code)
          Batch,      \* results handled per service_results (16 in the code)
          MaxJobs,    \* bound: mining.notify messages, all sessions together
          MaxAssigned \* bound: extranonce1 assignments of a session

\* A header, but for its nonce, and what the job registers hold of it.
Header ==
  [job : JobId \cup {NoHeader}, extra1 : Extra1 \cup {NoHeader}, extra2 : 0 .. Extra2Size - 1]
Registers == [header : Header, target : Target \cup {0}]

ASSUME SessionAssumption ==
  /\ {Extra2Size, NumRanges, NumPending, Batch} \subseteq Nat \ {0}
  /\ IdMod \in Nat /\ IdMod > 4
  /\ Target \subseteq Nat
  /\ \E t \in Target : \A u \in Target : u <= t
  /\ MaxJobs \in Nat /\ MaxAssigned \in Nat
  /\ NoHeader \notin Registers

VARIABLES pc,         \* where the task is
          after,      \* where it goes once stop() returns
          line,       \* the job id of the mining.notify being handled
          subscribed, authorized, haveJob, running, exhausted,
          extra1,     \* extranonce1 of the session
          extra2,     \* next extranonce2
          job,        \* id, number and target of the job
          pendingTarget,
          header,     \* the header in the buffer, without its nonce
          rangeStart,
          nextId,
          pending,    \* pending[i]: id (0 when free) and event of submission i
          k,          \* results handled in this service_results
          jobs,       \* stats.jobs
          event       \* the last event that ended a session
taskVars == <<pc, after, line, subscribed, authorized, haveJob, running, exhausted,
              extra1, extra2, job, pendingTarget, header, rangeStart, nextId,
              pending, k, jobs, event>>

VARIABLES assigned,   \* history: assignments of extranonce1 in this session
          started,    \* history: headers started since the last of them
          sent,       \* history: submissions of this session
          earlier,    \* history: those of them from before the last assignment
          answered,   \* history: accepted and rejected events of this session
          lost        \* history: results discarded with their job still current
history == <<assigned, started, sent, earlier, answered, lost>>

vars == <<deviceVars, taskVars, history>>

session == <<subscribed, authorized, extra1, extra2, exhausted, nextId, pending>>

NoEvent == [job |-> NoHeader, number |-> 0, extra2 |-> 0, result |-> NoHeader]
FreeSlot == [id |-> 0, event |-> NoEvent]
NoJob == [id |-> NoHeader, number |-> 0, target |-> 0]

Easiest == CHOOSE t \in Target : \A u \in Target : u <= t

Init ==
  /\ DeviceInit
  /\ pc = "stop" /\ after = "connect"
  /\ line = NoHeader
  /\ subscribed = FALSE /\ authorized = FALSE /\ haveJob = FALSE
  /\ running = FALSE /\ exhausted = FALSE
  /\ extra1 = NoHeader
  /\ extra2 = 0
  /\ job = NoJob
  /\ pendingTarget = 0
  /\ header = NoHeader
  /\ rangeStart = 0
  /\ nextId = 0
  /\ pending = [i \in 1 .. NumPending |-> FreeSlot]
  /\ k = 0
  /\ jobs = 0
  /\ event = "none"
  /\ assigned = 0 /\ started = {} /\ sent = {} /\ earlier = {} /\ answered = {} /\ lost = {}

\* return -1 from a handler, or a break of the session loop: stop(), have_job=0,
\* closesocket and the wait before the next session.  why is the event that
\* tells the reason, or pool_disconnected where there is none.
EndSession(why) ==
  /\ pc' = "stop"
  /\ after' = "close"
  /\ event' = why

-----------------------------------------------------------------------------
(* stop() and start_range().                                                *)

\* lost gets the results still unread when work ends although its job is current.
StopWrite ==
  /\ pc = "stop"
  /\ WriteStop
  /\ lost' = IF after = "rebuild" THEN lost \cup Unread ELSE lost
  /\ pc' = "drain"
  /\ UNCHANGED <<after, line, session, haveJob, running, job, pendingTarget, header,
                 rangeStart, k, jobs, event, assigned, started, sent, earlier, answered>>

\* Faulty variant: the tick is not waited for.
NotAwaited == TRUE

Drained == core = "idle"

\* vTaskDelay(1) outlasts a compression (655 cycles of 5 ns, tb_genesis.sv);
\* then CLEAR and the acknowledgement of result and overflow.
StopDrained ==
  /\ pc = "drain"
  /\ Drained
  /\ WriteClear
  /\ running' = FALSE
  /\ pc' = after
  /\ after' = "connect"
  /\ UNCHANGED <<line, session, haveJob, job, pendingTarget, header, rangeStart, k, jobs,
                 event, history>>

StartRange(h, r) ==
  /\ WriteStart(h, r)
  /\ lost' = lost \cup Unread
  /\ rangeStart' = r
  /\ running' = TRUE

\* Faulty variant: an exhausted extranonce2 is used again.
ReusesExtra2 == TRUE

HasExtra2 == ~exhausted

\* build_header: the header of the job with a fresh extranonce2 goes to the
\* registers and its first range is started.
BuildHeader(label, return) ==
  /\ pc = label
  /\ HasExtra2
  /\ LET h == [job |-> job.id, extra1 |-> extra1, extra2 |-> extra2]
     IN  /\ header' = h
         /\ StartRange([header |-> h, target |-> job.target], 0)
         /\ started' = started \cup {[header |-> h, nth |-> Cardinality(started)]}
  /\ extra2' = IF extra2 + 1 = Extra2Size THEN 0 ELSE extra2 + 1
  /\ exhausted' = (extra2 + 1 = Extra2Size)
  /\ pc' = return
  /\ UNCHANGED <<after, line, subscribed, authorized, haveJob, extra1, job, pendingTarget,
                 nextId, pending, k, jobs, event, assigned, sent, earlier, answered>>

BuildHeaderExhausted(label) ==
  /\ pc = label
  /\ exhausted
  /\ EndSession("pool_disconnected")
  /\ UNCHANGED <<deviceVars, line, session, haveJob, running, job, pendingTarget, header,
                 rangeStart, k, jobs, history>>

\* The time of a job has eight characters that are no hexadecimal digits: this
\* is found when its first header is built.
BuildHeaderMalformed ==
  /\ pc = "build"
  /\ HasExtra2
  /\ EndSession("pool_disconnected")
  /\ UNCHANGED <<deviceVars, line, session, haveJob, running, job, pendingTarget, header,
                 rangeStart, k, jobs, history>>

-----------------------------------------------------------------------------
(* Sessions.                                                                *)

\* stratum_task: the socket is connected, or is not, and the session state is
\* reset before either.
Connect ==
  /\ pc = "connect"
  /\ subscribed' = FALSE /\ authorized' = FALSE /\ haveJob' = FALSE
  /\ running' = FALSE /\ exhausted' = FALSE
  /\ extra2' = 0
  /\ pending' = [i \in 1 .. NumPending |-> FreeSlot]
  /\ nextId' = 4
  /\ pendingTarget' = Easiest
  /\ \/ pc' = "recv" /\ event' = "none" /\ UNCHANGED after
     \/ EndSession("pool_disconnected")
  /\ assigned' = 0 /\ started' = {} /\ sent' = {} /\ earlier' = {} /\ answered' = {}
  /\ UNCHANGED <<deviceVars, line, extra1, job, header, rangeStart, k, jobs, lost>>

\* The end of stratum_task's outer loop, after stop().
Close ==
  /\ pc = "close"
  /\ haveJob' = FALSE
  /\ pc' = "connect"
  /\ UNCHANGED <<deviceVars, after, line, session, running, job, pendingTarget, header,
                 rangeStart, k, jobs, event, history>>

\* The loop condition: the network is down or the settings have changed; recv
\* failed; a line or the authorization timed out.
Leave ==
  /\ pc \in {"recv", "timers"}
  /\ EndSession("pool_disconnected")
  /\ UNCHANGED <<deviceVars, line, session, haveJob, running, job, pendingTarget, header,
                 rangeStart, k, jobs, history>>

-----------------------------------------------------------------------------
(* Lines from the pool: handle_line, notification and reply.                *)

\* A line that ends the session: it is no JSON or a field of it does not parse,
\* it is a second reply to id 1 or id 2, a refused authorization, or a notify
\* before the subscription.  An extranonce1 is decoded in place before the
\* field after it is looked at.
LineRefused ==
  /\ pc = "recv"
  /\ extra1' \in Extra1 \cup {extra1}
  /\ EndSession("pool_disconnected")
  /\ UNCHANGED <<deviceVars, line, subscribed, authorized, extra2, exhausted, nextId,
                 pending, haveJob, running, job, pendingTarget, header, rangeStart, k,
                 jobs, history>>

SetDifficulty(t) ==
  /\ pc = "recv"
  /\ pendingTarget' = t
  /\ UNCHANGED <<deviceVars, pc, after, line, session, haveJob, running, job, header,
                 rangeStart, k, jobs, event, history>>

\* Faulty variant: new work is taken over without stop().
WithoutStop(label) == pc' = label /\ UNCHANGED after

StopFirst(label) == pc' = "stop" /\ after' = label

\* The pool assigns an extranonce1, maybe the one in use once more: what is
\* started and submitted from now on belongs to this assignment.
Assign(e) ==
  /\ assigned < MaxAssigned
  /\ assigned' = assigned + 1
  /\ started' = {} /\ earlier' = sent
  /\ extra1' = e

\* extranonce1 is overwritten while the engines still run.
SetExtranonce(e) ==
  /\ pc = "recv"
  /\ Assign(e)
  /\ StopFirst("extranonce")
  /\ UNCHANGED <<deviceVars, line, subscribed, authorized, extra2, exhausted, nextId,
                 pending, haveJob, running, job, pendingTarget, header, rangeStart, k,
                 jobs, event, sent, answered, lost>>

\* What set_extranonce does once stop() has returned.
ApplyExtranonce ==
  /\ pc = "extranonce"
  /\ haveJob' = FALSE
  /\ extra2' = 0
  /\ exhausted' = FALSE
  /\ pc' = "recv"
  /\ UNCHANGED <<deviceVars, after, line, subscribed, authorized, extra1, running, job,
                 pendingTarget, header, rangeStart, nextId, pending, k, jobs, event,
                 history>>

Notify(j) ==
  /\ pc = "recv"
  /\ subscribed
  /\ jobs < MaxJobs
  /\ line' = j
  /\ StopFirst("notify")
  /\ UNCHANGED <<deviceVars, session, haveJob, running, job, pendingTarget, header,
                 rangeStart, k, jobs, event, history>>

\* The fields parse: the job replaces the old one with the target in force.
ApplyNotify ==
  /\ pc = "notify"
  /\ job' = [id |-> line, number |-> jobs + 1, target |-> pendingTarget]
  /\ jobs' = jobs + 1
  /\ haveJob' = TRUE
  /\ line' = NoHeader
  /\ pc' = IF authorized THEN "build" ELSE "recv"
  /\ UNCHANGED <<deviceVars, after, session, running, pendingTarget, header,
                 rangeStart, k, event, history>>

\* They do not: the id may already have been overwritten.
ApplyNotifyMalformed ==
  /\ pc = "notify"
  /\ haveJob' = FALSE
  /\ \E i \in {job.id, line} : job' = [job EXCEPT !.id = i]
  /\ line' = NoHeader
  /\ EndSession("pool_disconnected")
  /\ UNCHANGED <<deviceVars, session, running, pendingTarget, header, rangeStart, k, jobs,
                 history>>

\* The reply to mining.subscribe; mining.authorize is sent, or is not.
ReplySubscribe(e) ==
  /\ pc = "recv"
  /\ ~subscribed
  /\ Assign(e)
  /\ subscribed' = TRUE
  /\ \/ UNCHANGED <<pc, after, event>>
     \/ EndSession("pool_disconnected")
  /\ UNCHANGED <<deviceVars, line, authorized, haveJob, running, exhausted, extra2, job,
                 pendingTarget, header, rangeStart, nextId, pending, k, jobs, sent, answered, lost>>

\* The reply to mining.authorize with result true; mining.suggest_difficulty is
\* sent, or is not, and a job that came earlier is started.
ReplyAuthorize ==
  /\ pc = "recv"
  /\ subscribed /\ ~authorized
  /\ authorized' = TRUE
  /\ \/ pc' = (IF haveJob THEN "build" ELSE "recv") /\ UNCHANGED <<after, event>>
     \/ EndSession("pool_disconnected")
  /\ UNCHANGED <<deviceVars, line, subscribed, haveJob, running, exhausted, extra1, extra2,
                 job, pendingTarget, header, rangeStart, nextId, pending, k, jobs, history>>

\* The reply to a mining.submit: the slot is released and the event kept in it
\* is sent as accepted or rejected.
ReplyShare(id) ==
  /\ pc = "recv"
  /\ id >= 4
  /\ \E i \in 1 .. NumPending :
        /\ pending[i].id = id
        /\ pending' = [pending EXCEPT ![i].id = 0]
        /\ answered' = answered \cup {[id |-> id, event |-> pending[i].event]}
  /\ UNCHANGED <<deviceVars, pc, after, line, subscribed, authorized, haveJob, running,
                 exhausted, extra1, extra2, job, pendingTarget, header, rangeStart, nextId,
                 k, jobs, event, assigned, started, sent, earlier, lost>>

-----------------------------------------------------------------------------
(* service_results and the end of a pass through the session loop.          *)

\* The received chunk is used up.
EndChunk ==
  /\ pc = "recv"
  /\ pc' = "service"
  /\ UNCHANGED <<deviceVars, after, line, session, haveJob, running, job, pendingTarget,
                 header, rangeStart, k, jobs, event, history>>

\* Faulty variant: results are left alone while a submission is unanswered.
ServesAnswered == running /\ \A i \in 1 .. NumPending : pending[i].id = 0

Serves == running

\* Nothing runs, or STATUS shows an overflow, or the results are polled.
Service ==
  /\ pc = "service"
  /\ \/ ~Serves /\ pc' = "timers" /\ UNCHANGED <<after, event>>
     \/ Serves /\ overflow /\ EndSession("result_fifo_overflow")
     \/ Serves /\ ~overflow /\ pc' = "poll" /\ UNCHANGED <<after, event>>
  /\ k' = 0
  /\ UNCHANGED <<deviceVars, line, session, haveJob, running, job, pendingTarget, header,
                 rangeStart, jobs, history>>

\* The digest of the header with this nonce is compared with the job's target.
Verifies(r) ==
  /\ r.header # NoHeader
  /\ r.header.header = header
  /\ r.header.target <= job.target

FreeSlots == {i \in 1 .. NumPending : pending[i].id = 0}

\* Faulty variant: the id is used without the test for its wrap.
IdUsed == TRUE

IdUsable == nextId >= 4

\* The head of the FIFO is acknowledged and verified, and submitted if a slot
\* and an id are free and the request can be sent.
Submit ==
  LET r == Head(fifo)
      i == CHOOSE j \in FreeSlots : \A l \in FreeSlots : j <= l
      e == [job |-> job.id, number |-> job.number, extra2 |-> header.extra2, result |-> r]
  IN  /\ Verifies(r) /\ FreeSlots # {} /\ IdUsable
      /\ nextId' = (nextId + 1) % IdMod
      /\ \/ /\ pending' = [pending EXCEPT ![i] = [id |-> nextId, event |-> e]]
            /\ sent' = sent \cup {[id |-> nextId, event |-> e]}
            /\ k' = k + 1
            /\ UNCHANGED <<pc, after, event>>
         \/ /\ EndSession("pool_disconnected")
            /\ UNCHANGED <<pending, sent, k>>

PollResult ==
  /\ pc = "poll"
  /\ k < Batch
  /\ fifo # <<>>
  /\ WriteAck
  /\ \/ Submit
     \/ /\ \/ ~Verifies(Head(fifo)) /\ EndSession("hardware_solution_invalid")
           \/ Verifies(Head(fifo)) /\ FreeSlots = {} /\ EndSession("share_queue_full")
           \/ Verifies(Head(fifo)) /\ FreeSlots # {} /\ nextId < 4 /\ EndSession("pool_disconnected")
        /\ UNCHANGED <<nextId, pending, sent, k>>
  /\ UNCHANGED <<line, subscribed, authorized, haveJob, running, exhausted, extra1, extra2,
                 job, pendingTarget, header, rangeStart, jobs, assigned, started, earlier, answered,
                 lost>>

PollEnd ==
  /\ pc = "poll"
  /\ k = Batch \/ fifo = <<>>
  /\ pc' = "status"
  /\ k' = 0
  /\ UNCHANGED <<deviceVars, after, line, session, haveJob, running, job, pendingTarget,
                 header, rangeStart, jobs, event, history>>

\* reg_read(4)&4.
ReadDone ==
  /\ pc = "status"
  /\ pc' = IF done THEN "empty" ELSE "timers"
  /\ UNCHANGED <<deviceVars, after, line, session, haveJob, running, job, pendingTarget,
                 header, rangeStart, k, jobs, event, history>>

\* Faulty variant: the range is left although results wait in the FIFO.
FifoIgnored == FALSE

FifoHolds == fifo # <<>>

\* reg_read(0x98)&1, at least four cycles after nonce_done was read: the
\* results of the finished range have reached the FIFO.  With none left the
\* next range starts, or after the last one the next header.
NextRange ==
  /\ pc = "empty"
  /\ inflight = <<>>
  /\ ~FifoHolds
  /\ LET r == (rangeStart + 1) % NumRanges
     IN  IF r = 0
         THEN /\ StopFirst("rebuild") /\ rangeStart' = 0
              /\ UNCHANGED <<deviceVars, running, lost>>
         ELSE /\ pc' = "timers"
              /\ StartRange(regs, r)
              /\ UNCHANGED after
  /\ UNCHANGED <<line, session, haveJob, job, pendingTarget, header, k, jobs, event,
                 assigned, started, sent, earlier, answered>>

ResultsLeft ==
  /\ pc = "empty"
  /\ inflight = <<>>
  /\ FifoHolds
  /\ pc' = "timers"
  /\ UNCHANGED <<deviceVars, after, line, session, haveJob, running, job, pendingTarget,
                 header, rangeStart, k, jobs, event, history>>

\* No time-out has expired: the loop goes on.
Again ==
  /\ pc = "timers"
  /\ pc' = "recv"
  /\ UNCHANGED <<deviceVars, after, line, session, haveJob, running, job, pendingTarget,
                 header, rangeStart, k, jobs, event, history>>

\* A submission has waited too long: share_reply_timeout.
ShareTimeout ==
  /\ pc = "timers"
  /\ \E i \in 1 .. NumPending : pending[i].id # 0
  /\ EndSession("share_reply_timeout")
  /\ UNCHANGED <<deviceVars, line, session, haveJob, running, job, pendingTarget, header,
                 rangeStart, k, jobs, history>>

-----------------------------------------------------------------------------
StopStep == StopWrite \/ StopDrained

BuildStep ==
  \/ BuildHeader("build", "recv") \/ BuildHeaderExhausted("build") \/ BuildHeaderMalformed
  \/ BuildHeader("rebuild", "timers") \/ BuildHeaderExhausted("rebuild")

ServiceStep ==
  \/ Service \/ PollResult \/ PollEnd \/ ReadDone \/ NextRange \/ ResultsLeft \/ Again

LineStep ==
  \/ LineRefused
  \/ \E t \in Target : SetDifficulty(t)
  \/ \E e \in Extra1 : SetExtranonce(e) \/ ReplySubscribe(e)
  \/ \E j \in JobId : Notify(j)
  \/ ReplyAuthorize
  \/ \E id \in 0 .. IdMod - 1 : ReplyShare(id)

\* What the task does without waiting for anyone.
TaskStep ==
  \/ StopStep \/ BuildStep \/ ServiceStep \/ Close
  \/ ApplyExtranonce \/ ApplyNotify \/ ApplyNotifyMalformed

Next ==
  \/ TaskStep
  \/ Connect \/ Leave \/ LineStep \/ EndChunk \/ ShareTimeout
  \/ DeviceNext /\ UNCHANGED <<taskVars, history>>

\* The task runs whenever it can (it has the highest priority but for the
\* Ethernet receiver), recv returns within 100 ms and a chunk of 512 bytes
\* holds finitely many lines, and the clock of the device never stops.
Fairness ==
  /\ WF_vars(TaskStep)
  /\ SF_vars(EndChunk)
  /\ WF_vars(DeviceNext /\ UNCHANGED <<taskVars, history>>)

Spec == Init /\ [][Next]_vars /\ Fairness
-----------------------------------------------------------------------------
(* Properties.                                                              *)

\* The engines hash only for an authorized session with a current job, and
\* what they hash is the header in the task's buffer with the job's target
\* (stratum.c:2-3).
MinesCurrentJob ==
  engine = "scan" =>
    /\ authorized /\ haveJob /\ running
    /\ work.header = [header |-> header, target |-> job.target]
    /\ header.job = job.id
    /\ work.range = rangeStart

\* No result of other work, or of a compression that was abandoned, ever comes
\* out of the FIFO: hardware_solution_invalid is a hardware fault only.
NoStaleResult == event # "hardware_solution_invalid"

\* A submission names the job and the extranonce2 under which its nonce was
\* found (stratum.c:155-164), no two submissions of a session share their id,
\* and no nonce is submitted twice under one assignment of the extranonce1.
\* (set_extranonce restarts extranonce2, also when it assigns the extranonce1
\* in use once more: the pool then asks for the same headers again.)
SubmissionsFaithful ==
  /\ \A s \in sent : LET h == s.event.result.header.header
                     IN  s.event.job = h.job /\ s.event.extra2 = h.extra2
  /\ \A s, t \in sent : s.id = t.id => s = t
  /\ \A s, t \in sent \ earlier : s.event.result = t.event.result => s = t

\* The headers started under one assignment of the extranonce1 all differ: the
\* same work is never done twice unless the pool restarts it with
\* set_extranonce, also for a repeated job id (stratum.c:66).
FreshHeaders == \A s, t \in started : s.header = t.header => s = t

\* A result is given up only with its job or its session: the next range or
\* the next header starts after every result of the last one was read.
NoResultLost == lost = {}

\* An answer is reported once, for the submission that carried its id, with
\* the job and number it was submitted with, whatever job is current
\* (doc/protocol.md:48-49); an answered id is no longer waited for, and no
\* submission has an id of the session's own requests (stratum.c:154).
AnswersMatch ==
  /\ \A s \in sent : s.id > 3
  /\ answered \subseteq sent
  /\ \A a \in answered, i \in 1 .. NumPending : pending[i].id # a.id
  /\ \A i \in 1 .. NumPending : pending[i].id # 0 => pending[i] \in sent

\* While the task believes the miner is running the engines are never left
\* idle: the next range or header starts, or the work ends with its session or
\* its job.
KeepsMining == (running /\ engine = "idle") ~> (engine = "scan" \/ ~running)

\* What has reached the FIFO is read or, with its work, discarded.
ResultsServed == (fifo # <<>>) ~> (fifo = <<>>)
=============================================================================
