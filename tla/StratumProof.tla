---------------------------- MODULE StratumProof ----------------------------
(***************************************************************************)
(* The Stratum task with the device, for any pool: any numbers of jobs,     *)
(* targets, extranonces, nonce ranges, results and pending submissions, and *)
(* any device of its kind.  First what the engines work on and what comes   *)
(* out of them: an invariant ties the place of the task to the state of the *)
(* device, and with it every result in the FIFO is one of the header in the *)
(* task's buffer.  Then what is started, submitted and answered in a        *)
(* session: under one assignment of the extranonce1 all headers differ and  *)
(* a nonce is submitted once, always under the work it was found in, and an *)
(* answer is reported for its submission.                                   *)
(***************************************************************************)
EXTENDS StratumSession, WellFoundedInduction, TLAPS

\* Where stop() returns to; where the task is with the engines stopped; where
\* it serves results.
Returns == {"connect", "close", "extranonce", "notify", "rebuild"}
Halted == Returns \cup {"build"}
Serving == {"poll", "status", "empty"}
\* The engines are idle and no result of theirs is left.
Quiet == engine = "idle" /\ inflight = <<>> /\ fifo = <<>>

\* What the place of the task tells about the device, and the device about the
\* task.  A compression outlives STOP only while the task waits for it; without
\* running nothing is left of earlier work; the next header is built only when
\* every result of the last one was read.
Control ==
  /\ pc \in Halted \cup Serving \cup {"stop", "drain", "recv", "service", "timers"}
  /\ after \in Returns
  /\ engine \in {"idle", "scan"} /\ core \in {"idle", "busy"}
  /\ pc # "drain" => core = "idle"
  /\ pc = "drain" => engine = "idle" /\ inflight = <<>>
  /\ pc \in Halted => ~running
  /\ pc \in Serving => running
  /\ pc = "empty" => engine = "idle"
  /\ done => engine = "idle"
  /\ pc \in {"build", "rebuild"} => authorized /\ haveJob
  /\ pc \in {"stop", "drain"} /\ after = "rebuild" => authorized /\ haveJob /\ Quiet
  /\ running => authorized /\ haveJob
  /\ ~running => Quiet

\* The engines work on what the job registers hold, and these on the job.
Work ==
  /\ engine = "scan" => work = [header |-> regs, range |-> rangeStart]
  /\ running => /\ regs = [header |-> header, target |-> job.target]
                /\ header.job = job.id

WorkInvariant == Control /\ Work /\ NoResultLost
-----------------------------------------------------------------------------
\* Reset of board and task.
LEMMA InitWork == Init => WorkInvariant
  BY DEF Init, DeviceInit, WorkInvariant, Control, Work, NoResultLost,
         Halted, Returns, Serving, Quiet

\* Steps of the device beside the task.
LEMMA DeviceKeepsWork ==
  WorkInvariant /\ DeviceNext /\ UNCHANGED <<taskVars, history>> => WorkInvariant'
  <1> SUFFICES ASSUME WorkInvariant, DeviceNext, UNCHANGED <<taskVars, history>>
               PROVE  WorkInvariant'
    OBVIOUS
  <1> USE DEF WorkInvariant, Control, Work, NoResultLost, Halted, Returns, Serving, Quiet,
              taskVars, history
  <1>1. CASE Find
    BY <1>1 DEF Find
  <1>2. CASE Deliver
    BY <1>2 DEF Deliver
  <1>3. CASE Finish
    BY <1>3 DEF Finish
  <1>4. CASE CoreDrains
    BY <1>4 DEF CoreDrains
  <1> QED
    BY <1>1, <1>2, <1>3, <1>4, Zenon DEF DeviceNext

\* What CLEAR leaves in the result register is gone once it is acknowledged.
LEMMA ClearedEmpty == \A s : \A f \in AfterClear(s) : AfterAck(f) = <<>>
  <1> SUFFICES ASSUME NEW s, NEW f \in AfterClear(s)
               PROVE  AfterAck(f) = <<>>
    OBVIOUS
  <1>1. \A x : Tail(<<x>>) = <<>>
    OBVIOUS
  <1> QED
    BY <1>1, Zenon DEF AfterClear, AfterAck

\* stop(): STOP, the wait for the cores, CLEAR and the acknowledgement.
LEMMA StopKeepsWork == WorkInvariant /\ StopStep => WorkInvariant'
  <1> SUFFICES ASSUME WorkInvariant, StopStep
               PROVE  WorkInvariant'
    OBVIOUS
  <1> USE DEF WorkInvariant, Control, NoResultLost, Halted, Returns, Serving, Quiet,
              session, history
  <1>1. CASE StopWrite
    <2>1. fifo = <<>> /\ inflight = <<>> => Unread = {}
      BY DEF Unread
    <2>2. fifo = <<>> /\ inflight = <<>> => fifo' = <<>>
      BY <1>1, <2>1 DEF StopWrite, WriteStop
    <2>. /\ engine' = "idle" /\ core' \in {"idle", "busy"} /\ inflight' = <<>>
         /\ pc = "stop" /\ pc' = "drain"
         /\ UNCHANGED <<after, authorized, haveJob, running>>
      BY <1>1 DEF StopWrite, WriteStop
    <2>3. Control'
      BY <2>2
    <2>4. Work'
      BY <1>1 DEF StopWrite, WriteStop, Work
    <2>5. NoResultLost'
      BY <1>1, <2>1 DEF StopWrite
    <2> QED
      BY <2>3, <2>4, <2>5 DEF WorkInvariant
  <1>2. CASE StopDrained
    <2> USE <1>2 DEF StopDrained, Drained, WriteClear
    <2>1. fifo' = <<>>
      BY ClearedEmpty
    <2>2. Control'
      BY <2>1
    <2>3. Work' /\ NoResultLost'
      BY DEF Work
    <2> QED
      BY <2>2, <2>3 DEF WorkInvariant
  <1> QED
    BY <1>1, <1>2 DEF StopStep

\* build_header, for a new job or after the last range of a header.
LEMMA BuildKeepsWork == WorkInvariant /\ BuildStep => WorkInvariant'
  <1> USE DEF WorkInvariant, Control, Work, NoResultLost, Halted, Returns, Serving, Quiet,
              session, history, deviceVars
  <1>1. ASSUME WorkInvariant, NEW label \in {"build", "rebuild"}, NEW return \in {"recv", "timers"},
               BuildHeader(label, return)
        PROVE  WorkInvariant'
    <2>1. Unread = {}
      BY <1>1 DEF BuildHeader, Unread
    <2> QED
      BY <1>1, <2>1 DEF BuildHeader, StartRange, WriteStart
  <1>2. ASSUME WorkInvariant, NEW label \in {"build", "rebuild"}, BuildHeaderExhausted(label)
        PROVE  WorkInvariant'
    BY <1>2 DEF BuildHeaderExhausted, EndSession
  <1>3. ASSUME WorkInvariant, BuildHeaderMalformed
        PROVE  WorkInvariant'
    BY <1>3 DEF BuildHeaderMalformed, EndSession
  <1> QED
    BY <1>1, <1>2, <1>3 DEF BuildStep

\* service_results, one case per register access.
LEMMA ServiceKeepsWork == WorkInvariant /\ ServiceStep => WorkInvariant'
  <1> SUFFICES ASSUME WorkInvariant, ServiceStep
               PROVE  WorkInvariant'
    OBVIOUS
  <1> USE DEF WorkInvariant, Control, Work, NoResultLost, Halted, Returns, Serving, Quiet,
              session, history, deviceVars, EndSession
  <1>1. CASE Service
    BY <1>1 DEF Service, Serves
  <1>2. CASE PollResult
    BY <1>2 DEF PollResult, Submit, WriteAck
  <1>3. CASE PollEnd
    BY <1>3 DEF PollEnd
  <1>4. CASE ReadDone
    BY <1>4 DEF ReadDone
  <1>5. CASE NextRange
    <2>1. Unread = {}
      BY <1>5 DEF NextRange, FifoHolds, Unread
    <2> QED
      BY <1>5, <2>1, Zenon DEF NextRange, FifoHolds, StartRange, WriteStart, StopFirst
  <1>6. CASE ResultsLeft
    BY <1>6 DEF ResultsLeft
  <1>7. CASE Again
    BY <1>7 DEF Again
  <1> QED
    BY <1>1, <1>2, <1>3, <1>4, <1>5, <1>6, <1>7, Zenon DEF ServiceStep

\* The lines of the pool.
LEMMA LineKeepsWork == WorkInvariant /\ LineStep => WorkInvariant'
  <1> SUFFICES ASSUME WorkInvariant, LineStep
               PROVE  WorkInvariant'
    OBVIOUS
  <1> USE DEF WorkInvariant, Control, Work, NoResultLost, Halted, Returns, Serving, Quiet,
              session, history, deviceVars, EndSession, StopFirst
  <1>1. CASE LineRefused
    BY <1>1 DEF LineRefused
  <1>2. ASSUME NEW t \in Target, SetDifficulty(t)
        PROVE  WorkInvariant'
    BY <1>2 DEF SetDifficulty
  <1>3. ASSUME NEW e \in Extra1, SetExtranonce(e)
        PROVE  WorkInvariant'
    BY <1>3 DEF SetExtranonce, Assign
  <1>4. ASSUME NEW e \in Extra1, ReplySubscribe(e)
        PROVE  WorkInvariant'
    BY <1>4 DEF ReplySubscribe, Assign
  <1>5. ASSUME NEW j \in JobId, Notify(j)
        PROVE  WorkInvariant'
    BY <1>5 DEF Notify
  <1>6. CASE ReplyAuthorize
    BY <1>6 DEF ReplyAuthorize
  <1>7. ASSUME NEW id \in 0 .. IdMod - 1, ReplyShare(id)
        PROVE  WorkInvariant'
    BY <1>7 DEF ReplyShare
  <1> QED
    BY <1>1, <1>2, <1>3, <1>4, <1>5, <1>6, <1>7, Zenon DEF LineStep

\* Every step keeps the invariant.
LEMMA StepKeepsWork == WorkInvariant /\ [Next]_vars => WorkInvariant'
  <1> SUFFICES ASSUME WorkInvariant, [Next]_vars
               PROVE  WorkInvariant'
    OBVIOUS
  <1> USE DEF WorkInvariant, Control, Work, NoResultLost, Halted, Returns, Serving, Quiet,
              session, history, deviceVars, EndSession
  <1>1. CASE Close
    BY <1>1 DEF Close
  <1>2. CASE ApplyExtranonce
    BY <1>2 DEF ApplyExtranonce
  <1>3. CASE ApplyNotify
    BY <1>3 DEF ApplyNotify
  <1>4. CASE ApplyNotifyMalformed
    BY <1>4 DEF ApplyNotifyMalformed
  <1>5. CASE Connect
    BY <1>5 DEF Connect
  <1>6. CASE Leave
    BY <1>6 DEF Leave
  <1>7. CASE EndChunk
    BY <1>7 DEF EndChunk
  <1>8. CASE ShareTimeout
    BY <1>8 DEF ShareTimeout
  <1>9. CASE UNCHANGED vars
    BY <1>9, Zenon DEF vars, taskVars
  <1> HIDE DEF WorkInvariant
  <1> QED
    BY <1>1, <1>2, <1>3, <1>4, <1>5, <1>6, <1>7, <1>8, <1>9, StopKeepsWork, BuildKeepsWork,
       ServiceKeepsWork, LineKeepsWork, DeviceKeepsWork DEF Next, TaskStep
-----------------------------------------------------------------------------
\* The invariant holds in every reachable state.
LEMMA WorkInvariantHolds == Spec => []WorkInvariant
  BY InitWork, StepKeepsWork, PTL DEF Spec

\* The engines hash only for an authorized session with a current job, and
\* only the header in the task's buffer, however stop(), notifications and the
\* ends of sessions fall.
THEOREM HashesCurrentJob == Spec => []MinesCurrentJob
  <1>1. WorkInvariant => MinesCurrentJob
    BY DEF WorkInvariant, Control, Work, Quiet, MinesCurrentJob
  <1> QED
    BY <1>1, WorkInvariantHolds, PTL

\* service_results leaves a range, and build_header a header, only when every
\* result of it was read.
THEOREM ResultsReadFirst == Spec => []NoResultLost
  <1>1. WorkInvariant => NoResultLost
    BY DEF WorkInvariant
  <1> QED
    BY <1>1, WorkInvariantHolds, PTL
-----------------------------------------------------------------------------
(* Results.                                                                 *)

\* The values a header and a result are made of.
Typed ==
  /\ line \in JobId \cup {NoHeader}
  /\ extra1 \in Extra1 \cup {NoHeader} /\ extra2 \in 0 .. Extra2Size - 1
  /\ job \in [id : JobId \cup {NoHeader}, number : Nat, target : Target \cup {0}]
  /\ jobs \in Nat
  /\ pendingTarget \in Target \cup {0}
  /\ rangeStart \in Nat /\ left \in Nat
  /\ running => header \in Header

\* The results of the work in the registers.
Owned == [header : {regs}, range : Nat, hit : Nat]

\* Results on their way and in the FIFO are results of the registers' contents.
Results ==
  /\ fifo \in Seq(Owned) /\ inflight \in Seq(Owned)
  /\ NoStaleResult

ResultInvariant == Typed /\ Results

\* The parts of a queue hold what the queue holds.
LEMMA QueueParts ==
  ASSUME NEW S, NEW q \in Seq(S)
  PROVE  /\ \A i \in 1 .. Len(q) : <<q[i]>> \in Seq(S)
         /\ q # <<>> => Head(q) \in S /\ Tail(q) \in Seq(S)
         /\ \A e \in S : Append(q, e) \in Seq(S)
  <1>1. \A i \in 1 .. Len(q) : q[i] \in S
    OBVIOUS
  <1>2. \A e \in S : <<e>> \in Seq(S)
    OBVIOUS
  <1>3. q # <<>> => Head(q) \in S /\ Tail(q) \in Seq(S)
    OBVIOUS
  <1>4. \A e \in S : Append(q, e) \in Seq(S)
    OBVIOUS
  <1> QED
    BY <1>1, <1>2, <1>3, <1>4

\* The target before the pool sets one.
LEMMA EasiestTarget == Easiest \in Target
  BY SessionAssumption, Zenon DEF Easiest

\* Reset of board and task.
LEMMA InitResult == Init => ResultInvariant
  BY SessionAssumption
     DEF Init, DeviceInit, ResultInvariant, Typed, Results, NoStaleResult, NoJob

\* A result found, delivered or dropped.
LEMMA DeviceKeepsResult ==
  WorkInvariant /\ ResultInvariant /\ DeviceNext /\ UNCHANGED <<taskVars, history>>
    => ResultInvariant'
  <1> SUFFICES ASSUME WorkInvariant, ResultInvariant, DeviceNext, UNCHANGED <<taskVars, history>>
               PROVE  ResultInvariant'
    OBVIOUS
  <1> USE DEF ResultInvariant, Typed, Results, NoStaleResult, taskVars
  <1>1. CASE Find
    <2>1. Result \in Owned
      BY <1>1, SMTT(30) DEF Find, Result, Owned, WorkInvariant, Work
    <2>2. Owned' = Owned
      BY <1>1 DEF Find, Owned
    <2> QED
      BY <1>1, <2>1, <2>2 DEF Find
  <1>2. CASE Deliver
    <2>1. Owned' = Owned
      BY <1>2 DEF Deliver, Owned
    <2>2. /\ inflight # <<>> => Head(inflight) \in Owned /\ Tail(inflight) \in Seq(Owned)
          /\ \A e \in Owned : Append(fifo, e) \in Seq(Owned)
      BY QueueParts
    <2>3. inflight' \in Seq(Owned) /\ fifo' \in Seq(Owned)
      BY <1>2, <2>2, Zenon DEF Deliver
    <2> QED
      BY <1>2, <2>1, <2>3 DEF Deliver
  <1>3. CASE Finish
    BY <1>3 DEF Finish, Owned
  <1>4. CASE CoreDrains
    BY <1>4 DEF CoreDrains, Owned
  <1> QED
    BY <1>1, <1>2, <1>3, <1>4 DEF DeviceNext

\* stop(): what is left in the FIFO was not read before.
LEMMA StopKeepsResult == ResultInvariant /\ StopStep => ResultInvariant'
  <1> SUFFICES ASSUME ResultInvariant, StopStep
               PROVE  ResultInvariant'
    OBVIOUS
  <1> USE DEF ResultInvariant, Typed, Results, NoStaleResult, session
  <1>1. CASE StopWrite
    <2>1. Owned' = Owned
      BY <1>1 DEF StopWrite, WriteStop, Owned
    <2>2. Unread \subseteq Owned
      BY DEF Unread
    <2>3. <<>> \in Seq(Owned) /\ \A r \in Owned : <<r>> \in Seq(Owned)
      OBVIOUS
    <2>4. fifo' \in {<<>>} \cup {<<r>> : r \in Unread} /\ inflight' = <<>>
      BY <1>1, Zenon DEF StopWrite, WriteStop
    <2>5. fifo' \in Seq(Owned) /\ inflight' \in Seq(Owned)
      BY <2>2, <2>3, <2>4, Zenon
    <2> QED
      BY <1>1, <2>1, <2>5 DEF StopWrite, WriteStop
  <1>2. CASE StopDrained
    <2>1. Owned' = Owned
      BY <1>2 DEF StopDrained, WriteClear, Owned
    <2>2. fifo' = <<>>
      BY <1>2, ClearedEmpty DEF StopDrained, WriteClear
    <2> QED
      BY <1>2, <2>1, <2>2 DEF StopDrained, WriteClear
  <1> QED
    BY <1>1, <1>2 DEF StopStep

\* build_header: START clears the FIFO as the registers change.
LEMMA BuildKeepsResult == ResultInvariant /\ BuildStep => ResultInvariant'
  <1> USE DEF ResultInvariant, Typed, Results, NoStaleResult, session, deviceVars
  <1>1. ASSUME ResultInvariant, NEW label, NEW return, BuildHeader(label, return)
        PROVE  ResultInvariant'
    <2>1. header' \in Header
      BY <1>1, SessionAssumption DEF BuildHeader, Header
    <2>2. left' \in Nat
      BY <1>1, DeviceAssumption DEF BuildHeader, StartRange, WriteStart
    <2> QED
      <3>1. Typed'
        <4>1. extra2' \in 0 .. Extra2Size - 1
          <5>1. extra2' = IF extra2 + 1 = Extra2Size THEN 0 ELSE extra2 + 1
            BY <1>1, Zenon DEF BuildHeader
          <5>2. extra2 \in 0 .. Extra2Size - 1 /\ Extra2Size \in Nat \ {0}
            BY <1>1, SessionAssumption, Zenon
          <5> QED
            BY <5>1, <5>2, SMTT(30)
        <4>2. rangeStart' = 0 /\ UNCHANGED <<line, extra1, job, jobs, pendingTarget>>
          BY <1>1, Zenon DEF BuildHeader, StartRange
        <4> QED
          BY <1>1, <2>1, <2>2, <4>1, <4>2
      <3>2. fifo' = <<>> /\ inflight' = <<>> /\ event' = event
        BY <1>1 DEF BuildHeader, StartRange, WriteStart
      <3>3. Results'
        BY <1>1, <3>2
      <3> QED
        BY <3>1, <3>3
  <1>2. ASSUME ResultInvariant, NEW label, BuildHeaderExhausted(label)
        PROVE  ResultInvariant'
    BY <1>2 DEF BuildHeaderExhausted, EndSession, Owned
  <1>3. ASSUME ResultInvariant, BuildHeaderMalformed
        PROVE  ResultInvariant'
    BY <1>3 DEF BuildHeaderMalformed, EndSession, Owned
  <1> QED
    BY <1>1, <1>2, <1>3 DEF BuildStep

\* A result at the head of the FIFO is one of the header in the buffer.
LEMMA HeadVerifies ==
  WorkInvariant /\ ResultInvariant /\ pc = "poll" /\ fifo # <<>> => Verifies(Head(fifo))
  <1> SUFFICES ASSUME WorkInvariant, ResultInvariant, pc = "poll", fifo # <<>>
               PROVE  Verifies(Head(fifo))
    OBVIOUS
  <1>1. Head(fifo) \in Owned
    BY QueueParts DEF ResultInvariant, Results
  <1>2. Head(fifo).header = regs
    BY <1>1 DEF Owned
  <1>3. running
    BY DEF WorkInvariant, Control, Serving
  <1>4. regs = [header |-> header, target |-> job.target] /\ header \in Header
    BY <1>3 DEF WorkInvariant, Work, ResultInvariant, Typed
  <1>5. job.target \in Target \cup {0}
    BY DEF ResultInvariant, Typed
  <1>6. regs # NoHeader
    BY <1>4, <1>5, SessionAssumption DEF Registers
  <1>7. job.target <= job.target
    <2>1. Target \subseteq Nat
      BY SessionAssumption, Zenon
    <2>2. 0 \in Nat /\ \A n \in Nat : n <= n
      OBVIOUS
    <2> QED
      BY <1>5, <2>1, <2>2, Zenon
  <1>8. regs.header = header /\ regs.target = job.target
    BY <1>4
  <1> QED
    BY <1>2, <1>6, <1>7, <1>8 DEF Verifies

\* service_results.
LEMMA ServiceKeepsResult ==
  WorkInvariant /\ ResultInvariant /\ ServiceStep => ResultInvariant'
  <1> SUFFICES ASSUME WorkInvariant, ResultInvariant, ServiceStep
               PROVE  ResultInvariant'
    OBVIOUS
  <1> USE DEF ResultInvariant, Typed, Results, NoStaleResult, session, deviceVars, EndSession
  <1>1. CASE Service
    BY <1>1 DEF Service, Owned
  <1>2. CASE PollResult
    <2>1. Owned' = Owned
      BY <1>2 DEF PollResult, WriteAck, Owned
    <2>2. event' # "hardware_solution_invalid"
      BY <1>2, HeadVerifies DEF PollResult, Submit
    <2>3. fifo' \in Seq(Owned)
      BY <1>2 DEF PollResult, WriteAck, AfterAck
    <2> QED
      BY <1>2, <2>1, <2>2, <2>3 DEF PollResult, WriteAck
  <1>3. CASE PollEnd
    BY <1>3 DEF PollEnd, Owned
  <1>4. CASE ReadDone
    BY <1>4 DEF ReadDone, Owned
  <1>5. CASE NextRange
    <2>1. (rangeStart + 1) % NumRanges \in Nat
      BY SessionAssumption, SMTT(30)
    <2>2. left' \in Nat
      BY <1>5, DeviceAssumption DEF NextRange, StartRange, WriteStart
    <2>3. running
      BY <1>5 DEF NextRange, WorkInvariant, Control, Serving
    <2>4. fifo' \in Seq(Owned') /\ inflight' \in Seq(Owned')
      BY <1>5, Zenon DEF NextRange, StartRange, WriteStart, Owned
    <2> QED
      BY <1>5, <2>1, <2>2, <2>3, <2>4, Zenon DEF NextRange, StartRange
  <1>6. CASE ResultsLeft
    BY <1>6 DEF ResultsLeft, Owned
  <1>7. CASE Again
    BY <1>7 DEF Again, Owned
  <1> QED
    BY <1>1, <1>2, <1>3, <1>4, <1>5, <1>6, <1>7, Zenon DEF ServiceStep

\* The lines of the pool.
LEMMA LineKeepsResult == ResultInvariant /\ LineStep => ResultInvariant'
  <1> SUFFICES ASSUME ResultInvariant, LineStep
               PROVE  ResultInvariant'
    OBVIOUS
  <1> USE DEF ResultInvariant, Typed, Results, NoStaleResult, Owned,
              session, deviceVars, EndSession, StopFirst
  <1>1. CASE LineRefused
    BY <1>1 DEF LineRefused
  <1>2. ASSUME NEW t \in Target, SetDifficulty(t)
        PROVE  ResultInvariant'
    BY <1>2 DEF SetDifficulty
  <1>3. ASSUME NEW e \in Extra1, SetExtranonce(e)
        PROVE  ResultInvariant'
    BY <1>3 DEF SetExtranonce, Assign
  <1>4. ASSUME NEW e \in Extra1, ReplySubscribe(e)
        PROVE  ResultInvariant'
    BY <1>4 DEF ReplySubscribe, Assign
  <1>5. ASSUME NEW j \in JobId, Notify(j)
        PROVE  ResultInvariant'
    BY <1>5 DEF Notify
  <1>6. CASE ReplyAuthorize
    BY <1>6 DEF ReplyAuthorize
  <1>7. ASSUME NEW id \in 0 .. IdMod - 1, ReplyShare(id)
        PROVE  ResultInvariant'
    BY <1>7 DEF ReplyShare
  <1> QED
    BY <1>1, <1>2, <1>3, <1>4, <1>5, <1>6, <1>7, Zenon DEF LineStep

\* Every step keeps the invariant.
LEMMA StepKeepsResult == WorkInvariant /\ ResultInvariant /\ [Next]_vars => ResultInvariant'
  <1> SUFFICES ASSUME WorkInvariant, ResultInvariant, [Next]_vars
               PROVE  ResultInvariant'
    OBVIOUS
  <1> USE DEF ResultInvariant, Typed, Results, NoStaleResult, session, deviceVars, EndSession, Owned
  <1>1. CASE Close
    BY <1>1 DEF Close
  <1>2. CASE ApplyExtranonce
    BY <1>2, SessionAssumption DEF ApplyExtranonce
  <1>3. CASE ApplyNotify
    BY <1>3, SMTT(30) DEF ApplyNotify
  <1>4. CASE ApplyNotifyMalformed
    BY <1>4, Zenon DEF ApplyNotifyMalformed
  <1>5. CASE Connect
    BY <1>5, EasiestTarget, SessionAssumption, SMTT(30) DEF Connect
  <1>6. CASE Leave
    BY <1>6 DEF Leave
  <1>7. CASE EndChunk
    BY <1>7 DEF EndChunk
  <1>8. CASE ShareTimeout
    BY <1>8 DEF ShareTimeout
  <1>9. CASE UNCHANGED vars
    BY <1>9 DEF vars, taskVars
  <1> HIDE DEF ResultInvariant
  <1> QED
    BY <1>1, <1>2, <1>3, <1>4, <1>5, <1>6, <1>7, <1>8, <1>9, StopKeepsResult, BuildKeepsResult,
       ServiceKeepsResult, LineKeepsResult, DeviceKeepsResult DEF Next, TaskStep
-----------------------------------------------------------------------------
\* The invariant holds in every reachable state.
LEMMA ResultInvariantHolds == Spec => []ResultInvariant
  BY InitResult, StepKeepsResult, WorkInvariantHolds, PTL DEF Spec

\* service_results never sees a result it cannot verify: none of abandoned
\* work, of an interrupted compression or of an earlier header is left when
\* new work starts.
THEOREM ResultsVerify == Spec => []NoStaleResult
  <1>1. ResultInvariant => NoStaleResult
    BY DEF ResultInvariant, Results
  <1> QED
    BY <1>1, ResultInvariantHolds, PTL

-----------------------------------------------------------------------------
(* Headers.                                                                 *)

\* While a new extranonce1 waits for stop().
Reassigning ==
  pc = "extranonce" \/ (pc \in {"stop", "drain"} /\ after = "extranonce")

\* The headers started under the assignment in force have smaller extranonce2
\* values than the next, and a new assignment has started none.
Fresh ==
  /\ authorized => subscribed
  /\ \A s \in started : s.header \in Header
  /\ \A s \in started : exhausted \/ s.header.extra2 < extra2
  /\ Reassigning => started = {}

FreshInvariant == Fresh /\ FreshHeaders

\* The sizes of things.
LEMMA Sizes ==
  /\ Extra2Size \in Nat \ {0} /\ NumRanges \in Nat \ {0} /\ NumPending \in Nat \ {0}
  /\ IdMod \in Nat /\ IdMod > 4
  BY SessionAssumption, Zenon

\* A counter that wraps.
LEMMA NextModulo ==
  ASSUME NEW n \in Nat \ {0}, NEW x \in 0 .. n - 1
  PROVE  ((x + 1) % n = x + 1 /\ x + 1 < n) \/ (x + 1) % n = 0
  <1>1. CASE x + 1 = n
    BY <1>1
  <1>2. CASE x + 1 < n
    BY <1>2
  <1> QED
    BY <1>1, <1>2

\* build_header: the header differs from all before it.
LEMMA NewHeader ==
  ASSUME ResultInvariant, FreshInvariant, NEW label, NEW return, BuildHeader(label, return)
  PROVE  /\ extra2 \in Nat /\ Extra2Size \in Nat
         /\ \A s \in started : s.header \in Header /\ s.header.extra2 \in Nat
         /\ \A s \in started : s.header.extra2 < extra2
         /\ \A s \in started : s.header # [job |-> job.id, extra1 |-> extra1, extra2 |-> extra2]
  <1>1. extra2 \in Nat /\ Extra2Size \in Nat
    BY Sizes DEF ResultInvariant, Typed
  <1>2. \A s \in started : s.header.extra2 < extra2
    BY Zenon DEF FreshInvariant, Fresh, BuildHeader, HasExtra2
  <1>3. \A s \in started : s.header \in Header /\ s.header.extra2 \in Nat
    <2>1. \A s \in started : s.header \in Header
      BY Zenon DEF FreshInvariant, Fresh
    <2>2. \A h \in Header : h.extra2 \in Nat
      BY <1>1 DEF Header
    <2> QED
      BY <2>1, <2>2, Zenon
  <1>4. \A s \in started : s.header # [job |-> job.id, extra1 |-> extra1, extra2 |-> extra2]
    <2>1. \A s \in started : s.header.extra2 # extra2
      BY <1>1, <1>2, <1>3
    <2>2. [job |-> job.id, extra1 |-> extra1, extra2 |-> extra2].extra2 = extra2
      OBVIOUS
    <2> QED
      BY <2>1, <2>2, Zenon
  <1> QED
    BY <1>1, <1>2, <1>3, <1>4, Zenon

LEMMA BuildKeepsFresh == ResultInvariant /\ FreshInvariant /\ BuildStep => FreshInvariant'
  <1>1. ASSUME ResultInvariant, FreshInvariant,
               NEW label \in {"build", "rebuild"}, NEW return \in {"recv", "timers"},
               BuildHeader(label, return)
        PROVE  FreshInvariant'
    <2> DEFINE h == [job |-> job.id, extra1 |-> extra1, extra2 |-> extra2]
               new == [header |-> h, nth |-> Cardinality(started)]
    <2>1. started' = started \cup {new}
      BY <1>1 DEF BuildHeader
    <2>2. h \in Header
      BY <1>1 DEF ResultInvariant, Typed, Header
    <2>3. ~Reassigning' /\ UNCHANGED <<authorized, subscribed>>
      BY <1>1 DEF BuildHeader, Reassigning
    <2>4. extra2 \in Nat /\ Extra2Size \in Nat
      BY <1>1, NewHeader, Zenon
    <2>5. extra2 + 1 = Extra2Size => exhausted'
      BY <1>1, Zenon DEF BuildHeader
    <2>6. extra2 + 1 # Extra2Size => extra2' = extra2 + 1
      BY <1>1 DEF BuildHeader
    <2>7. \A s \in started : s.header.extra2 < extra2
      BY <1>1, NewHeader, Zenon
    <2>8. \A s \in started : s.header \in Header /\ s.header.extra2 \in Nat
      BY <1>1, NewHeader, Zenon
    <2>9. \A s \in started : s.header # h
      BY <1>1, NewHeader, Zenon
    <2>10. FreshHeaders'
      BY <1>1, <2>1, <2>9 DEF FreshHeaders, FreshInvariant
    <2>11. \A s \in started' : exhausted' \/ s.header.extra2 < extra2'
      BY <2>1, <2>4, <2>5, <2>6, <2>7, <2>8
    <2>12. \A s \in started' : s.header \in Header
      BY <2>1, <2>2, <2>8
    <2> QED
      BY <1>1, <2>3, <2>10, <2>11, <2>12 DEF FreshInvariant, Fresh
  <1>2. ASSUME FreshInvariant, NEW label, BuildHeaderExhausted(label)
        PROVE  FreshInvariant'
    BY <1>2 DEF BuildHeaderExhausted, EndSession, FreshInvariant, Fresh, FreshHeaders, Reassigning,
                session, history
  <1>3. ASSUME FreshInvariant, BuildHeaderMalformed
        PROVE  FreshInvariant'
    BY <1>3 DEF BuildHeaderMalformed, EndSession, FreshInvariant, Fresh, FreshHeaders, Reassigning,
                session, history
  <1> QED
    BY <1>1, <1>2, <1>3 DEF BuildStep

\* stop().
LEMMA StopKeepsFresh == FreshInvariant /\ StopStep => FreshInvariant'
  <1> SUFFICES ASSUME FreshInvariant, StopStep
               PROVE  FreshInvariant'
    OBVIOUS
  <1> USE DEF FreshInvariant, Fresh, FreshHeaders, Reassigning, session, history
  <1>1. CASE StopWrite
    BY <1>1, Zenon DEF StopWrite
  <1>2. CASE StopDrained
    BY <1>2 DEF StopDrained
  <1> QED
    BY <1>1, <1>2 DEF StopStep

\* service_results starts no header itself.
LEMMA ServiceKeepsFresh == FreshInvariant /\ ServiceStep => FreshInvariant'
  <1> SUFFICES ASSUME FreshInvariant, ServiceStep
               PROVE  FreshInvariant'
    OBVIOUS
  <1> USE DEF FreshInvariant, Fresh, FreshHeaders, Reassigning, session, history,
              EndSession
  <1>1. CASE Service
    BY <1>1 DEF Service
  <1>2. CASE PollResult
    BY <1>2, Zenon DEF PollResult, Submit
  <1>3. CASE PollEnd
    BY <1>3 DEF PollEnd
  <1>4. CASE ReadDone
    BY <1>4 DEF ReadDone
  <1>5. CASE NextRange
    BY <1>5 DEF NextRange, StopFirst
  <1>6. CASE ResultsLeft
    BY <1>6 DEF ResultsLeft
  <1>7. CASE Again
    BY <1>7 DEF Again
  <1> QED
    BY <1>1, <1>2, <1>3, <1>4, <1>5, <1>6, <1>7, Zenon DEF ServiceStep

\* The lines of the pool: a new extranonce1, or one that ends the session.
LEMMA LineKeepsFresh == FreshInvariant /\ LineStep => FreshInvariant'
  <1> SUFFICES ASSUME FreshInvariant, LineStep
               PROVE  FreshInvariant'
    OBVIOUS
  <1> USE DEF FreshInvariant, Fresh, FreshHeaders, Reassigning, session, history,
              EndSession, StopFirst
  <1>1. CASE LineRefused
    BY <1>1 DEF LineRefused
  <1>2. ASSUME NEW t \in Target, SetDifficulty(t)
        PROVE  FreshInvariant'
    BY <1>2 DEF SetDifficulty
  <1>3. ASSUME NEW e \in Extra1, SetExtranonce(e)
        PROVE  FreshInvariant'
    BY <1>3 DEF SetExtranonce, Assign
  <1>4. ASSUME NEW e \in Extra1, ReplySubscribe(e)
        PROVE  FreshInvariant'
    BY <1>4 DEF ReplySubscribe, Assign
  <1>5. ASSUME NEW j \in JobId, Notify(j)
        PROVE  FreshInvariant'
    BY <1>5 DEF Notify
  <1>6. CASE ReplyAuthorize
    BY <1>6 DEF ReplyAuthorize
  <1>7. ASSUME NEW id \in 0 .. IdMod - 1, ReplyShare(id)
        PROVE  FreshInvariant'
    BY <1>7 DEF ReplyShare
  <1> QED
    BY <1>1, <1>2, <1>3, <1>4, <1>5, <1>6, <1>7, Zenon DEF LineStep

\* Every step keeps the invariant.
LEMMA StepKeepsFresh ==
  ResultInvariant /\ FreshInvariant /\ [Next]_vars => FreshInvariant'
  <1> SUFFICES ASSUME ResultInvariant, FreshInvariant, [Next]_vars
               PROVE  FreshInvariant'
    OBVIOUS
  <1> USE DEF FreshInvariant, Fresh, FreshHeaders, Reassigning, session, history,
              EndSession
  <1>1. CASE Close
    BY <1>1 DEF Close
  <1>2. CASE ApplyExtranonce
    BY <1>2 DEF ApplyExtranonce
  <1>3. CASE ApplyNotify
    BY <1>3, Zenon DEF ApplyNotify
  <1>4. CASE ApplyNotifyMalformed
    BY <1>4 DEF ApplyNotifyMalformed
  <1>5. CASE Connect
    BY <1>5, Zenon DEF Connect
  <1>6. CASE Leave
    BY <1>6 DEF Leave
  <1>7. CASE EndChunk
    BY <1>7 DEF EndChunk
  <1>8. CASE ShareTimeout
    BY <1>8 DEF ShareTimeout
  <1>9. CASE DeviceNext /\ UNCHANGED <<taskVars, history>>
    BY <1>9 DEF taskVars
  <1>10. CASE UNCHANGED vars
    BY <1>10, Zenon DEF vars, taskVars
  <1> HIDE DEF FreshInvariant
  <1> QED
    BY <1>1, <1>2, <1>3, <1>4, <1>5, <1>6, <1>7, <1>8, <1>9, <1>10, StopKeepsFresh, BuildKeepsFresh,
       ServiceKeepsFresh, LineKeepsFresh DEF Next, TaskStep
-----------------------------------------------------------------------------
\* Reset of board and task.
LEMMA InitFresh == Init => FreshInvariant
  BY DEF Init, FreshInvariant, Fresh, FreshHeaders

\* The invariant holds in every reachable state.
LEMMA FreshInvariantHolds == Spec => []FreshInvariant
  BY InitFresh, StepKeepsFresh, ResultInvariantHolds, PTL DEF Spec

\* build_header starts no header twice under one assignment of the extranonce1,
\* whatever jobs come, with ids used before or not, and also when the extranonce2
\* runs out.  The pool may assign any extranonce1 at any time.
THEOREM HeadersDiffer == Spec => []FreshHeaders
  <1>1. FreshInvariant => FreshHeaders
    BY DEF FreshInvariant
  <1> QED
    BY <1>1, FreshInvariantHolds, PTL
-----------------------------------------------------------------------------
(* Answers.                                                                 *)

\* A submission is recorded with the slot's id and event.
Submission(s) == s = [id |-> s.id, event |-> s.event]

\* Ids are handed out in increasing order until they wrap, and then none is
\* left.
Numbered ==
  /\ nextId \in 0 .. IdMod - 1
  /\ pending = [i \in 1 .. NumPending |-> pending[i]]
  /\ \A i \in 1 .. NumPending : Submission(pending[i])
  /\ \A s \in sent : s.id \in 4 .. IdMod - 1 /\ (s.id < nextId \/ nextId < 4)
  /\ \A s, t \in sent : s.id = t.id => s = t
  /\ \A i, j \in 1 .. NumPending : pending[i].id # 0 /\ pending[i].id = pending[j].id => i = j

AnswerInvariant == Numbered /\ AnswersMatch

\* Only a connection, a submission and an answer touch the ids, the slots and
\* their history.
LEMMA SlotSteps ==
  [Next]_vars => \/ Connect \/ PollResult
                 \/ \E id \in 0 .. IdMod - 1 : ReplyShare(id)
                 \/ UNCHANGED <<nextId, pending, sent, answered>>
  <1> SUFFICES ASSUME [Next]_vars, ~Connect, ~PollResult, ~\E id \in 0 .. IdMod - 1 : ReplyShare(id)
               PROVE  UNCHANGED <<nextId, pending, sent, answered>>
    OBVIOUS
  <1> USE DEF session, history
  <1>1. CASE StopStep
    BY <1>1, Zenon DEF StopStep, StopWrite, StopDrained
  <1>2. CASE BuildStep
    BY <1>2, Zenon DEF BuildStep, BuildHeader, BuildHeaderExhausted, BuildHeaderMalformed
  <1>3. CASE ServiceStep
    BY <1>3, Zenon DEF ServiceStep, Service, PollEnd, ReadDone, NextRange, ResultsLeft, Again
  <1>4. CASE LineStep
    BY <1>4, Zenon DEF LineStep, LineRefused, SetDifficulty, SetExtranonce, ReplySubscribe, Notify,
                       ReplyAuthorize
  <1>5. CASE Close \/ ApplyExtranonce \/ ApplyNotify \/ ApplyNotifyMalformed
    BY <1>5, Zenon DEF Close, ApplyExtranonce, ApplyNotify, ApplyNotifyMalformed
  <1>6. CASE Leave \/ EndChunk \/ ShareTimeout
    BY <1>6, Zenon DEF Leave, EndChunk, ShareTimeout
  <1>7. CASE UNCHANGED <<taskVars, history>>
    BY <1>7, Zenon DEF taskVars
  <1> QED
    BY <1>1, <1>2, <1>3, <1>4, <1>5, <1>6, <1>7, Zenon DEF Next, TaskStep, vars

\* Reset of the task, and of a session.
LEMMA NoAnswers ==
  /\ nextId \in 0 .. IdMod - 1
  /\ pending = [i \in 1 .. NumPending |-> FreeSlot]
  /\ sent = {} /\ answered = {}
  => AnswerInvariant
  BY SMTT(30) DEF AnswerInvariant, Numbered, AnswersMatch, Submission, FreeSlot

\* A set of numbers has a least element.
LEMMA Least ==
  ASSUME NEW S \in SUBSET Nat, S # {}
  PROVE  \E j \in S : \A l \in S : j <= l
  <1> DEFINE R == OpToRel(<, Nat)
  <1>1. IsWellFoundedOn(R, Nat)
    BY NatLessThanWellFounded
  <1>2. \A x, y \in Nat : y < x => <<y, x>> \in R
    BY DEF OpToRel
  <1> HIDE DEF R
  <1>3. PICK x \in S : \A y \in S : <<y, x>> \notin R
    BY <1>1, WFMin
  <1>4. \A y \in S : y \in Nat /\ ~(y < x)
    BY <1>2, <1>3, Zenon
  <1>5. \A y \in S : x <= y
    BY <1>4
  <1> QED
    BY <1>5

\* A submission takes the next id, and the last id wraps to one that is refused.
LEMMA SubmitKeepsAnswers == AnswerInvariant /\ PollResult => AnswerInvariant'
  <1> SUFFICES ASSUME AnswerInvariant, PollResult
               PROVE  AnswerInvariant'
    OBVIOUS
  <1>1. CASE UNCHANGED <<nextId, pending, sent, answered>>
    BY <1>1 DEF AnswerInvariant, Numbered, AnswersMatch
  <1>2. CASE Submit
    <2>1. answered' = answered
      BY DEF PollResult
    <2>2. nextId \in 4 .. IdMod - 1 /\ nextId' = (nextId + 1) % IdMod
      <3>1. nextId \in 0 .. IdMod - 1
        BY Zenon DEF AnswerInvariant, Numbered
      <3>2. nextId >= 4 /\ nextId' = (nextId + 1) % IdMod
        BY <1>2, Zenon DEF Submit, IdUsable
      <3> QED
        BY <3>1, <3>2, Sizes
    <2>3. nextId' \in 0 .. IdMod - 1 /\ (nextId' = nextId + 1 \/ nextId' < 4)
      <3>1. IdMod \in Nat \ {0} /\ nextId \in 0 .. IdMod - 1
        BY <2>2, Sizes
      <3>2. (nextId' = nextId + 1 /\ nextId + 1 < IdMod) \/ nextId' = 0
        BY <2>2, <3>1, NextModulo, Zenon
      <3> QED
        BY <3>1, <3>2
    <2>4. CASE UNCHANGED <<pending, sent>>
      <3>1. \A s \in sent : s.id \in 4 .. IdMod - 1 /\ (s.id < nextId' \/ nextId' < 4)
        BY <2>2, <2>3, Sizes DEF AnswerInvariant, Numbered
      <3>2. Numbered'
        BY <2>3, <2>4, <3>1, Zenon DEF AnswerInvariant, Numbered
      <3>3. AnswersMatch'
        BY <2>1, <2>4, Zenon DEF AnswerInvariant, AnswersMatch
      <3> QED
        BY <3>2, <3>3 DEF AnswerInvariant
    <2>5. ASSUME NEW i \in FreeSlots, NEW e,
                 pending' = [pending EXCEPT ![i] = [id |-> nextId, event |-> e]],
                 sent' = sent \cup {[id |-> nextId, event |-> e]}
          PROVE  AnswerInvariant'
      <3> DEFINE new == [id |-> nextId, event |-> e]
      <3>1. i \in 1 .. NumPending /\ pending[i].id = 0
        BY DEF FreeSlots
      <3>2. pending' = [j \in 1 .. NumPending |-> IF j = i THEN new ELSE pending[j]]
        BY <2>5, <3>1 DEF AnswerInvariant, Numbered
      <3>3. new.id = nextId /\ Submission(new)
        BY DEF Submission
      <3>4. \A s \in sent : s.id # nextId
        BY <2>2 DEF AnswerInvariant, Numbered
      <3>5. \A j \in 1 .. NumPending : pending[j].id # nextId
        <4>1. nextId # 0
          BY <2>2
        <4> QED
          BY <3>4, <4>1, Zenon DEF AnswerInvariant, AnswersMatch
      <3> HIDE DEF new
      <3>6. Numbered'
        <4>1. \A s \in sent' : s.id \in 4 .. IdMod - 1 /\ (s.id < nextId' \/ nextId' < 4)
          BY <2>2, <2>3, <2>5, <3>3, Sizes, SMTT(30) DEF new, AnswerInvariant, Numbered
        <4>2. \A s, t \in sent' : s.id = t.id => s = t
          BY <2>5, <3>3, <3>4 DEF new, AnswerInvariant, Numbered
        <4>3. \A j, l \in 1 .. NumPending :
                pending'[j].id # 0 /\ pending'[j].id = pending'[l].id => j = l
          BY <3>2, <3>3, <3>5 DEF AnswerInvariant, Numbered
        <4>4. \A j \in 1 .. NumPending : Submission(pending'[j])
          BY <3>2, <3>3 DEF AnswerInvariant, Numbered
        <4> QED
          BY <2>3, <3>2, <4>1, <4>2, <4>3, <4>4 DEF Numbered, Submission
      <3>7. AnswersMatch'
        <4>1. \A s \in sent' : s.id > 3
          BY <2>2, <2>5, <3>3 DEF new, AnswerInvariant, AnswersMatch
        <4>2. \A a \in answered : a.id # nextId
          BY <3>4 DEF AnswerInvariant, AnswersMatch
        <4>3. \A j \in 1 .. NumPending : pending'[j].id # 0 => pending'[j] \in sent'
          BY <2>5, <3>2 DEF new, AnswerInvariant, AnswersMatch
        <4> QED
          <5>1. answered' \subseteq sent'
            BY <2>1, <2>5, Zenon DEF AnswerInvariant, AnswersMatch
          <5>2. ASSUME NEW a \in answered', NEW j \in 1 .. NumPending
                PROVE  pending'[j].id # a.id
            <6>1. a \in answered
              BY <2>1
            <6>2. pending'[j] = IF j = i THEN new ELSE pending[j]
              BY <3>2
            <6> QED
              BY <3>3, <4>2, <6>1, <6>2, Zenon DEF AnswerInvariant, AnswersMatch
          <5> QED
            BY <4>1, <4>3, <5>1, <5>2, Zenon DEF AnswersMatch
      <3> QED
        BY <3>6, <3>7 DEF AnswerInvariant
    <2> QED
      <3>1. FreeSlots # {}
        BY <1>2 DEF Submit
      <3>2. (CHOOSE j \in FreeSlots : \A l \in FreeSlots : j <= l) \in FreeSlots
        <4>1. FreeSlots \in SUBSET Nat
          BY Sizes DEF FreeSlots
        <4> QED
          BY <3>1, <4>1, Least, Zenon
      <3> QED
        BY <1>2, <2>4, <2>5, <3>2, Zenon DEF Submit
  <1> QED
    BY <1>1, <1>2, Zenon DEF PollResult

\* An answer releases the slot of its id and no other.
LEMMA ReplyKeepsAnswers ==
  ASSUME NEW id, AnswerInvariant, ReplyShare(id)
  PROVE  AnswerInvariant'
  <1>1. PICK i \in 1 .. NumPending :
           /\ pending[i].id = id
           /\ pending' = [pending EXCEPT ![i].id = 0]
           /\ answered' = answered \cup {[id |-> id, event |-> pending[i].event]}
    BY DEF ReplyShare
  <1>2. id >= 4 /\ UNCHANGED <<nextId, sent>>
    BY DEF ReplyShare
  <1>3. pending[i] = [id |-> id, event |-> pending[i].event]
    BY <1>1 DEF AnswerInvariant, Numbered, Submission
  <1>4. /\ pending' = [j \in 1 .. NumPending |-> pending'[j]]
        /\ \A j \in 1 .. NumPending \ {i} : pending'[j] = pending[j]
        /\ pending'[i] = [id |-> 0, event |-> pending[i].event]
    BY <1>1, <1>3 DEF AnswerInvariant, Numbered
  <1>5. id # 0 /\ pending[i] \in sent
    BY <1>1, <1>2 DEF AnswerInvariant, AnswersMatch
  <1>6. Numbered'
    <2>1. pending'[i].id = 0 /\ Submission(pending'[i])
      BY <1>4 DEF Submission
    <2>2. \A j \in 1 .. NumPending : j = i \/ pending'[j] = pending[j]
      BY <1>4
    <2>3. \A j \in 1 .. NumPending : Submission(pending'[j])
      BY <2>1, <2>2, Zenon DEF AnswerInvariant, Numbered, Submission
    <2>4. \A j, l \in 1 .. NumPending :
            pending'[j].id # 0 /\ pending'[j].id = pending'[l].id => j = l
      BY <2>1, <2>2, Zenon DEF AnswerInvariant, Numbered
    <2> QED
      BY <1>2, <1>4, <2>3, <2>4, Zenon DEF AnswerInvariant, Numbered, Submission
  <1>7. AnswersMatch'
    <2>1. answered' = answered \cup {pending[i]}
      BY <1>1, <1>3
    <2>2. \A j \in 1 .. NumPending : pending'[j].id # id
      <3>1. \A j \in 1 .. NumPending : pending[j].id = pending[i].id /\ pending[j].id # 0 => j = i
        BY <1>1, Zenon DEF AnswerInvariant, Numbered
      <3>2. \A j \in 1 .. NumPending : j # i => pending'[j].id # id
        BY <1>1, <1>4, <1>5, <3>1
      <3>3. pending'[i].id # id
        BY <1>4, <1>5
      <3> QED
        BY <3>2, <3>3
    <2>3. \A a \in answered, j \in 1 .. NumPending : pending'[j].id # a.id
      <3>1. \A a \in answered : a.id > 3
        BY DEF AnswerInvariant, AnswersMatch
      <3> QED
        BY <1>4, <3>1 DEF AnswerInvariant, AnswersMatch
    <2> QED
      BY <1>1, <1>2, <1>4, <1>5, <2>1, <2>2, <2>3 DEF AnswerInvariant, AnswersMatch
  <1> QED
    BY <1>6, <1>7 DEF AnswerInvariant

\* Every step keeps the invariant.
LEMMA StepKeepsAnswers == AnswerInvariant /\ [Next]_vars => AnswerInvariant'
  <1>1. ASSUME AnswerInvariant, Connect
        PROVE  AnswerInvariant'
    <2>1. 4 \in 0 .. IdMod - 1
      BY Sizes
    <2>2. /\ nextId' = 4 /\ pending' = [i \in 1 .. NumPending |-> FreeSlot]
          /\ sent' = {} /\ answered' = {}
      BY <1>1, Zenon DEF Connect
    <2> QED
      BY <2>1, <2>2
         DEF AnswerInvariant, Numbered, AnswersMatch, Submission, FreeSlot, NoEvent
  <1>2. ASSUME AnswerInvariant, UNCHANGED <<nextId, pending, sent, answered>>
        PROVE  AnswerInvariant'
    BY <1>2 DEF AnswerInvariant, Numbered, AnswersMatch
  <1> QED
    BY <1>1, <1>2, SlotSteps, SubmitKeepsAnswers, ReplyKeepsAnswers, Zenon

\* The invariant holds in every reachable state.
LEMMA AnswerInvariantHolds == Spec => []AnswerInvariant
  <1>1. Init => AnswerInvariant
    <2>1. 0 \in 0 .. IdMod - 1
      BY Sizes
    <2> QED
      BY <2>1, NoAnswers, Zenon DEF Init
  <1> QED
    BY <1>1, StepKeepsAnswers, PTL DEF Spec

\* The pool's answers are matched with their submissions, whatever their order,
\* and whatever jobs and time-outs come in between.
THEOREM AnswersReported == Spec => []AnswersMatch
  <1>1. AnswerInvariant => AnswersMatch
    BY DEF AnswerInvariant
  <1> QED
    BY <1>1, AnswerInvariantHolds, PTL
-----------------------------------------------------------------------------
(* Submissions.                                                             *)

\* Between START and stop() the position of the engines is known.
Mining == running /\ pc \notin {"stop", "drain"}

\* A queue holds results in the order in which they were found.
Items(q) == {q[i] : i \in DOMAIN q}
Descends(q) == \A i, j \in DOMAIN q : i < j => q[i].hit > q[j].hit

\* What is queued was found in the range that is scanned, in that order.
Ordered ==
  /\ Descends(fifo) /\ Descends(inflight)
  /\ \A x \in Unread : x.range = rangeStart /\ x.hit > left
  /\ \A x \in Items(fifo), y \in Items(inflight) : x.hit > y.hit

\* A result that was found before everything that is queued or to come.
Past(r) ==
  \/ r.range < rangeStart
  \/ r.range = rangeStart /\ r.hit > left /\ \A x \in Unread : r.hit > x.hit

\* The submissions since the last assignment of an extranonce1 are of headers
\* started since then, and before all that is queued or to come of the header in
\* the buffer.
Faithful ==
  /\ rangeStart \in 0 .. NumRanges - 1
  /\ \A s \in sent : s.event.result.range \in Nat /\ s.event.result.hit \in Nat
  /\ \A s \in sent \ earlier : \E t \in started : t.header = s.event.result.header.header
  /\ Mining =>
       /\ \E t \in started : t.header = header
       /\ Ordered
       /\ \A s \in sent \ earlier : s.event.result.header.header = header => Past(s.event.result)

ShareInvariant == Faithful /\ SubmissionsFaithful

\* START empties the queues.
LEMMA EmptiedOrdered == fifo' = <<>> /\ inflight' = <<>> => Ordered'
  <1> SUFFICES ASSUME fifo' = <<>>, inflight' = <<>>
               PROVE  Ordered'
    OBVIOUS
  <1>1. Items(fifo') = {} /\ Descends(fifo') /\ Descends(inflight')
    BY DEF Items, Descends
  <1>2. Unread' = {}
    BY DEF Unread
  <1> QED
    BY <1>1, <1>2, Zenon DEF Ordered

\* A queue without its head.
LEMMA TailItems ==
  ASSUME NEW S, NEW q \in Seq(S), q # <<>>
  PROVE  /\ Head(q) \in Items(q) /\ Items(Tail(q)) \subseteq Items(q)
         /\ Items(q) = Items(Tail(q)) \cup {Head(q)}
         /\ Descends(q) => /\ Descends(Tail(q))
                           /\ \A x \in Items(Tail(q)) : Head(q).hit > x.hit
  <1>1. /\ DOMAIN q = 1 .. Len(q) /\ Len(q) \in Nat \ {0} /\ Head(q) = q[1]
        /\ DOMAIN Tail(q) = 1 .. Len(q) - 1
        /\ \A i \in 1 .. Len(q) - 1 : i + 1 \in 2 .. Len(q) /\ Tail(q)[i] = q[i + 1]
    OBVIOUS
  <1>2. \A i \in 2 .. Len(q) : i - 1 \in 1 .. Len(q) - 1 /\ Tail(q)[i - 1] = q[i]
    OBVIOUS
  <1>3. Head(q) \in Items(q) /\ Items(Tail(q)) \subseteq Items(q)
    BY <1>1, SMTT(30) DEF Items
  <1>4. Items(q) \subseteq Items(Tail(q)) \cup {Head(q)}
    <2> SUFFICES ASSUME NEW i \in DOMAIN q
                 PROVE  q[i] \in Items(Tail(q)) \cup {Head(q)}
      BY DEF Items
    <2>1. CASE i = 1
      BY <1>1, <2>1
    <2>2. CASE i \in 2 .. Len(q)
      BY <1>1, <1>2, <2>2, Zenon DEF Items
    <2> QED
      BY <1>1, <2>1, <2>2
  <1>5. ASSUME Descends(q), NEW i \in DOMAIN Tail(q), NEW j \in DOMAIN Tail(q), i < j
        PROVE  Tail(q)[i].hit > Tail(q)[j].hit
    <2>1. i + 1 \in DOMAIN q /\ j + 1 \in DOMAIN q /\ i + 1 < j + 1
      BY <1>1, <1>5
    <2>2. q[i + 1].hit > q[j + 1].hit
      BY <1>5, <2>1 DEF Descends
    <2> QED
      BY <1>1, <2>2
  <1>6. ASSUME Descends(q), NEW i \in DOMAIN Tail(q)
        PROVE  Head(q).hit > Tail(q)[i].hit
    <2>1. 1 \in DOMAIN q /\ i + 1 \in DOMAIN q /\ 1 < i + 1
      BY <1>1
    <2>2. q[1].hit > q[i + 1].hit
      BY <1>6, <2>1 DEF Descends
    <2> QED
      BY <1>1, <2>2
  <1> QED
    BY <1>3, <1>4, <1>5, <1>6, Zenon DEF Descends, Items

\* A queue with one more result.
LEMMA AppendItems ==
  ASSUME NEW S, NEW q \in Seq(S), NEW e \in S
  PROVE  /\ Items(Append(q, e)) = Items(q) \cup {e}
         /\ Descends(q) /\ (\A x \in Items(q) : x.hit > e.hit) => Descends(Append(q, e))
  <1> DEFINE p == Append(q, e)
  <1>1. /\ DOMAIN q = 1 .. Len(q) /\ Len(q) \in Nat
        /\ DOMAIN p = 1 .. Len(q) + 1
        /\ \A i \in 1 .. Len(q) : p[i] = q[i]
        /\ p[Len(q) + 1] = e
    OBVIOUS
  <1> HIDE DEF p
  <1>2. Items(p) = Items(q) \cup {e}
    BY <1>1 DEF Items
  <1>3. ASSUME Descends(q), \A x \in Items(q) : x.hit > e.hit,
               NEW i \in DOMAIN p, NEW j \in DOMAIN p, i < j
        PROVE  p[i].hit > p[j].hit
    <2>1. i \in DOMAIN q /\ p[i] = q[i] /\ q[i] \in Items(q)
      <3>1. i \in 1 .. Len(q)
        <4>1. i \in 1 .. Len(q) + 1 /\ j \in 1 .. Len(q) + 1 /\ i < j /\ Len(q) \in Nat
          BY <1>1, <1>3, Zenon
        <4> QED
          BY <4>1
      <3> QED
        BY <1>1, <3>1, Zenon DEF Items
    <2>2. CASE j \in DOMAIN q
      BY <1>1, <1>3, <2>1, <2>2 DEF Descends
    <2>3. CASE j = Len(q) + 1
      BY <1>1, <1>3, <2>1, <2>3
    <2> QED
      BY <1>1, <2>2, <2>3
  <1> QED
    BY <1>2, <1>3, Zenon DEF Descends, p

\* What the results in the queues are.
LEMMA QueuedResults ==
  ResultInvariant =>
    /\ left \in Nat /\ rangeStart \in Nat
    /\ \A r \in Owned : r.range \in Nat /\ r.hit \in Nat /\ r.header = regs
    /\ fifo \in Seq(Owned) /\ inflight \in Seq(Owned)
    /\ Unread \subseteq Owned
    /\ Unread = Items(fifo) \cup Items(inflight)
  <1>1. \A r \in Owned : r.range \in Nat /\ r.hit \in Nat /\ r.header = regs
    BY DEF Owned
  <1>2. \A q \in Seq(Owned) : \A i \in DOMAIN q : q[i] \in Owned
    OBVIOUS
  <1> QED
    BY <1>1, <1>2, Zenon DEF ResultInvariant, Typed, Results, Unread, Items

\* A result found while the engines scan comes after all others.
LEMMA FindKeepsOrder ==
  ASSUME WorkInvariant, ResultInvariant, Ordered, Find, UNCHANGED rangeStart
  PROVE  Ordered' /\ \A r : r.hit \in Nat /\ Past(r) => Past(r)'
  <1> DEFINE new == Result
  <1>1. new \in Owned /\ new.range = rangeStart /\ new.hit = left
    <2>1. work = [header |-> regs, range |-> rangeStart]
      BY DEF Find, WorkInvariant, Work
    <2>2. new = [header |-> regs, range |-> rangeStart, hit |-> left]
      BY <2>1 DEF Result
    <2>3. left \in Nat /\ rangeStart \in Nat
      BY QueuedResults
    <2> QED
      BY <2>2, <2>3 DEF Owned
  <1>2. /\ inflight' = Append(inflight, new) /\ left' = left - 1 /\ left \in Nat
        /\ UNCHANGED fifo
    BY QueuedResults DEF Find
  <1> HIDE DEF new
  <1>3. Items(inflight') = Items(inflight) \cup {new}
    BY <1>1, <1>2, QueuedResults, AppendItems
  <1>4. Unread' = Unread \cup {new}
    BY <1>2, <1>3, Zenon DEF Unread, Items
  <1>5. \A x \in Unread : x.hit > new.hit /\ x.hit \in Nat
    BY <1>1, QueuedResults DEF Ordered
  <1>6. Descends(inflight')
    BY <1>1, <1>2, <1>5, QueuedResults, AppendItems DEF Ordered
  <1>7. \A x \in Unread' : x.range = rangeStart /\ x.hit > left'
    BY <1>1, <1>2, <1>4, <1>5 DEF Ordered
  <1>8. \A x \in Items(fifo), y \in Items(inflight') : x.hit > y.hit
    BY <1>3, <1>5, QueuedResults, Zenon DEF Ordered
  <1>9. Ordered'
    BY <1>2, <1>6, <1>7, <1>8, Zenon DEF Ordered
  <1>10. ASSUME NEW r, r.hit \in Nat, Past(r)
         PROVE  Past(r)'
    BY <1>1, <1>2, <1>4, <1>10 DEF Past
  <1> QED
    BY <1>9, <1>10

\* A result that moves to the FIFO, or is dropped, keeps its place.
LEMMA DeliverKeepsOrder ==
  ASSUME ResultInvariant, Ordered, Deliver, UNCHANGED rangeStart
  PROVE  Ordered' /\ \A r : Past(r) => Past(r)'
  <1> DEFINE new == Head(inflight)
  <1>1. /\ inflight' = Tail(inflight) /\ inflight # <<>> /\ UNCHANGED left
        /\ UNCHANGED fifo \/ fifo' = Append(fifo, new)
    BY Zenon DEF Deliver
  <1>2. /\ Items(inflight) = Items(inflight') \cup {new} /\ new \in Owned
        /\ Descends(inflight') /\ \A x \in Items(inflight') : new.hit > x.hit
    BY <1>1, QueuedResults, TailItems DEF Ordered
  <1> HIDE DEF new
  <1>3. CASE UNCHANGED fifo
    <2>1. Unread' \subseteq Unread
      BY <1>2, <1>3, Zenon DEF Unread, Items
    <2> QED
      BY <1>1, <1>2, <1>3, <2>1, Zenon DEF Ordered, Past
  <1>4. CASE fifo' = Append(fifo, new)
    <2>1. Items(fifo') = Items(fifo) \cup {new}
      BY <1>2, <1>4, QueuedResults, AppendItems
    <2>2. Descends(fifo')
      BY <1>2, <1>4, QueuedResults, AppendItems DEF Ordered
    <2>3. Unread' = Unread
      BY <1>2, <2>1, Zenon DEF Unread, Items
    <2>4. \A x \in Items(fifo'), y \in Items(inflight') : x.hit > y.hit
      BY <1>2, <2>1, Zenon DEF Ordered
    <2> QED
      BY <1>1, <1>2, <2>2, <2>3, <2>4, Zenon DEF Ordered, Past
  <1> QED
    BY <1>1, <1>3, <1>4, Zenon

\* The device, beside the task.
LEMMA DeviceKeepsShares ==
  ASSUME WorkInvariant, ResultInvariant, ShareInvariant, DeviceNext,
         UNCHANGED <<taskVars, history>>
  PROVE  ShareInvariant'
  <1>1. UNCHANGED <<pc, running, header, rangeStart, sent, started, earlier>>
    BY Zenon DEF taskVars, history
  <1>2. \A s \in sent : s.event.result.hit \in Nat
    BY DEF ShareInvariant, Faithful
  <1>3. Mining' = Mining
    BY <1>1 DEF Mining
  <1>4. ASSUME Mining, Ordered
        PROVE  Ordered' /\ \A r : r.hit \in Nat /\ Past(r) => Past(r)'
    <2>1. CASE Find
      BY <1>1, <1>4, <2>1, FindKeepsOrder
    <2>2. CASE Deliver
      BY <1>1, <1>4, <2>2, DeliverKeepsOrder, Zenon
    <2>3. CASE Finish
      <3>1. left' = 0 /\ left \in Nat /\ UNCHANGED <<fifo, inflight>>
        BY <2>3, QueuedResults DEF Finish
      <3>2. Unread' = Unread /\ \A x \in Unread : x.hit \in Nat
        BY <3>1, QueuedResults DEF Unread
      <3>3. \A h \in Nat : h > left => h > left'
        BY <3>1
      <3> QED
        BY <1>1, <1>4, <3>1, <3>2, <3>3, Zenon DEF Ordered, Past
    <2>4. CASE CoreDrains
      <3>1. Unread' = Unread /\ UNCHANGED <<fifo, inflight, left>>
        BY <2>4 DEF CoreDrains, Unread
      <3> QED
        BY <1>1, <1>4, <3>1, Zenon DEF Ordered, Past
    <2> QED
      BY <2>1, <2>2, <2>3, <2>4, Zenon DEF DeviceNext
  <1>5. SubmissionsFaithful'
    BY <1>1, Zenon DEF ShareInvariant, SubmissionsFaithful
  <1>6. Faithful'
    BY <1>1, <1>2, <1>3, <1>4, Zenon DEF ShareInvariant, Faithful
  <1> QED
    BY <1>5, <1>6 DEF ShareInvariant

\* A submission: the head of the FIFO, found under the header in the buffer.
LEMMA SubmitKeepsShares ==
  ASSUME WorkInvariant, ResultInvariant, AnswerInvariant, AnswerInvariant', ShareInvariant, PollResult
  PROVE  ShareInvariant'
  <1>r. PICK r : r = Head(fifo)
    OBVIOUS
  <1>1. UNCHANGED <<running, header, rangeStart, started, earlier, left, inflight>>
    BY Zenon DEF PollResult, WriteAck
  <1>2. Mining /\ running
    BY DEF PollResult, Mining, WorkInvariant, Control, Serving
  <1>3. /\ Ordered
        /\ \A s \in sent \ earlier : s.event.result.header.header = header => Past(s.event.result)
    BY <1>2 DEF ShareInvariant, Faithful
  <1>4. /\ r \in Owned /\ r \in Unread /\ Items(fifo) = Items(fifo') \cup {r}
        /\ Descends(fifo') /\ \A x \in Items(fifo') : r.hit > x.hit
    <2>1. fifo # <<>> /\ fifo' = Tail(fifo) /\ fifo \in Seq(Owned)
      BY QueuedResults DEF PollResult, WriteAck, AfterAck
    <2>2. r \in Items(fifo)
      BY <1>r, <2>1, TailItems
    <2> QED
      BY <1>r, <1>3, <2>1, <2>2, QueuedResults, TailItems DEF Ordered
  <1>5. /\ r.range \in Nat /\ r.hit \in Nat /\ r.header = regs
        /\ r.range = rangeStart /\ r.hit > left
    BY <1>3, <1>4, QueuedResults DEF Ordered
  <1>6. r.header.header = header /\ header.job = job.id
    <2>1. regs = [header |-> header, target |-> job.target] /\ header.job = job.id
      BY <1>2, Zenon DEF WorkInvariant, Work
    <2>2. regs.header = header
      BY <2>1
    <2> QED
      BY <1>5, <2>1, <2>2, Zenon
  <1>a. Items(fifo') \subseteq Items(fifo) /\ Unread' = Items(fifo') \cup Items(inflight)
    BY <1>1, <1>4, Zenon DEF Unread, Items
  <1>b. /\ Unread' \subseteq Unread
        /\ \A x \in Unread' : r.hit > x.hit
    <2>1. \A x \in Items(inflight) : r.hit > x.hit
      BY <1>3, <1>4, Zenon DEF Ordered
    <2> QED
      BY <1>4, <1>a, <2>1, QueuedResults, Zenon
  <1>7. Ordered'
    BY <1>1, <1>3, <1>4, <1>a, <1>b, Zenon DEF Ordered
  <1>8. Past(r)' /\ \A x : Past(x) => Past(x)'
    BY <1>1, <1>5, <1>b, Zenon DEF Past
  <1>9. CASE UNCHANGED sent
    BY <1>1, <1>2, <1>3, <1>7, <1>8, <1>9, Zenon DEF ShareInvariant, Faithful, SubmissionsFaithful
  <1>10. ASSUME NEW i, NEW e, e.result = r, e.job = job.id, e.extra2 = header.extra2,
                sent' = sent \cup {[id |-> i, event |-> e]}
         PROVE  ShareInvariant'
    <2> DEFINE new == [id |-> i, event |-> e]
    <2>1. new.event.result = r /\ new.event.job = job.id /\ new.event.extra2 = header.extra2
      BY <1>10
    <2>2. sent' = sent \cup {new}
      BY <1>10
    <2> HIDE DEF new
    <2>3. ~Past(r)
      BY <1>4, <1>5 DEF Past
    <2>4. \A s \in sent \ earlier : s.event.result # r
      BY <1>3, <1>6, <2>3
    <2>5. \A s, t \in sent' : s.id = t.id => s = t
      BY DEF AnswerInvariant, Numbered
    <2>6. \A s, t \in sent' \ earlier' : s.event.result = t.event.result => s = t
      BY <1>1, <2>1, <2>2, <2>4 DEF ShareInvariant, SubmissionsFaithful
    <2>7. \A s \in sent' : /\ s.event.job = s.event.result.header.header.job
                           /\ s.event.extra2 = s.event.result.header.header.extra2
      BY <1>6, <2>1, <2>2 DEF ShareInvariant, SubmissionsFaithful
    <2>8. SubmissionsFaithful'
      BY <2>5, <2>6, <2>7 DEF SubmissionsFaithful
    <2>9. Faithful'
      BY <1>1, <1>2, <1>3, <1>5, <1>6, <1>7, <1>8, <2>1, <2>2 DEF ShareInvariant, Faithful
    <2> QED
      BY <2>8, <2>9 DEF ShareInvariant
  <1> QED
    <2> DEFINE e == [job |-> job.id, number |-> job.number, extra2 |-> header.extra2, result |-> r]
    <2>1. e.result = r /\ e.job = job.id /\ e.extra2 = header.extra2
      OBVIOUS
    <2>2. UNCHANGED sent \/ sent' = sent \cup {[id |-> nextId, event |-> e]}
      BY <1>r, Zenon DEF PollResult, Submit
    <2> QED
      BY <1>9, <1>10, <2>1, <2>2

\* START of a new header, which nothing was submitted of.
LEMMA BuildKeepsShares ==
  ASSUME WorkInvariant, ResultInvariant, FreshInvariant, ShareInvariant,
         NEW label \in {"build", "rebuild"}, NEW return \in {"recv", "timers"},
         BuildHeader(label, return)
  PROVE  ShareInvariant'
  <1>1. PICK h : h = [job |-> job.id, extra1 |-> extra1, extra2 |-> extra2]
    OBVIOUS
  <1>2. /\ header' = h /\ rangeStart' = 0 /\ fifo' = <<>> /\ inflight' = <<>>
        /\ UNCHANGED <<sent, earlier>>
        /\ started' = started \cup {[header |-> h, nth |-> Cardinality(started)]}
    BY <1>1, Zenon DEF BuildHeader, StartRange, WriteStart
  <1>3. \A s \in started : s.header # h
    BY <1>1, NewHeader, Zenon
  <1>4. \A s \in sent \ earlier : s.event.result.header.header # h
    BY <1>3, Zenon DEF ShareInvariant, Faithful
  <1>5. Ordered'
    BY <1>2, EmptiedOrdered, Zenon
  <1>6. /\ \A s \in sent' \ earlier' : \E t \in started' : t.header = s.event.result.header.header
        /\ \E t \in started' : t.header = header'
    <2>1. [header |-> h, nth |-> Cardinality(started)].header = h
      OBVIOUS
    <2> QED
      BY <1>2, <2>1, Zenon DEF ShareInvariant, Faithful
  <1>7. 0 \in 0 .. NumRanges - 1
    BY Sizes
  <1>8. SubmissionsFaithful'
    BY <1>2, Zenon DEF ShareInvariant, SubmissionsFaithful
  <1> QED
    BY <1>2, <1>4, <1>5, <1>6, <1>7, <1>8, Zenon DEF ShareInvariant, Faithful

\* The next range of the header, or stop() before the next header.
LEMMA NextRangeKeepsShares ==
  ASSUME WorkInvariant, ResultInvariant, ShareInvariant, NextRange
  PROVE  ShareInvariant'
  <1>1. UNCHANGED <<header, sent, started, earlier>>
    BY DEF NextRange
  <1>2. SubmissionsFaithful'
    BY <1>1, Zenon DEF ShareInvariant, SubmissionsFaithful
  <1>3. /\ rangeStart' = (rangeStart + 1) % NumRanges
        /\ rangeStart' = 0 => pc' = "stop"
        /\ rangeStart' # 0 => fifo' = <<>> /\ inflight' = <<>>
    BY DEF NextRange, StartRange, WriteStart, StopFirst
  <1>4. rangeStart' \in 0 .. NumRanges - 1 /\ (rangeStart' # 0 => rangeStart' > rangeStart)
    <2>1. rangeStart \in 0 .. NumRanges - 1 /\ NumRanges \in Nat \ {0}
      BY Sizes, Zenon DEF ShareInvariant, Faithful
    <2>2. (rangeStart' = rangeStart + 1 /\ rangeStart + 1 < NumRanges) \/ rangeStart' = 0
      BY <1>3, <2>1, NextModulo, Zenon
    <2> QED
      BY <2>1, <2>2
  <1>5. ASSUME Mining'
        PROVE  /\ \E t \in started' : t.header = header'
               /\ Ordered'
               /\ \A s \in sent' \ earlier' : s.event.result.header.header = header' => Past(s.event.result)'
    <2>1. rangeStart' # 0
      BY <1>3, <1>5 DEF Mining
    <2>2. Ordered'
      BY <1>3, <2>1, EmptiedOrdered, Zenon
    <2>3. Mining
      BY DEF NextRange, Mining, WorkInvariant, Control, Serving
    <2>4. ASSUME NEW s \in sent \ earlier, s.event.result.header.header = header
          PROVE  Past(s.event.result)'
      <3>1. PICK r : r = s.event.result
        OBVIOUS
      <3>2. r.range \in Nat /\ Past(r)
        BY <2>3, <2>4, <3>1, Zenon DEF ShareInvariant, Faithful
      <3>3. r.range < rangeStart'
        <4>1. rangeStart \in Int /\ rangeStart' \in Int /\ rangeStart < rangeStart'
          <5>1. rangeStart \in 0 .. NumRanges - 1
            BY Zenon DEF ShareInvariant, Faithful
          <5> QED
            BY <1>4, <2>1, <5>1, Sizes
        <4>2. r.range < rangeStart \/ r.range = rangeStart
          BY <3>2, Zenon DEF Past
        <4> QED
          BY <3>2, <4>1, <4>2
      <3> QED
        BY <3>1, <3>3 DEF Past
    <2>5. \E t \in started : t.header = header
      BY <2>3 DEF ShareInvariant, Faithful
    <2> QED
      BY <1>1, <2>2, <2>4, <2>5, Zenon
  <1>6. Faithful'
    BY <1>1, <1>4, <1>5, Zenon DEF ShareInvariant, Faithful
  <1> QED
    BY <1>2, <1>6 DEF ShareInvariant

\* A new extranonce1: nothing is mined or submitted under it yet.
LEMMA AssignKeepsShares ==
  ASSUME WorkInvariant, FreshInvariant, ShareInvariant,
         NEW e \in Extra1, SetExtranonce(e) \/ ReplySubscribe(e)
  PROVE  ShareInvariant'
  <1>1. UNCHANGED <<rangeStart, sent>> /\ started' = {} /\ earlier' = sent
    BY Zenon DEF SetExtranonce, ReplySubscribe, Assign
  <1>2. ~Mining'
    <2>1. CASE SetExtranonce(e)
      BY <2>1, Zenon DEF SetExtranonce, StopFirst, Mining
    <2>2. CASE ReplySubscribe(e)
      <3>1. ~authorized
        BY <2>2, Zenon DEF ReplySubscribe, FreshInvariant, Fresh
      <3>2. ~running
        BY <2>2, <3>1, Zenon DEF ReplySubscribe, WorkInvariant, Control
      <3> QED
        BY <2>2, <3>2, Zenon DEF ReplySubscribe, Mining
    <2> QED
      BY <2>1, <2>2
  <1>3. sent' \ earlier' = {}
    BY <1>1
  <1>4. SubmissionsFaithful'
    BY <1>1, <1>3, Zenon DEF ShareInvariant, SubmissionsFaithful
  <1>5. Faithful'
    BY <1>1, <1>2, <1>3, Zenon DEF ShareInvariant, Faithful
  <1> QED
    BY <1>4, <1>5 DEF ShareInvariant

\* The other steps of the task leave the queues alone, or stop the engines.
LEMMA OtherSteps ==
  ASSUME [Next]_vars
  PROVE  \/ PollResult \/ NextRange \/ Connect
         \/ DeviceNext /\ UNCHANGED <<taskVars, history>>
         \/ BuildHeader("build", "recv") \/ BuildHeader("rebuild", "timers")
         \/ \E e \in Extra1 : SetExtranonce(e) \/ ReplySubscribe(e)
         \/ /\ UNCHANGED <<header, rangeStart, sent, started, earlier>>
            /\ \/ running' = running /\ pc' \in {"stop", "drain"}
               \/ ~running'
               \/ /\ UNCHANGED <<running, fifo, inflight, left>>
                  /\ pc' \in {"stop", "drain"} \/ pc \notin {"stop", "drain"}
  <1> USE DEF session, history, deviceVars, EndSession
  <1>1. CASE StopStep
    BY <1>1, Zenon DEF StopStep, StopWrite, StopDrained
  <1>2. CASE BuildStep
    BY <1>2, Zenon DEF BuildStep, BuildHeaderExhausted, BuildHeaderMalformed
  <1>3. CASE ServiceStep
    BY <1>3 DEF ServiceStep, Service, PollEnd, ReadDone, ResultsLeft, Again
  <1>4. CASE LineStep
    BY <1>4 DEF LineStep, LineRefused, SetDifficulty, Notify, ReplyAuthorize, ReplyShare, StopFirst
  <1>5. CASE Close \/ ApplyExtranonce \/ ApplyNotify \/ ApplyNotifyMalformed
    BY <1>5 DEF Close, ApplyExtranonce, ApplyNotify, ApplyNotifyMalformed
  <1>6. CASE Leave \/ EndChunk \/ ShareTimeout
    BY <1>6 DEF Leave, EndChunk, ShareTimeout
  <1>7. CASE UNCHANGED vars
    BY <1>7, Zenon DEF vars, taskVars
  <1> QED
    BY <1>1, <1>2, <1>3, <1>4, <1>5, <1>6, <1>7, Zenon DEF Next, TaskStep

\* Every step keeps the invariant.
LEMMA StepKeepsShares ==
  ASSUME WorkInvariant, ResultInvariant, FreshInvariant, AnswerInvariant, AnswerInvariant',
         ShareInvariant, [Next]_vars
  PROVE  ShareInvariant'
  <1>1. ASSUME UNCHANGED <<header, rangeStart, sent, started, earlier>>,
               Mining' => Mining /\ UNCHANGED <<fifo, inflight, left>>
        PROVE  ShareInvariant'
    <2>1. UNCHANGED <<fifo, inflight, left>> => (Ordered' <=> Ordered) /\ \A r : Past(r) => Past(r)'
      BY <1>1, Zenon DEF Ordered, Past, Unread
    <2> QED
      BY <1>1, <2>1, Zenon DEF ShareInvariant, Faithful, SubmissionsFaithful
  <1>2. ASSUME Connect
        PROVE  ShareInvariant'
    BY <1>2, Zenon DEF Connect, ShareInvariant, Faithful, SubmissionsFaithful, Mining
  <1>3. ASSUME UNCHANGED <<header, rangeStart, sent, started, earlier>>,
               \/ running' = running /\ pc' \in {"stop", "drain"}
               \/ ~running'
               \/ /\ UNCHANGED <<running, fifo, inflight, left>>
                  /\ pc' \in {"stop", "drain"} \/ pc \notin {"stop", "drain"}
        PROVE  ShareInvariant'
    BY <1>1, <1>3, Zenon DEF Mining
  <1> QED
    BY <1>2, <1>3, OtherSteps, SubmitKeepsShares, NextRangeKeepsShares, DeviceKeepsShares,
       BuildKeepsShares, AssignKeepsShares, Zenon

\* A submission has an id of its own and names the job and extranonce2 of the
\* header that its nonce was found for, and a share is submitted once under an
\* assignment of the extranonce1, however the engines, the FIFO and the pool's
\* lines interleave.
THEOREM SharesFaithful == Spec => []SubmissionsFaithful
  <1>1. Init => ShareInvariant
    <2>1. 0 \in 0 .. NumRanges - 1
      BY Sizes
    <2> QED
      BY <2>1, Zenon DEF Init, ShareInvariant, Faithful, SubmissionsFaithful, Mining
  <1>2. ShareInvariant => SubmissionsFaithful
    BY DEF ShareInvariant
  <1> QED
    BY <1>1, <1>2, StepKeepsShares, WorkInvariantHolds, ResultInvariantHolds, FreshInvariantHolds,
       AnswerInvariantHolds, PTL DEF Spec
=============================================================================
